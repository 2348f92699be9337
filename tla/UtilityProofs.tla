--------------------------- MODULE UtilityProofs ---------------------------
(***************************************************************************)
(* Theorems about Calendar and Cron, for every date, every expression and  *)
(* every instant that the assumptions of the two modules allow.            *)
(*                                                                         *)
(* Calendar: CivilOf gives back what DayOf was given, so that counting by  *)
(* days and counting by digits agree.  The invariant is that the walk      *)
(* meets dates only.                                                       *)
(*                                                                         *)
(* Cron: Searching says that the frames of findNext have put their fields  *)
(* into the expression's sets and have moved the time on; Thorough says    *)
(* that no instant the expression fires at was passed over, by a count of  *)
(* the periods of a field that lie before an instant.                      *)
(***************************************************************************)
EXTENDS Calendar, Cron, SequenceLemmas, FiniteSetTheorems, TLAPS
\* The days of a year before the first of a month, in a year that begins on
\* the 1st of March.
DaysBefore(m) == (153 * ((m + 9) % 12) + 2) \div 5
\* The year that begins in March.
MarchYear(y, m) == IF m <= 2 THEN y - 1 ELSE y
YearDay(m, mday) == DaysBefore(m) + mday - 1

\* Days of the years before, of a cycle of 400.
DaysOfYears(y) == y * 365 + y \div 4 - y \div 100 + y \div 400

\* The days of the year, which begins in March, before each month.
LEMMA MonthStarts ==
  /\ DaysBefore(3) = 0 /\ DaysBefore(4) = 31 /\ DaysBefore(5) = 61
  /\ DaysBefore(6) = 92 /\ DaysBefore(7) = 122 /\ DaysBefore(8) = 153
  /\ DaysBefore(9) = 184 /\ DaysBefore(10) = 214 /\ DaysBefore(11) = 245
  /\ DaysBefore(12) = 275 /\ DaysBefore(1) = 306 /\ DaysBefore(2) = 337
BY DEF DaysBefore

\* DayOf is the days of the years before, and those of the year.
LEMMA DayOfIs ==
  ASSUME NEW y \in Int, NEW m \in 1..12, NEW mday \in Int
  PROVE  DayOf(y, m, mday) = DaysOfYears(MarchYear(y, m)) + YearDay(m, mday) - 719468
<1> DEFINE yr == MarchYear(y, m)
<1>1. yr \in Int BY DEF MarchYear
<1>2. DayOf(y, m, mday) = (yr \div 400) * 146097 + (yr % 400) * 365 + (yr % 400) \div 4 - (yr % 400) \div 100 + YearDay(m, mday) - 719468
  BY DEF DayOf, YearDay, DaysBefore, MarchYear
<1>3. YearDay(m, mday) \in Int BY DEF YearDay, DaysBefore
<1> HIDE DEF yr
<1>4. (yr \div 400) * 146097 + (yr % 400) * 365 + (yr % 400) \div 4 - (yr % 400) \div 100 = DaysOfYears(yr)
  BY <1>1 DEF DaysOfYears
<1> QED BY <1>2, <1>3, <1>4, <1>1 DEF yr, DaysOfYears

\* doy is the day of a year from March that is the day mday of the month m.
MonthDay(doy, y, m, mday) ==
  /\ m \in Int /\ 1 <= m /\ m <= 12
  /\ doy \in Nat /\ doy = YearDay(m, mday) /\ doy <= 365
  /\ doy = 365 => m = 2 /\ Leap(y)
  /\ (5 * doy + 2) \div 153 = (m + 9) % 12
  /\ doy - DaysBefore(m) + 1 = mday

\* A day of a month is a day of the year that CivilOf takes for that month.
LEMMA MonthsFit ==
  ASSUME NEW y \in Int, NEW m \in 1..12, NEW mday \in 1..DaysIn(y, m)
  PROVE  \E doy : MonthDay(doy, y, m, mday)
<1>1. /\ DaysIn(y, m) \in 28..31
      /\ m = 2 => DaysIn(y, m) <= 29 /\ (DaysIn(y, m) = 29 => Leap(y))
      /\ m \in {4, 6, 9, 11} => DaysIn(y, m) = 30
  BY DEF DaysIn
<1>2. PICK doy \in Nat :
        /\ doy = YearDay(m, mday) /\ doy <= 365
        /\ (5 * doy + 2) \div 153 = (m + 9) % 12
        /\ doy - DaysBefore(m) + 1 = mday
        /\ doy = 365 => m = 2 /\ mday = 29
  BY <1>1 DEF YearDay, DaysBefore
<1> QED  BY <1>1, <1>2 DEF MonthDay

\* The year y by cycles of 400, centuries, leap years and years.
YearByParts(y, e, c, q, r) ==
  /\ e \in Int /\ c \in Nat /\ q \in Nat /\ r \in Nat
  /\ c <= 3 /\ q <= 24 /\ r <= 3
  /\ y = 400 * e + 100 * c + 4 * q + r
  /\ y \div 400 = e /\ y % 400 = 100 * c + 4 * q + r
  /\ (y % 400) \div 4 = 25 * c + q /\ (y % 400) \div 100 = c
  /\ DaysOfYears(y) = 146097 * e + 36524 * c + 1461 * q + 365 * r
  /\ Leap(y + 1) => (r = 3 /\ (q < 24 \/ c = 3))

\* A year by its place in the cycle of 400, of 100 and of 4 years.
LEMMA YearParts ==
  ASSUME NEW y \in Int
  PROVE  \E e, c, q, r : YearByParts(y, e, c, q, r)
<1> DEFINE s == y % 400
           c == s \div 100
           q == (s % 100) \div 4
           r == s % 4
<1>1. /\ y \div 400 \in Int /\ c \in 0..3 /\ q \in 0..24 /\ r \in 0..3
      /\ s = 100 * c + 4 * q + r /\ y = 400 * (y \div 400) + s
      /\ s \div 4 = 25 * c + q
  OBVIOUS
<1>2. PICK e \in Int, a \in Nat, b \in Nat, d \in Nat :
        /\ a <= 3 /\ b <= 24 /\ d <= 3
        /\ e = y \div 400 /\ a = c /\ b = q /\ d = r
        /\ s = 100 * a + 4 * b + d /\ y = 400 * e + 100 * a + 4 * b + d
        /\ s \div 4 = 25 * a + b /\ s \div 100 = a
  BY <1>1
<1> HIDE DEF s, c, q, r
<1>3. DaysOfYears(y) = 146097 * e + 36524 * a + 1461 * b + 365 * d
  BY <1>2 DEF DaysOfYears
<1>4. Leap(y + 1) => (d = 3 /\ (b < 24 \/ a = 3))
  BY <1>2 DEF Leap
<1>5. YearByParts(y, e, a, b, d)
  BY <1>2, <1>3, <1>4 DEF s, YearByParts
<1> QED  BY <1>5

\* The parts of CivilOf.
YoeOf(doe) ==
  (doe - doe \div 1460 + doe \div 36524 - doe \div 146096) \div 365
DoyOf(doe) ==
  doe - (365 * YoeOf(doe) + YoeOf(doe) \div 4 - YoeOf(doe) \div 100)

\* z is the day doy (from 0) of the year yr that begins in March.
DayAt(z, yr, doy) ==
  /\ yr \in Int /\ doy \in Nat /\ doy <= 365 /\ (doy = 365 => Leap(yr + 1))
  /\ z = DaysOfYears(yr) + doy

\* CivilOf finds the year, and the day of it, of a day.
LEMMA YearOf ==
  ASSUME NEW z, NEW yr, NEW doy, DayAt(z, yr, doy)
  PROVE  /\ z \div 146097 = yr \div 400
         /\ YoeOf(z % 146097) = yr % 400 /\ DoyOf(z % 146097) = doy
<1>0. /\ yr \in Int /\ doy \in Nat /\ doy <= 365 /\ (doy = 365 => Leap(yr + 1))
      /\ z = DaysOfYears(yr) + doy
  BY DEF DayAt
<1>a. PICK e, c, q, r : YearByParts(yr, e, c, q, r)
  BY <1>0, YearParts
<1>1. /\ e \in Int /\ c \in Nat /\ q \in Nat /\ r \in Nat
      /\ c <= 3 /\ q <= 24 /\ r <= 3
      /\ yr = 400 * e + 100 * c + 4 * q + r
      /\ yr \div 400 = e /\ yr % 400 = 100 * c + 4 * q + r
      /\ (yr % 400) \div 4 = 25 * c + q /\ (yr % 400) \div 100 = c
      /\ DaysOfYears(yr) = 146097 * e + 36524 * c + 1461 * q + 365 * r
      /\ Leap(yr + 1) => (r = 3 /\ (q < 24 \/ c = 3))
  BY <1>a DEF YearByParts
<1>2. doy = 365 => (r = 3 /\ (q < 24 \/ c = 3))
  BY <1>0, <1>1
<1>3. PICK d \in Nat : d = 36524 * c + 1461 * q + 365 * r + doy
  BY <1>0, <1>1
<1>4. d < 146097
  BY <1>0, <1>1, <1>2, <1>3
<1>5. z = 146097 * e + d
  BY <1>0, <1>1, <1>3
<1>6. z \div 146097 = e /\ z % 146097 = d
  <2>1. e \in Int /\ 0 <= d
    BY <1>1
  <2> QED  BY <1>4, <1>5, <2>1
<1>7. YoeOf(d) = yr % 400
  <2>1. (d - d \div 1460 + d \div 36524 - d \div 146096) \div 365 = 100 * c + 4 * q + r
    BY <1>0, <1>1, <1>2, <1>3
  <2> QED  BY <1>1, <2>1 DEF YoeOf
<1>8. DoyOf(d) = doy
  <2>1. d - (365 * (yr % 400) + (yr % 400) \div 4 - (yr % 400) \div 100) = doy
    BY <1>0, <1>1, <1>3
  <2> QED  BY <1>7, <2>1 DEF DoyOf
<1> QED  BY <1>1, <1>6, <1>7, <1>8

\* The year of the month m, from the year that began in March.
NextYear(m) == IF m <= 2 THEN 1 ELSE 0
YearIs(era, yoe, m) == yoe + era * 400 + NextYear(m)

DateOf(era, yoe, doy) ==
  LET mp == (5 * doy + 2) \div 153
      m  == IF mp < 10 THEN mp + 3 ELSE mp - 9
  IN  [year |-> yoe + era * 400 + (IF m <= 2 THEN 1 ELSE 0), month |-> m,
       mday |-> doy - (153 * mp + 2) \div 5 + 1]

\* CivilOf by its steps: the year of the cycle, then the day of that year.
LEMMA CivilIs ==
  ASSUME NEW day
  PROVE  LET z == day + 719468
         IN  CivilOf(day) = DateOf(z \div 146097, YoeOf(z % 146097),
                                   DoyOf(z % 146097))
BY DEF CivilOf, DateOf, DoyOf, YoeOf

\* From the day of the year CivilOf finds the month and the day of it.
LEMMA DateOfIs ==
  ASSUME NEW e \in Int, NEW yoe \in Nat, NEW y, NEW m, NEW mday,
         NEW doy, MonthDay(doy, y, m, mday)
  PROVE  /\ DateOf(e, yoe, doy).year = YearIs(e, yoe, m)
         /\ DateOf(e, yoe, doy).month = m /\ DateOf(e, yoe, doy).mday = mday
<1>0. /\ m \in 1..12
      /\ doy \in Nat /\ (5 * doy + 2) \div 153 = (m + 9) % 12
      /\ doy - DaysBefore(m) + 1 = mday
  BY DEF MonthDay
<1> DEFINE mp == (5 * doy + 2) \div 153
<1>1. (IF mp < 10 THEN mp + 3 ELSE mp - 9) = m
  BY <1>0
<1>2. (153 * mp + 2) \div 5 = DaysBefore(m)
  BY <1>0 DEF DaysBefore
<1>3. DateOf(e, yoe, doy) =
        LET i == IF mp < 10 THEN mp + 3 ELSE mp - 9
        IN  [year |-> yoe + e * 400 + (IF i <= 2 THEN 1 ELSE 0), month |-> i,
             mday |-> doy - (153 * mp + 2) \div 5 + 1]
  BY DEF DateOf
<1> HIDE DEF mp
<1> QED  BY <1>0, <1>1, <1>2, <1>3 DEF YearIs, NextYear

\* A day goes to its date and back.
LEMMA CivilOfDayOf ==
  ASSUME NEW y \in Int, NEW m \in 1..12, NEW mday \in 1..DaysIn(y, m)
  PROVE  /\ CivilOf(DayOf(y, m, mday)).year = y
         /\ CivilOf(DayOf(y, m, mday)).month = m
         /\ CivilOf(DayOf(y, m, mday)).mday = mday
<1>0. PICK doy : MonthDay(doy, y, m, mday)
  BY MonthsFit
<1>1.      /\ doy \in Nat /\ doy = YearDay(m, mday) /\ doy <= 365
           /\ doy = 365 => m = 2 /\ Leap(y)
           /\ (5 * doy + 2) \div 153 = (m + 9) % 12
           /\ doy - DaysBefore(m) + 1 = mday
  BY <1>0 DEF MonthDay
<1>2. PICK yr \in Int : /\ yr = MarchYear(y, m)
                        /\ yr + NextYear(m) = y
  BY DEF MarchYear, NextYear
<1>3. DayOf(y, m, mday) = DaysOfYears(yr) + doy - 719468
  <2>1. mday \in Int
    BY DEF DaysIn
  <2> QED  BY <1>1, <1>2, <2>1, DayOfIs
<1>4. PICK z \in Int : z = DaysOfYears(yr) + doy
  BY <1>1 DEF DaysOfYears
<1>5. DayAt(z, yr, doy)
  <2>1. m = 2 => yr + 1 = y
    BY <1>2 DEF NextYear
  <2> QED  BY <1>1, <1>4, <2>1 DEF DayAt
<1>6. DayOf(y, m, mday) + 719468 = z
  BY <1>1, <1>3, <1>4 DEF DaysOfYears
<1>7. CivilOf(DayOf(y, m, mday)) = DateOf(yr \div 400, yr % 400, doy)
  BY <1>5, <1>6, YearOf, CivilIs
<1>8. PICK yoe \in Nat, era \in Int : /\ yoe = yr % 400 /\ era = yr \div 400
                                      /\ yr = yoe + era * 400
  OBVIOUS
<1>9. /\ DateOf(era, yoe, doy).year = YearIs(era, yoe, m)
      /\ DateOf(era, yoe, doy).month = m /\ DateOf(era, yoe, doy).mday = mday
  BY <1>0, DateOfIs
<1>10. YearIs(era, yoe, m) = y
  BY <1>2, <1>8 DEF YearIs, NextYear
<1> QED  BY <1>7, <1>8, <1>9, <1>10
-----------------------------------------------------------------------------
\* A day, month and year of the calendar.
IsCivil(y, m, mday) ==
  /\ y \in Int /\ m \in Int /\ 1 <= m /\ m <= 12
  /\ mday \in Int /\ 1 <= mday /\ mday <= DaysIn(y, m)

\* The lengths of the months.
LEMMA MonthLengths ==
  ASSUME NEW y, NEW m
  PROVE  /\ DaysIn(y, m) \in Int /\ 28 <= DaysIn(y, m) /\ DaysIn(y, m) <= 31
         /\ m = 2 => DaysIn(y, m) = IF Leap(y) THEN 29 ELSE 28
         /\ m \in {4, 6, 9, 11} => DaysIn(y, m) = 30
         /\ m \in {1, 3, 5, 7, 8, 10, 12} => DaysIn(y, m) = 31
BY DEF DaysIn

\* DayOf is a number.
LEMMA DayOfInt ==
  ASSUME NEW y \in Int, NEW m \in Int, NEW mday \in Int
  PROVE  DayOf(y, m, mday) \in Int
BY DEF DayOf

\* The parts of a number of eight digits.
LEMMA Digits ==
  ASSUME NEW y \in Int, NEW m \in Int, NEW mday \in Int,
         0 <= m, m < 100, 0 <= mday, mday < 100
  PROVE  /\ Year(y * 10000 + m * 100 + mday) = y
         /\ Month(y * 10000 + m * 100 + mday) = m
         /\ MDay(y * 10000 + m * 100 + mday) = mday
BY DEF Year, Month, MDay

\* A number is made of its parts.
LEMMA OfDigits ==
  ASSUME NEW d \in Int
  PROVE  /\ d = Year(d) * 10000 + Month(d) * 100 + MDay(d)
         /\ Year(d) \in Int /\ Month(d) \in Int /\ MDay(d) \in Int
         /\ d \div 100 = Year(d) * 100 + Month(d)
BY DEF Year, Month, MDay

\* A date is a number whose parts are a day of the calendar.
LEMMA DateParts ==
  ASSUME NEW d
  PROVE  IsDate(d) <=> d \in Int /\ IsCivil(Year(d), Month(d), MDay(d))
<1>1. d \in Int => Year(d) \in Int /\ Month(d) \in Int /\ MDay(d) \in Int
  BY OfDigits
<1>2. DaysIn(Year(d), Month(d)) \in Int
  BY MonthLengths
<1>3. d \in Int => (MDay(d) \in 1..DaysIn(Year(d), Month(d))
                   <=> MDay(d) \in Int /\ 1 <= MDay(d) /\ MDay(d) <= DaysIn(Year(d), Month(d)))
  BY <1>1, <1>2
<1>4. d \in Int => (Month(d) \in 1..12 <=> 1 <= Month(d) /\ Month(d) <= 12)
  BY <1>1
<1> QED  BY <1>1, <1>2, <1>3, <1>4 DEF IsDate, IsCivil

\* A day of the calendar, as a number, is a date.
LEMMA CivilDate ==
  ASSUME NEW y, NEW m, NEW mday, IsCivil(y, m, mday)
  PROVE  /\ IsDate(y * 10000 + m * 100 + mday)
         /\ Year(y * 10000 + m * 100 + mday) = y
         /\ Month(y * 10000 + m * 100 + mday) = m
         /\ MDay(y * 10000 + m * 100 + mday) = mday
<1>1. /\ y \in Int /\ m \in Int /\ mday \in Int
      /\ 0 <= m /\ m < 100 /\ 0 <= mday /\ mday < 100
  BY MonthLengths DEF IsCivil
<1>2. PICK d \in Int : d = y * 10000 + m * 100 + mday
  BY <1>1
<1>3. Year(d) = y /\ Month(d) = m /\ MDay(d) = mday
  BY <1>1, <1>2, Digits
<1> QED  BY <1>2, <1>3, DateParts

\* CivilOf gives back the day of the calendar that DayOf was given.
LEMMA CivilBack ==
  ASSUME NEW y, NEW m, NEW mday, IsCivil(y, m, mday)
  PROVE  /\ CivilOf(DayOf(y, m, mday)).year = y
         /\ CivilOf(DayOf(y, m, mday)).month = m
         /\ CivilOf(DayOf(y, m, mday)).mday = mday
<1>1. y \in Int /\ m \in 1..12 /\ mday \in 1..DaysIn(y, m)
  BY MonthLengths DEF IsCivil
<1> QED  BY <1>1, CivilOfDayOf

\* tm2str writes the day of the calendar it was given.
LEMMA CivilNumber ==
  ASSUME NEW y, NEW m, NEW mday, IsCivil(y, m, mday)
  PROVE  tm2str(DayOf(y, m, mday)) = y * 10000 + m * 100 + mday
BY CivilBack DEF tm2str

\* The day of a date is a number, and its date the date.
LEMMA DayOfDate ==
  ASSUME NEW d, IsDate(d)
  PROVE  str2time(d) \in Int /\ tm2str(str2time(d)) = d
<1>1. IsCivil(Year(d), Month(d), MDay(d)) /\ d \in Int
  BY DateParts
<1>2. PICK y \in Int, m \in Int, mday \in Int :
        y = Year(d) /\ m = Month(d) /\ mday = MDay(d)
  BY <1>1, OfDigits
<1>3. str2time(d) = DayOf(y, m, mday)
  BY <1>2 DEF str2time
<1>4. m \in 1..12 /\ mday \in 1..DaysIn(y, m)
  BY <1>1, <1>2, MonthLengths DEF IsCivil
<1>5. str2time(d) \in Int
  BY <1>3, DayOfInt
<1>6. tm2str(str2time(d)) = y * 10000 + m * 100 + mday
  BY <1>1, <1>2, <1>3, CivilNumber
<1> QED  BY <1>1, <1>2, <1>5, <1>6, OfDigits

\* The day after a day of the calendar: of the same month, of the next, or of the
\* next year.
LEMMA DayOfNext ==
  ASSUME NEW y, NEW m, NEW mday, IsCivil(y, m, mday)
  PROVE  /\ DayOf(y, m, mday) \in Int
         /\ mday < DaysIn(y, m) =>
              /\ IsCivil(y, m, mday + 1)
              /\ DayOf(y, m, mday + 1) = DayOf(y, m, mday) + 1
         /\ mday = DaysIn(y, m) /\ m < 12 =>
              /\ IsCivil(y, m + 1, 1)
              /\ DayOf(y, m + 1, 1) = DayOf(y, m, mday) + 1
         /\ mday = DaysIn(y, m) /\ m = 12 =>
              /\ IsCivil(y + 1, 1, 1)
              /\ DayOf(y + 1, 1, 1) = DayOf(y, m, mday) + 1
<1>1. /\ y \in Int /\ m \in 1..12 /\ mday \in Int
      /\ 1 <= mday /\ mday <= DaysIn(y, m)
  BY DEF IsCivil
<1>2. \A yy \in Int, mm \in 1..12, dd \in Int :
        DayOf(yy, mm, dd) = DaysOfYears(MarchYear(yy, mm)) + YearDay(mm, dd) - 719468
  BY DayOfIs
<1>3. \A yy \in Int : DaysOfYears(yy) \in Int
  BY DEF DaysOfYears
<1>4. DaysOfYears(y) - DaysOfYears(y - 1) = IF Leap(y) THEN 366 ELSE 365
  BY <1>1 DEF DaysOfYears, Leap
<1>5. DayOf(y, m, mday) = DaysOfYears(MarchYear(y, m)) + YearDay(m, mday) - 719468
  BY <1>1, DayOfIs
<1>6. DayOf(y, m, mday) \in Int
  BY <1>1, <1>3, <1>5 DEF MarchYear, YearDay, DaysBefore
<1>7. ASSUME mday < DaysIn(y, m)
      PROVE  /\ IsCivil(y, m, mday + 1)
             /\ DayOf(y, m, mday + 1) = DayOf(y, m, mday) + 1
  <2>1. DayOf(y, m, mday + 1) = DaysOfYears(MarchYear(y, m)) + YearDay(m, mday + 1) - 719468
    BY <1>1, DayOfIs
  <2> QED  BY <1>1, <1>3, <1>5, <1>7, <2>1, MonthLengths DEF MarchYear, YearDay, DaysBefore, IsCivil
<1>8. ASSUME mday = DaysIn(y, m), m < 12
      PROVE  /\ IsCivil(y, m + 1, 1)
             /\ DayOf(y, m + 1, 1) = DayOf(y, m, mday) + 1
  <2>1. DayOf(y, m + 1, 1) = DaysOfYears(MarchYear(y, m + 1)) + YearDay(m + 1, 1) - 719468
    BY <1>1, <1>8, DayOfIs
  <2>2. IsCivil(y, m + 1, 1)
    BY <1>1, <1>8, MonthLengths DEF IsCivil
  <2>3. YearDay(m + 1, 1) - YearDay(m, mday) = IF m = 2 THEN 1 - 337 - mday + 0 ELSE 1
    BY <1>1, <1>8, MonthLengths DEF YearDay, DaysBefore
  <2>4. m = 2 => mday = IF Leap(y) THEN 29 ELSE 28
    BY <1>8, MonthLengths
  <2>5. YearDay(m + 1, 1) \in Int /\ YearDay(m, mday) \in Int
    BY <1>1 DEF YearDay, DaysBefore
  <2>6. (MarchYear(y, m + 1) = y /\ MarchYear(y, m) = y - 1) \/ m # 2
    BY <1>1 DEF MarchYear
  <2>7. m # 2 => MarchYear(y, m + 1) = MarchYear(y, m) /\ MarchYear(y, m) \in Int
    BY <1>1 DEF MarchYear
  <2>8. CASE m = 2
    BY <1>1, <1>3, <1>4, <1>5, <2>1, <2>2, <2>3, <2>4, <2>5, <2>6, <2>8
  <2>9. CASE m # 2
    BY <1>1, <1>3, <1>5, <2>1, <2>2, <2>3, <2>5, <2>7, <2>9
  <2> QED  BY <2>8, <2>9
<1>9. ASSUME mday = DaysIn(y, m), m = 12
      PROVE  /\ IsCivil(y + 1, 1, 1)
             /\ DayOf(y + 1, 1, 1) = DayOf(y, m, mday) + 1
  <2>1. DayOf(y + 1, 1, 1) = DaysOfYears(MarchYear(y + 1, 1)) + YearDay(1, 1) - 719468
    BY <1>1, DayOfIs
  <2>2. MarchYear(y + 1, 1) = y /\ MarchYear(y, m) = y /\ YearDay(1, 1) = 306 /\ YearDay(m, mday) = 305
    BY <1>1, <1>9, MonthLengths DEF MarchYear, YearDay, DaysBefore
  <2> QED  BY <1>1, <1>3, <1>5, <2>1, <2>2, MonthLengths DEF IsCivil
<1> QED  BY <1>1, <1>6, <1>7, <1>8, <1>9

\* The date after a date is the date of the day after its day.
LEMMA SuccessorIs ==
  ASSUME NEW d, IsDate(d)
  PROVE  IsDate(Successor(d)) /\ str2time(Successor(d)) = str2time(d) + 1
<1>1. PICK y, m, mday :
        /\ y = Year(d) /\ m = Month(d) /\ mday = MDay(d)
        /\ IsCivil(y, m, mday)
  BY DateParts
<1>2. /\ y \in Int /\ m \in Int /\ mday \in Int /\ mday <= DaysIn(y, m) /\ m <= 12
      /\ DaysIn(y, m) \in Int
  BY <1>1, MonthLengths DEF IsCivil
<1>3. PICK ny, nm, nd :
        /\ IsCivil(ny, nm, nd) /\ DayOf(ny, nm, nd) = DayOf(y, m, mday) + 1
        /\ Successor(d) = ny * 10000 + nm * 100 + nd
  <2>0. d = y * 10000 + m * 100 + mday /\ d \div 100 = y * 100 + m
    BY <1>1, OfDigits, DateParts
  <2>1. CASE mday < DaysIn(y, m)
    <3>1. Successor(d) = y * 10000 + m * 100 + (mday + 1)
      BY <1>1, <1>2, <2>0, <2>1 DEF Successor
    <3> QED  BY <1>1, <2>1, <3>1, DayOfNext
  <2>2. CASE mday = DaysIn(y, m) /\ m < 12
    <3>1. Successor(d) = y * 10000 + (m + 1) * 100 + 1
      BY <1>1, <1>2, <2>0, <2>2 DEF Successor
    <3> QED  BY <1>1, <2>2, <3>1, DayOfNext
  <2>3. CASE mday = DaysIn(y, m) /\ m = 12
    <3>1. Successor(d) = (y + 1) * 10000 + 1 * 100 + 1
      BY <1>1, <1>2, <2>0, <2>3 DEF Successor
    <3> QED  BY <1>1, <2>3, <3>1, DayOfNext
  <2> QED  BY <1>2, <2>1, <2>2, <2>3
<1>4. IsDate(Successor(d)) /\ str2time(Successor(d)) = DayOf(ny, nm, nd)
  BY <1>3, CivilDate DEF str2time
<1> QED  BY <1>1, <1>3, <1>4 DEF str2time
-----------------------------------------------------------------------------
\* y is a year of a cycle of 400, by centuries and by leap years.
CycleYear(y, e, c, q, r) ==
  /\ e \in Int /\ c \in Nat /\ q \in Nat /\ r \in Nat
  /\ c <= 3 /\ q <= 24 /\ r <= 3
  /\ y = 400 * e + 100 * c + 4 * q + r

\* The days before a year, by its place in the cycles.
LEMMA CycleDays ==
  ASSUME NEW y, NEW e, NEW c, NEW q, NEW r, CycleYear(y, e, c, q, r)
  PROVE  /\ y \in Int
         /\ DaysOfYears(y) = 146097 * e + 36524 * c + 1461 * q + 365 * r
         /\ r = 3 /\ (q < 24 \/ c = 3) => Leap(y + 1)
<1> USE DEF CycleYear
<1>1. y \div 4 = 100 * e + 25 * c + q /\ y \div 100 = 4 * e + c /\ y \div 400 = e
  OBVIOUS
<1>2. DaysOfYears(y) = y * 365 + (100 * e + 25 * c + q) - (4 * e + c) + e
  BY <1>1 DEF DaysOfYears
<1>3. r = 3 /\ (q < 24 \/ c = 3) => Leap(y + 1)
  BY DEF Leap
<1> QED  BY <1>2, <1>3

\* Every day is a day of some year.
LEMMA YearOfEveryDay ==
  ASSUME NEW z \in Int
  PROVE  \E yr, doy : DayAt(z, yr, doy)
<1>1. PICK e \in Int, d \in Nat : z = 146097 * e + d /\ d < 146097
  <2>1. /\ z \div 146097 \in Int /\ z % 146097 \in Nat /\ z % 146097 < 146097
        /\ z = 146097 * (z \div 146097) + (z % 146097)
    OBVIOUS
  <2> QED  BY <2>1
<1>2. PICK c \in Nat, d1 \in Nat :
        /\ d = 36524 * c + d1 /\ c <= 3 /\ d1 <= 36524 /\ (c < 3 => d1 < 36524)
  <2>1. CASE d < 109572
    <3>1. PICK c \in Nat, d1 \in Nat : d = 36524 * c + d1 /\ d1 < 36524 /\ c < 3
      BY <2>1
    <3> QED  BY <3>1
  <2>2. CASE 109572 <= d
    <3>1. d - 109572 \in Nat /\ d - 109572 <= 36524
      BY <1>1, <2>2
    <3>2. d = 36524 * 3 + (d - 109572)
      OBVIOUS
    <3> QED  BY <3>1, <3>2
  <2> QED  BY <2>1, <2>2
<1>3. PICK q \in Nat, d2 \in Nat :
        /\ d1 = 1461 * q + d2 /\ d2 <= 1460 /\ q <= 24
        /\ d2 = 1460 => q < 24 \/ c = 3
  <2>1. PICK q \in Nat, d2 \in Nat : d1 = 1461 * q + d2 /\ d2 <= 1460
    <3>1. /\ d1 \div 1461 \in Nat /\ d1 % 1461 \in Nat /\ d1 % 1461 <= 1460
          /\ d1 = 1461 * (d1 \div 1461) + (d1 % 1461)
      OBVIOUS
    <3> QED  BY <3>1
  <2> QED  BY <1>2, <2>1
<1>4. PICK r \in Nat, doy \in Nat :
        /\ d2 = 365 * r + doy /\ r <= 3 /\ doy <= 365
        /\ doy = 365 => r = 3
  <2>1. CASE d2 = 1460
    <3>1. d2 = 365 * 3 + 365
      BY <2>1
    <3> QED  BY <3>1
  <2>2. CASE d2 < 1460
    <3>1. PICK r \in Nat, doy \in Nat : d2 = 365 * r + doy /\ doy < 365 /\ r <= 3
      BY <2>2
    <3> QED  BY <3>1
  <2> QED  BY <1>3, <2>1, <2>2
<1>5. PICK yr : yr = 400 * e + 100 * c + 4 * q + r
  OBVIOUS
<1>6. CycleYear(yr, e, c, q, r)
  BY <1>2, <1>3, <1>4, <1>5 DEF CycleYear
<1>7. z = DaysOfYears(yr) + doy
  BY <1>1, <1>2, <1>3, <1>4, <1>6, CycleDays
<1>8. doy = 365 => Leap(yr + 1)
  BY <1>3, <1>4, <1>6, CycleDays
<1> QED  BY <1>4, <1>6, <1>7, <1>8, CycleDays DEF DayAt

\* Every day of a year is a day of one of its months.
LEMMA MonthOfEveryDay ==
  ASSUME NEW doy \in Nat, doy <= 365
  PROVE  \E m \in Int, mday \in Int :
           /\ 1 <= m /\ m <= 12 /\ 1 <= mday
           /\ m # 2 => \A y : mday <= DaysIn(y, m)
           /\ m = 2 => mday <= (IF doy = 365 THEN 29 ELSE 28)
           /\ doy = YearDay(m, mday)
<1> DEFINE Fits(m, mday) ==
           /\ 1 <= m /\ m <= 12 /\ 1 <= mday
           /\ m # 2 => \A y : mday <= DaysIn(y, m)
           /\ m = 2 => mday <= (IF doy = 365 THEN 29 ELSE 28)
           /\ doy = YearDay(m, mday)
<1>1. /\ doy < 31 => Fits(3, doy + 1)
      /\ 31 <= doy /\ doy < 61 => Fits(4, doy - 30)
      /\ 61 <= doy /\ doy < 92 => Fits(5, doy - 60)
      /\ 92 <= doy /\ doy < 122 => Fits(6, doy - 91)
  BY MonthLengths, MonthStarts DEF YearDay
<1>2. /\ 122 <= doy /\ doy < 153 => Fits(7, doy - 121)
      /\ 153 <= doy /\ doy < 184 => Fits(8, doy - 152)
      /\ 184 <= doy /\ doy < 214 => Fits(9, doy - 183)
      /\ 214 <= doy /\ doy < 245 => Fits(10, doy - 213)
  BY MonthLengths, MonthStarts DEF YearDay
<1>3. /\ 245 <= doy /\ doy < 275 => Fits(11, doy - 244)
      /\ 275 <= doy /\ doy < 306 => Fits(12, doy - 274)
      /\ 306 <= doy /\ doy < 337 => Fits(1, doy - 305)
      /\ 337 <= doy => Fits(2, doy - 336)
  BY MonthLengths, MonthStarts DEF YearDay
<1> HIDE DEF Fits
<1>4. \E m \in Int, mday \in Int : Fits(m, mday)
  BY <1>1, <1>2, <1>3
<1> QED  BY <1>4 DEF Fits

\* Every day is a day of the calendar.
LEMMA CivilOfEveryDay ==
  ASSUME NEW day \in Int
  PROVE  \E y, m, mday : IsCivil(y, m, mday) /\ DayOf(y, m, mday) = day
<1>1. PICK z \in Int : z = day + 719468
  OBVIOUS
<1>2. PICK yr, doy : DayAt(z, yr, doy)
  BY YearOfEveryDay
<1>3. /\ yr \in Int /\ doy \in Nat /\ doy <= 365 /\ (doy = 365 => Leap(yr + 1))
      /\ z = DaysOfYears(yr) + doy
  BY <1>2 DEF DayAt
<1>4. PICK m \in Int, mday \in Int :
           /\ 1 <= m /\ m <= 12 /\ 1 <= mday
           /\ m # 2 => \A y : mday <= DaysIn(y, m)
           /\ m = 2 => mday <= (IF doy = 365 THEN 29 ELSE 28)
           /\ doy = YearDay(m, mday)
  BY <1>3, MonthOfEveryDay
<1>5. PICK y \in Int : y = yr + NextYear(m)
  BY <1>3, <1>4 DEF NextYear
<1>6. MarchYear(y, m) = yr
  BY <1>3, <1>4, <1>5 DEF MarchYear, NextYear
<1>7. IsCivil(y, m, mday)
  <2>1. CASE m = 2
    <3>1. y = yr + 1
      BY <1>5, <2>1 DEF NextYear
    <3>2. mday <= DaysIn(y, m)
      BY <1>3, <1>4, <2>1, <3>1, MonthLengths
    <3> QED  BY <1>4, <3>2 DEF IsCivil
  <2>2. CASE m # 2
    BY <1>4, <2>2 DEF IsCivil
  <2> QED  BY <2>1, <2>2
<1>8. DayOf(y, m, mday) = DaysOfYears(yr) + doy - 719468
  <2>1. m \in 1..12
    BY <1>4
  <2> QED  BY <1>4, <1>6, <2>1, DayOfIs
<1>9. DaysOfYears(yr) \in Int
  BY <1>3 DEF DaysOfYears
<1>10. DayOf(y, m, mday) = day
  BY <1>1, <1>3, <1>8, <1>9
<1> QED  BY <1>7, <1>10

\* tm2str gives a date, whose day is the one given.
LEMMA DateOfDay ==
  ASSUME NEW day \in Int
  PROVE  IsDate(tm2str(day)) /\ str2time(tm2str(day)) = day
<1>1. PICK y, m, mday : IsCivil(y, m, mday) /\ DayOf(y, m, mday) = day
  BY CivilOfEveryDay
<1>2. tm2str(day) = y * 10000 + m * 100 + mday
  BY <1>1, CivilNumber
<1> QED  BY <1>1, <1>2, CivilDate DEF str2time
-----------------------------------------------------------------------------
CalendarInv == IsDate(date) /\ FirstDate <= date /\ date <= FinalDate

\* nextDate gives the date whose day is offset days on.
LEMMA NextDateIs ==
  ASSUME NEW d, IsDate(d), NEW offset \in Int
  PROVE  /\ IsDate(nextDate(d, offset))
         /\ str2time(nextDate(d, offset)) = str2time(d) + offset
         /\ nextDate(d, offset) = tm2str(str2time(d) + offset)
<1>1. PICK day \in Int : day = str2time(d) /\ tm2str(day) = d
  BY DayOfDate
<1>2. CASE offset = 0
  BY <1>1, <1>2 DEF nextDate
<1>3. CASE offset # 0
  <2>1. nextDate(d, offset) = tm2str(day + offset)
    BY <1>1, <1>3 DEF nextDate
  <2> QED  BY <1>1, <2>1, DateOfDay
<1> QED  BY <1>2, <1>3

\* A date is told by its day.
LEMMA SameDay ==
  ASSUME NEW d, NEW e, IsDate(d), IsDate(e), str2time(d) = str2time(e)
  PROVE  d = e
BY DayOfDate

\* A day on by days is the next by digits, and prevDate goes back.
LEMMA NextIsSuccessor ==
  ASSUME NEW d, IsDate(d)
  PROVE  nextDate(d, 1) = Successor(d) /\ prevDate(nextDate(d, 1), 1) = d
<1>1. nextDate(d, 1) = Successor(d)
  BY SuccessorIs, NextDateIs, SameDay
<1>2. str2time(Successor(d)) + -1 = str2time(d)
  BY SuccessorIs, DayOfDate
<1>3. prevDate(Successor(d), 1) = nextDate(Successor(d), -1)
  BY DEF prevDate
<1>4. IsDate(nextDate(Successor(d), -1)) /\ str2time(nextDate(Successor(d), -1)) = str2time(Successor(d)) + -1
  BY SuccessorIs, NextDateIs
<1> QED  BY <1>1, <1>2, <1>3, <1>4, SameDay

MonthEnd(d) == Year(d) * 10000 + Month(d) * 100 + DaysIn(Year(d), Month(d))
NextFirst(d) ==
  IF Month(d) = 12 THEN (Year(d) + 1) * 10000 + 101
  ELSE Year(d) * 10000 + (Month(d) + 1) * 100 + 1

\* The last date of the month is before the first of the next.
LEMMA MonthEndIs ==
  ASSUME NEW d, IsDate(d)
  PROVE  /\ IsDate(MonthEnd(d)) /\ Year(MonthEnd(d)) = Year(d)
         /\ Month(MonthEnd(d)) = Month(d)
         /\ d <= MonthEnd(d)
         /\ Successor(MonthEnd(d)) = NextFirst(d)
<1>1. PICK y, m, mday :
        /\ y = Year(d) /\ m = Month(d) /\ mday = MDay(d)
        /\ IsCivil(y, m, mday)
  BY DateParts
<1>2. /\ y \in Int /\ m \in Int /\ mday \in Int /\ mday <= DaysIn(y, m) /\ 1 <= m /\ m <= 12
      /\ DaysIn(y, m) \in Int
  BY <1>1, MonthLengths DEF IsCivil
<1>3. IsCivil(y, m, DaysIn(y, m))
  BY <1>1, MonthLengths DEF IsCivil
<1>4. PICK e : e = y * 10000 + m * 100 + DaysIn(y, m)
  OBVIOUS
<1>5. /\ e = MonthEnd(d)
      /\ IsDate(e) /\ Year(e) = y /\ Month(e) = m /\ MDay(e) = DaysIn(y, m)
  BY <1>1, <1>3, <1>4, CivilDate DEF MonthEnd
<1>6. d <= e
  BY <1>1, <1>2, <1>4, OfDigits, DateParts
<1>7. Successor(e) = NextFirst(d)
  <2>1. e \in Int /\ e \div 100 = y * 100 + m
    BY <1>5, OfDigits, DateParts
  <2>2. Successor(e) = IF m < 12 THEN (y * 100 + m + 1) * 100 + 1 ELSE (y + 1) * 10000 + 101
    BY <1>2, <1>5, <2>1 DEF Successor
  <2> QED  BY <1>1, <1>2, <2>2 DEF NextFirst
<1> QED  BY <1>1, <1>5, <1>6, <1>7

\* lastDate of a month is its last date.
LEMMA LastOfMonth ==
  ASSUME NEW d, IsDate(d)
  PROVE  lastDate(d, "M") = MonthEnd(d)
<1>1. lastDate(d, "M") = prevDate(NextFirst(d), 1)
  BY DEF lastDate, NextFirst
<1>2. prevDate(Successor(MonthEnd(d)), 1) = MonthEnd(d)
  BY MonthEndIs, NextIsSuccessor
<1> QED  BY <1>1, <1>2, MonthEndIs

\* nextMonth and prevMonth lead from a month to the next one and back.
LEMMA MonthsFollow ==
  ASSUME NEW d, IsDate(d), Year(d) >= 1970, d < 99991201
  PROVE  /\ nextMonth(d \div 100) = NextFirst(d) \div 100
         /\ prevMonth(NextFirst(d) \div 100) = d \div 100
<1>1. /\ d \in Int /\ Year(d) \in Int /\ Month(d) \in Int
      /\ 1 <= Month(d) /\ Month(d) <= 12 /\ 1 <= MDay(d) /\ MDay(d) \in Int
      /\ d = Year(d) * 10000 + Month(d) * 100 + MDay(d)
      /\ d \div 100 = Year(d) * 100 + Month(d)
  BY OfDigits, DateParts DEF IsCivil
<1>2. PICK y \in Int, m \in Int : y = Year(d) /\ m = Month(d)
  BY <1>1
<1>3. /\ 1 <= m /\ m <= 12 /\ 1970 <= y /\ y <= 9999 /\ (m = 12 => y < 9999)
      /\ d \div 100 = y * 100 + m
  BY <1>1, <1>2
<1>4. CASE m = 12
  <2>1. NextFirst(d) \div 100 = (y + 1) * 100 + 1
    BY <1>2, <1>4 DEF NextFirst
  <2>2. nextMonth(y * 100 + 12) = (y + 1) * 100 + 1
    BY <1>3, <1>4 DEF nextMonth, InRange
  <2>3. prevMonth((y + 1) * 100 + 1) = y * 100 + 12
    BY <1>3, <1>4 DEF prevMonth, InRange
  <2> QED  BY <1>3, <1>4, <2>1, <2>2, <2>3
<1>5. CASE m < 12
  <2>1. NextFirst(d) \div 100 = y * 100 + (m + 1)
    BY <1>2, <1>3, <1>5 DEF NextFirst
  <2>2. nextMonth(y * 100 + m) = y * 100 + (m + 1)
    BY <1>3, <1>5 DEF nextMonth, InRange
  <2>3. prevMonth(y * 100 + (m + 1)) = y * 100 + m
    BY <1>3, <1>5 DEF prevMonth, InRange
  <2> QED  BY <1>3, <2>1, <2>2, <2>3
<1> QED  BY <1>3, <1>4, <1>5

\* The walk of Calendar meets dates only, within its bounds.
THEOREM CalendarInvHolds == CalendarSpec => []CalendarInv
<1>1. CalendarInit => CalendarInv
  BY CalendarAssumption, DateParts DEF CalendarInit, CalendarInv
<1>2. CalendarInv /\ [CalendarNext]_date => CalendarInv'
  <2>1. ASSUME CalendarInv, NEW offset \in Offsets, Walk(offset)
        PROVE  CalendarInv'
    BY <2>1, CalendarAssumption, NextDateIs DEF CalendarInv, Walk
  <2> QED  BY <2>1 DEF CalendarNext, CalendarInv
<1> QED  BY <1>1, <1>2, PTL DEF CalendarSpec

\* On the walk the years are those that nextMonth keeps.
LEMMA InvYears ==
  ASSUME CalendarInv
  PROVE  IsDate(date) /\ Year(date) >= 1970 /\ date < 99991201
<1>1. /\ IsDate(date) /\ date \in Int /\ FirstDate \in Int
      /\ FirstDate <= date /\ date <= FinalDate /\ FinalDate < 99991201
      /\ FinalDate \in Int /\ Year(FirstDate) >= 1970
  BY CalendarAssumption, DateParts DEF CalendarInv
<1>2. Year(date) >= Year(FirstDate)
  BY <1>1 DEF Year
<1> QED  BY <1>1, <1>2 DEF Year

\* common.h:749-764: counting by days and by digits agree over every end of a
\* month, of a year and of a February, for every date of a walk.
THEOREM DaysFollowHolds == CalendarSpec => []DaysFollow
<1>1. CalendarInv => DaysFollow
  <2> SUFFICES ASSUME CalendarInv  PROVE DaysFollow
    OBVIOUS
  <2>1. IsDate(date) /\ Year(date) >= 1970 /\ date < 99991201
    BY InvYears
  <2>2. Successor(lastDate(date, "M")) = NextFirst(date)
    BY <2>1, LastOfMonth, MonthEndIs
  <2> QED  BY <2>1, <2>2, NextIsSuccessor, MonthsFollow DEF DaysFollow
<1> QED  BY <1>1, CalendarInvHolds, PTL
-----------------------------------------------------------------------------
\* last is the last date of the period p of d.
EndsPeriod(d, p, last) ==
  /\ d <= last
  /\ TruePeriod(last, p) = TruePeriod(d, p)
  /\ TruePeriod(Successor(last), p) # TruePeriod(d, p)

\* The parts of a date, as numbers.
LEMMA DateNumbers ==
  ASSUME NEW d, IsDate(d)
  PROVE  \E y \in Int, m \in Int, mday \in Int :
           /\ y = Year(d) /\ m = Month(d) /\ mday = MDay(d)
           /\ d \in Int /\ d = y * 10000 + m * 100 + mday
           /\ d \div 100 = y * 100 + m
           /\ 1 <= m /\ m <= 12 /\ 1 <= mday /\ mday <= DaysIn(y, m) /\ mday <= 31
           /\ IsCivil(y, m, mday)
<1>1. IsCivil(Year(d), Month(d), MDay(d)) /\ d \in Int
  BY DateParts
<1>2. /\ d = Year(d) * 10000 + Month(d) * 100 + MDay(d)
      /\ Year(d) \in Int /\ Month(d) \in Int /\ MDay(d) \in Int
      /\ d \div 100 = Year(d) * 100 + Month(d)
  BY <1>1, OfDigits
<1>3. /\ 1 <= Month(d) /\ Month(d) <= 12 /\ 1 <= MDay(d)
      /\ MDay(d) <= DaysIn(Year(d), Month(d)) /\ MDay(d) <= 31
  BY <1>1, <1>2, MonthLengths DEF IsCivil
<1> QED  BY <1>1, <1>2, <1>3

\* The next date is a larger number.
LEMMA NextIsLater ==
  ASSUME NEW d, IsDate(d)
  PROVE  nextDate(d, 1) \in Int /\ d < nextDate(d, 1)
<1>1. PICK y \in Int, m \in Int, mday \in Int :
        /\ y = Year(d) /\ m = Month(d) /\ mday = MDay(d)
        /\ d \in Int /\ d = y * 10000 + m * 100 + mday
        /\ d \div 100 = y * 100 + m
        /\ m <= 12 /\ mday <= DaysIn(y, m)
  BY DateNumbers
<1>2. DaysIn(y, m) \in Int /\ DaysIn(y, m) <= 31
  BY MonthLengths
<1>3. d < Successor(d) /\ Successor(d) \in Int
  BY <1>1, <1>2 DEF Successor
<1> QED  BY <1>3, NextIsSuccessor

\* A date some days later is not a smaller number.
LEMMA SeveralDays ==
  ASSUME NEW d, IsDate(d), NEW k \in Nat, k <= 6
  PROVE  d <= nextDate(d, k)
<1> DEFINE at(n) == nextDate(d, n)
<1>0. at(0) = d /\ d \in Int
  BY DateParts DEF nextDate
<1>1. ASSUME NEW n \in Nat
      PROVE  at(n) \in Int /\ at(n + 1) \in Int /\ at(n) < at(n + 1)
  <2>1. IsDate(at(n)) /\ str2time(at(n)) = str2time(d) + n
    BY NextDateIs
  <2>2. IsDate(at(n + 1)) /\ str2time(at(n + 1)) = str2time(d) + (n + 1)
    BY NextDateIs
  <2>3. IsDate(nextDate(at(n), 1)) /\ str2time(nextDate(at(n), 1)) = str2time(at(n)) + 1
    BY <2>1, NextDateIs
  <2>4. str2time(d) \in Int
    BY DayOfDate
  <2>5. at(n + 1) = nextDate(at(n), 1)
    BY <2>1, <2>2, <2>3, <2>4, SameDay
  <2> QED  BY <2>1, <2>5, NextIsLater, DateParts
<1> HIDE DEF at
<1>2. at(0) < at(0 + 1) /\ at(0 + 1) \in Int
  BY <1>1
<1>3. at(1) < at(1 + 1) /\ at(1 + 1) \in Int
  BY <1>1
<1>4. at(2) < at(2 + 1) /\ at(2 + 1) \in Int
  BY <1>1
<1>5. at(3) < at(3 + 1) /\ at(3 + 1) \in Int
  BY <1>1
<1>6. at(4) < at(4 + 1) /\ at(4 + 1) \in Int
  BY <1>1
<1>7. at(5) < at(5 + 1) /\ at(5 + 1) \in Int
  BY <1>1
<1>8. k = 0 \/ k = 1 \/ k = 2 \/ k = 3 \/ k = 4 \/ k = 5 \/ k = 6
  OBVIOUS
<1>9. d <= at(1) /\ d <= at(2) /\ d <= at(3)
  BY <1>0, <1>2, <1>3, <1>4
<1>10. d <= at(4) /\ d <= at(5) /\ d <= at(6)
  BY <1>0, <1>2, <1>3, <1>4, <1>5, <1>6, <1>7
<1> QED  BY <1>0, <1>8, <1>9, <1>10 DEF at

\* The week of a day, from Sunday.
WeekOf(day) == (day + 4) \div 7

\* The weekday of a day, and of the days to the end of its week and to Monday.
LEMMA WeekDays ==
  ASSUME NEW day \in Int
  PROVE  /\ Weekday(day) \in Int /\ 0 <= Weekday(day) /\ Weekday(day) <= 6
         /\ WeekOf(day + (6 - Weekday(day))) = WeekOf(day)
         /\ WeekOf(day + (6 - Weekday(day)) + 1) # WeekOf(day)
         /\ WeekOf(day - (Weekday(day) - 1)) = WeekOf(day)
         /\ Weekday(day - (Weekday(day) - 1)) = 1
BY DEF Weekday, WeekOf

\* lastDate of a week is its last day.
LEMMA WeekEnds ==
  ASSUME NEW d, IsDate(d)
  PROVE  EndsPeriod(d, "W", lastDate(d, "W"))
<1>1. PICK day \in Int : day = str2time(d)
  BY DayOfDate
<1>2. PICK k \in Nat : k = 6 - Weekday(day) /\ k <= 6
  BY WeekDays
<1>3. lastDate(d, "W") = nextDate(d, k)
  BY <1>1, <1>2 DEF lastDate
<1>4. PICK last : last = lastDate(d, "W") /\ IsDate(last) /\ str2time(last) = day + k
  BY <1>1, <1>3, NextDateIs
<1>5. str2time(Successor(last)) = day + k + 1
  BY <1>4, SuccessorIs
<1>6. \A e : TruePeriod(e, "W") = WeekOf(str2time(e))
  BY DEF TruePeriod, WeekOf
<1>7. WeekOf(day + k) = WeekOf(day) /\ WeekOf(day + k + 1) # WeekOf(day)
  BY <1>2, WeekDays
<1>8. d <= last
  BY <1>2, <1>3, <1>4, SeveralDays
<1>9. TruePeriod(last, "W") = WeekOf(day + k) /\ TruePeriod(d, "W") = WeekOf(day)
  BY <1>1, <1>4, <1>6
<1>10. TruePeriod(Successor(last), "W") = WeekOf(day + k + 1)
  BY <1>5, <1>6
<1> QED  BY <1>4, <1>7, <1>8, <1>9, <1>10 DEF EndsPeriod

\* The Monday that secondsToMonday gives is one, of the week of the day.
LEMMA MondayIs ==
  ASSUME NEW d, IsDate(d)
  PROVE  /\ Weekday(str2time(secondsToMonday(str2time(d)))) = 1
         /\ TruePeriod(secondsToMonday(str2time(d)), "W") = TruePeriod(d, "W")
<1>1. PICK day \in Int : day = str2time(d)
  BY DayOfDate
<1>2. day - (Weekday(day) - 1) \in Int
  BY WeekDays
<1>3. str2time(secondsToMonday(day)) = day - (Weekday(day) - 1)
  BY <1>2, DateOfDay DEF secondsToMonday
<1>4. \A e : TruePeriod(e, "W") = WeekOf(str2time(e))
  BY DEF TruePeriod, WeekOf
<1> QED  BY <1>1, <1>3, <1>4, WeekDays

\* The period of a month, with its year.
PeriodOf(y, m, p) ==
  IF p = "Y" THEN y
  ELSE y * 100 + (CASE p = "M" -> m [] p = "Q" -> (m - 1) \div 3 + 1
                    [] p = "S" -> (m - 1) \div 6 + 1)

LongPeriods == {"M", "Q", "S", "Y"}

\* The period of a date is that of its year and month, but for a week.
LEMMA TruePeriodIs ==
  ASSUME NEW d, NEW p \in LongPeriods
  PROVE  TruePeriod(d, p) = PeriodOf(Year(d), Month(d), p)
<1>1. CASE p = "M"
  BY <1>1 DEF TruePeriod, PeriodOf, dateTo, dateToMonth
<1>2. CASE p = "Q"
  BY <1>2 DEF TruePeriod, PeriodOf, dateTo, dateToSeason
<1>3. CASE p = "S"
  BY <1>3 DEF TruePeriod, PeriodOf, dateTo, dateToHalfYear
<1>4. CASE p = "Y"
  BY <1>4 DEF TruePeriod, PeriodOf
<1> QED  BY <1>1, <1>2, <1>3, <1>4 DEF LongPeriods

\* The last month of a period.
LastMonth(m, p) ==
  CASE p = "M" -> m [] p = "Q" -> ((m - 1) \div 3) * 3 + 3
    [] p = "S" -> 12 [] p = "Y" -> 12

\* l is the last month of m's period.
IsLastMonth(y, m, p, l) ==
  /\ l \in Int /\ m <= l /\ l <= 12
  /\ PeriodOf(y, l, p) = PeriodOf(y, m, p)
  /\ l < 12 => PeriodOf(y, l + 1, p) # PeriodOf(y, m, p)
  /\ l = 12 => PeriodOf(y + 1, 1, p) # PeriodOf(y, m, p)

\* The last month of a period is in it, and the month after is not.
LEMMA LastMonthIs ==
  ASSUME NEW y \in Int, NEW m \in Int, 1 <= m, m <= 12,
         NEW p \in LongPeriods, p = "S" => 6 < m
  PROVE  IsLastMonth(y, m, p, LastMonth(m, p))
<1>1. CASE p = "M"
  BY <1>1 DEF LastMonth, PeriodOf, IsLastMonth
<1>2. CASE p = "Q"
  BY <1>2 DEF LastMonth, PeriodOf, IsLastMonth
<1>3. CASE p = "S"
  BY <1>3 DEF LastMonth, PeriodOf, IsLastMonth
<1>4. CASE p = "Y"
  BY <1>4 DEF LastMonth, PeriodOf, IsLastMonth
<1> QED  BY <1>1, <1>2, <1>3, <1>4 DEF LongPeriods

\* lastDate is the last date of that month.
LEMMA LastDateIs ==
  ASSUME NEW d, IsDate(d), NEW p \in LongPeriods,
         p = "S" => 6 < Month(d)
  PROVE  lastDate(d, p)
           = Year(d) * 10000 + LastMonth(Month(d), p) * 100
               + DaysIn(Year(d), LastMonth(Month(d), p))
<1>1. PICK y \in Int, m \in Int, mday \in Int :
        /\ y = Year(d) /\ m = Month(d)
        /\ y * 10000 + m * 100 + mday = d
        /\ 1 <= m /\ m <= 12 /\ 1 <= mday /\ mday <= DaysIn(y, m) /\ mday <= 31
  BY DateNumbers
<1>y. Year(d) = y /\ Month(d) = m
  BY <1>1
<1>2. CASE p = "M"
  BY <1>2, LastOfMonth DEF LastMonth, MonthEnd
<1>3. CASE p = "Q"
  <2>2. PICK q \in Int : q = (m - 1) \div 3 /\ 0 <= q /\ q <= 3
    BY <1>1
  <2>0. lastDate(d, p) = y * 10000 + <<331, 630, 930, 1231>>[q + 1]
    <3>1. lastDate(d, p) = y * 10000 + <<331, 630, 930, 1231>>[(m - 1) \div 3 + 1]
      BY <1>y, <1>3 DEF lastDate
    <3> QED  BY <2>2, <3>1
  <2>1. LastMonth(m, p) = q * 3 + 3
    BY <1>3, <2>2 DEF LastMonth
  <2>3. q = 0 \/ q = 1 \/ q = 2 \/ q = 3
    BY <2>2
  <2>4. DaysIn(y, 3) = 31 /\ DaysIn(y, 6) = 30 /\ DaysIn(y, 9) = 30 /\ DaysIn(y, 12) = 31
    BY MonthLengths
  <2>5. CASE q = 0
    <3>1. lastDate(d, p) = y * 10000 + 331
      BY <2>0, <2>5
    <3>2. LastMonth(m, p) = 3
      BY <2>1, <2>5
    <3> QED  BY <1>1, <2>4, <3>1, <3>2
  <2>6. CASE q = 1
    <3>1. lastDate(d, p) = y * 10000 + 630
      BY <2>0, <2>6
    <3>2. LastMonth(m, p) = 6
      BY <2>1, <2>6
    <3> QED  BY <1>1, <2>4, <3>1, <3>2
  <2>7. CASE q = 2
    <3>1. lastDate(d, p) = y * 10000 + 930
      BY <2>0, <2>7
    <3>2. LastMonth(m, p) = 9
      BY <2>1, <2>7
    <3> QED  BY <1>1, <2>4, <3>1, <3>2
  <2>8. CASE q = 3
    <3>1. lastDate(d, p) = y * 10000 + 1231
      BY <2>0, <2>8
    <3>2. LastMonth(m, p) = 12
      BY <2>1, <2>8
    <3> QED  BY <1>1, <2>4, <3>1, <3>2
  <2> QED  BY <2>3, <2>5, <2>6, <2>7, <2>8
<1>4. CASE p = "S"
  <2>1. lastDate(d, p) = y * 10000 + (IF d > y * 10000 + 631 THEN 1231 ELSE 631)
    BY <1>1, <1>4 DEF lastDate
  <2>2. LastMonth(m, p) = 12 /\ DaysIn(y, 12) = 31
    BY <1>4, MonthLengths DEF LastMonth
  <2> QED  BY <1>1, <1>4, <2>1, <2>2
<1>5. CASE p = "Y"
  <2>1. lastDate(d, p) = y * 10000 + 1231
    BY <1>1, <1>5 DEF lastDate
  <2>2. LastMonth(m, p) = 12 /\ DaysIn(y, 12) = 31
    BY <1>5, MonthLengths DEF LastMonth
  <2> QED  BY <1>1, <2>1, <2>2
<1> QED  BY <1>2, <1>3, <1>4, <1>5 DEF LongPeriods

\* lastDate is the end of every period but the first half of a year.
LEMMA PeriodEnds ==
  ASSUME NEW d, IsDate(d), NEW p \in LongPeriods,
         p = "S" => 6 < Month(d)
  PROVE  EndsPeriod(d, p, lastDate(d, p))
<1>1. PICK y \in Int, m \in Int, mday \in Int :
        /\ y = Year(d) /\ m = Month(d)
        /\ y * 10000 + m * 100 + mday = d
        /\ 1 <= m /\ m <= 12 /\ 1 <= mday /\ mday <= DaysIn(y, m) /\ mday <= 31
  BY DateNumbers
<1>0. /\ p = "S" => 6 < m
      /\ 1 <= m /\ m <= 12 /\ 1 <= mday /\ mday <= DaysIn(y, m) /\ mday <= 31
  BY <1>1
<1>d. y * 10000 + m * 100 + mday = d
  BY <1>1
<1>y. Year(d) = y /\ Month(d) = m
  BY <1>1
<1>2. PICK l : l = LastMonth(m, p) /\ IsLastMonth(y, m, p, l)
  BY <1>0, LastMonthIs
<1>3. /\ l \in Int /\ m <= l /\ l <= 12
      /\ PeriodOf(y, l, p) = PeriodOf(y, m, p)
      /\ l < 12 => PeriodOf(y, l + 1, p) # PeriodOf(y, m, p)
      /\ l = 12 => PeriodOf(y + 1, 1, p) # PeriodOf(y, m, p)
  BY <1>2 DEF IsLastMonth
<1>4. PICK n \in Int : n = DaysIn(y, l) /\ 28 <= n /\ n <= 31
  BY MonthLengths
<1>5. IsCivil(y, l, n)
  BY <1>0, <1>3, <1>4 DEF IsCivil
<1>6. PICK last : last = y * 10000 + l * 100 + n
  OBVIOUS
<1>7. /\ last = lastDate(d, p)
      /\ IsDate(last) /\ Year(last) = y /\ Month(last) = l /\ MDay(last) = n
  <2>1. lastDate(d, p) = y * 10000 + l * 100 + n
    BY <1>y, <1>2, <1>4, LastDateIs
  <2> QED  BY <1>5, <1>6, <2>1, CivilDate
<1>8. d <= last
  <2>1. m = l => mday <= n
    BY <1>0, <1>4
  <2> QED  BY <1>0, <1>d, <1>3, <1>4, <1>6, <2>1
<1>9. TruePeriod(last, p) = TruePeriod(d, p)
  BY <1>y, <1>3, <1>7, TruePeriodIs
<1>10. last = MonthEnd(last)
  BY <1>4, <1>6, <1>7 DEF MonthEnd
<1>11. PICK next : next = Successor(last) /\ next = NextFirst(last)
  BY <1>7, <1>10, MonthEndIs
<1>12. CASE l < 12
  <2>1. IsCivil(y, l + 1, 1)
    BY <1>3, <1>0, <1>12, MonthLengths DEF IsCivil
  <2>2. next = y * 10000 + (l + 1) * 100 + 1
    BY <1>7, <1>11, <1>12 DEF NextFirst
  <2>3. Year(next) = y /\ Month(next) = l + 1
    BY <2>1, <2>2, CivilDate
  <2> QED  BY <1>y, <1>3, <1>7, <1>8, <1>9, <1>11, <1>12, <2>3, TruePeriodIs DEF EndsPeriod
<1>13. CASE l = 12
  <2>1. IsCivil(y + 1, 1, 1)
    BY MonthLengths DEF IsCivil
  <2>2. next = (y + 1) * 10000 + 1 * 100 + 1
    BY <1>7, <1>11, <1>13 DEF NextFirst
  <2>3. Year(next) = y + 1 /\ Month(next) = 1
    BY <2>1, <2>2, CivilDate
  <2> QED  BY <1>y, <1>3, <1>7, <1>8, <1>9, <1>11, <1>13, <2>3, TruePeriodIs DEF EndsPeriod
<1> QED  BY <1>3, <1>12, <1>13

\* common.h:830, common.h:772: lastDate is the last date of the period of its
\* argument, and a Monday the one of the week, for every date of a walk.
THEOREM PeriodsEndHolds == CalendarSpec => []PeriodsEnd
<1>1. CalendarInv => PeriodsEnd
  <2> SUFFICES ASSUME CalendarInv  PROVE PeriodsEnd
    OBVIOUS
  <2>1. IsDate(date) /\ Month(date) \in Int
    BY OfDigits, DateParts DEF CalendarInv
  <2>2. \A p \in {"W", "M", "Q", "S", "Y"} :
          (p = "S" /\ Month(date) <= 6) \/ EndsPeriod(date, p, lastDate(date, p))
    BY <2>1, PeriodEnds, WeekEnds DEF LongPeriods
  <2> QED  BY <2>1, <2>2, MondayIs DEF PeriodsEnd, EndsPeriod
<1> QED  BY <1>1, CalendarInvHolds, PTL
-----------------------------------------------------------------------------
\* A struct tm, whose fields may be out of range.
RawTm(t) ==
  t \in [tm_sec : Int, tm_min : Int, tm_hour : Int, tm_mday : Int,
         tm_mon : Int, tm_year : Int, tm_wday : Int]

\* A struct tm as mktime leaves it.
IsTm(t) ==
  /\ RawTm(t)
  /\ 0 <= t.tm_sec /\ t.tm_sec <= 59 /\ 0 <= t.tm_min /\ t.tm_min <= 59
  /\ 0 <= t.tm_hour /\ t.tm_hour <= 23
  /\ IsCivil(t.tm_year, t.tm_mon + 1, t.tm_mday)
  /\ t.tm_wday = Weekday(DayOfTm(t))

\* The seconds since 1970.
Instant(t) == DayOfTm(t) * 86400 + SecondOfTm(t)

\* An instant by its day, hour, minute and second.
Parts(x, day, h, m, s) ==
  /\ day \in Int /\ h \in Int /\ m \in Int /\ s \in Int
  /\ 0 <= h /\ h <= 23 /\ 0 <= m /\ m <= 59 /\ 0 <= s /\ s <= 59
  /\ x = day * 86400 + h * 3600 + m * 60 + s

\* An instant has one day, hour, minute and second.
LEMMA PartsOnce ==
  ASSUME NEW x, NEW d1, NEW h1, NEW m1, NEW s1, Parts(x, d1, h1, m1, s1),
         NEW d2, NEW h2, NEW m2, NEW s2, Parts(x, d2, h2, m2, s2)
  PROVE  d1 = d2 /\ h1 = h2 /\ m1 = m2 /\ s1 = s2
BY DEF Parts

\* Days past the end of a month are counted on.
LEMMA DayOfShift ==
  ASSUME NEW y \in Int, NEW m \in Int, NEW a \in Int, NEW k \in Int
  PROVE  DayOf(y, m, a + k) = DayOf(y, m, a) + k
BY DEF DayOf

\* The day, the second of it and the instant of a struct tm are numbers.
LEMMA InstantInt ==
  ASSUME NEW t, RawTm(t)
  PROVE  DayOfTm(t) \in Int /\ SecondOfTm(t) \in Int /\ Instant(t) \in Int
<1>1. DayOfTm(t) \in Int
  BY DayOfInt DEF RawTm, DayOfTm
<1>2. SecondOfTm(t) \in Int
  BY DEF RawTm, SecondOfTm
<1> QED  BY <1>1, <1>2 DEF Instant

\* The fields of a normal struct tm are the parts of its instant.
LEMMA InstantParts ==
  ASSUME NEW t, IsTm(t)
  PROVE  Parts(Instant(t), DayOfTm(t), t.tm_hour, t.tm_min, t.tm_sec)
<1>1. DayOfTm(t) \in Int
  BY InstantInt DEF IsTm
<1>2. RawTm(t) => /\ t.tm_hour \in Int /\ t.tm_min \in Int /\ t.tm_sec \in Int
  BY DEF RawTm
<1> QED  BY <1>1, <1>2 DEF IsTm, Parts, Instant, SecondOfTm

\* CivilOf gives a day of the calendar, the one asked for.
LEMMA CivilOfIs ==
  ASSUME NEW day \in Int
  PROVE  /\ IsCivil(CivilOf(day).year, CivilOf(day).month, CivilOf(day).mday)
         /\ DayOf(CivilOf(day).year, CivilOf(day).month, CivilOf(day).mday) = day
BY CivilOfEveryDay, CivilBack

\* What mktime carries from the seconds to the minutes, or to the hours.
LEMMA By60 ==
  ASSUME NEW a \in Int
  PROVE  \E q \in Int, r \in Int :
           /\ q = a \div 60 /\ r = a % 60 /\ a = q * 60 + r /\ 0 <= r /\ r <= 59
<1>1. /\ a \div 60 \in Int /\ a % 60 \in Int /\ a = (a \div 60) * 60 + (a % 60)
      /\ 0 <= a % 60 /\ a % 60 <= 59
  OBVIOUS
<1> QED  BY <1>1

\* What mktime carries from the hours to the days.
LEMMA By24 ==
  ASSUME NEW a \in Int
  PROVE  \E q \in Int, r \in Int :
           /\ q = a \div 24 /\ r = a % 24 /\ a = q * 24 + r /\ 0 <= r /\ r <= 23
<1>1. /\ a \div 24 \in Int /\ a % 24 \in Int /\ a = (a \div 24) * 24 + (a % 24)
      /\ 0 <= a % 24 /\ a % 24 <= 23
  OBVIOUS
<1> QED  BY <1>1

\* mktime keeps the instant.
LEMMA NormalIs ==
  ASSUME NEW t, RawTm(t), 0 <= t.tm_mon, t.tm_mon <= 11
  PROVE  IsTm(Normal(t)) /\ Instant(Normal(t)) = Instant(t)
<1>1. PICK sec \in Int, min \in Int, hour \in Int, mday \in Int, mon \in Int,
           year \in Int :
        /\ sec = t.tm_sec /\ min = t.tm_min /\ hour = t.tm_hour
        /\ mday = t.tm_mday /\ mon = t.tm_mon /\ year = t.tm_year
  BY DEF RawTm
<1>2. PICK c1 \in Int, s1 \in Int :
        /\ c1 = sec \div 60 /\ s1 = sec % 60 /\ sec = c1 * 60 + s1
        /\ 0 <= s1 /\ s1 <= 59
  BY By60
<1>17. PICK c2 \in Int, m1 \in Int :
        /\ c2 = (min + c1) \div 60 /\ m1 = (min + c1) % 60
        /\ min + c1 = c2 * 60 + m1 /\ 0 <= m1 /\ m1 <= 59
  <2>1. min + c1 \in Int
    OBVIOUS
  <2> QED  BY <2>1, By60
<1>13. PICK c3 \in Int, h1 \in Int :
        /\ c3 = (hour + c2) \div 24 /\ h1 = (hour + c2) % 24
        /\ hour + c2 = c3 * 24 + h1 /\ 0 <= h1 /\ h1 <= 23
  <2>1. hour + c2 \in Int
    OBVIOUS
  <2> QED  BY <2>1, By24
<1>3. mon \div 12 = 0 /\ mon % 12 = mon
  BY <1>1
<1>5. PICK d0 \in Int : d0 = DayOf(year, mon + 1, mday)
  <2>1. mon + 1 \in Int
    OBVIOUS
  <2> QED  BY <2>1, DayOfInt
<1>4. PICK day \in Int : day = DayOf(year, mon + 1, mday + c3) /\ day = d0 + c3
  <2>1. mon + 1 \in Int
    OBVIOUS
  <2>2. DayOf(year, mon + 1, mday + c3) = DayOf(year, mon + 1, mday) + c3
    BY <2>1, DayOfShift
  <2> QED  BY <1>5, <2>2
<1>6. PICK civil : civil = CivilOf(day)
  OBVIOUS
<1>7. /\ IsCivil(civil.year, civil.month, civil.mday)
      /\ DayOf(civil.year, civil.month, civil.mday) = day
  BY <1>6, CivilOfIs
<1>8. /\ civil.year \in Int /\ civil.month \in Int /\ civil.mday \in Int
      /\ civil.month - 1 \in Int /\ (civil.month - 1) + 1 = civil.month
  BY <1>7 DEF IsCivil
<1>9. Normal(t) =
        [tm_sec |-> s1, tm_min |-> m1, tm_hour |-> h1,
         tm_mday |-> civil.mday, tm_mon |-> civil.month - 1,
         tm_year |-> civil.year, tm_wday |-> Weekday(day)]
  <2>1. year + mon \div 12 = year
    BY <1>3
  <2> DEFINE mn == t.tm_min + t.tm_sec \div 60
             hr == t.tm_hour + mn \div 60
  <2>2. mn = min + c1 /\ t.tm_sec % 60 = s1
    BY <1>1, <1>2
  <2>3. hr = hour + c2 /\ mn % 60 = m1
    BY <1>1, <1>17, <2>2
  <2>4. hr \div 24 = c3 /\ hr % 24 = h1
    BY <1>13, <2>3
  <2>5. DayOf(t.tm_year + t.tm_mon \div 12, (t.tm_mon % 12) + 1, t.tm_mday + hr \div 24) = day
    BY <1>1, <1>3, <1>4, <2>1, <2>4
  <2>6. Normal(t) =
          LET d == DayOf(t.tm_year + t.tm_mon \div 12, (t.tm_mon % 12) + 1, t.tm_mday + hr \div 24)
          IN  [tm_sec |-> t.tm_sec % 60, tm_min |-> mn % 60, tm_hour |-> hr % 24,
               tm_mday |-> CivilOf(d).mday, tm_mon |-> CivilOf(d).month - 1,
               tm_year |-> CivilOf(d).year, tm_wday |-> Weekday(d)]
    BY DEF Normal
  <2> HIDE DEF mn, hr
  <2> QED  BY <1>6, <2>2, <2>3, <2>4, <2>5, <2>6
<1> DEFINE r == Normal(t)
<1>10. /\ r.tm_sec = s1 /\ r.tm_min = m1 /\ r.tm_hour = h1
       /\ r.tm_mday = civil.mday /\ r.tm_mon = civil.month - 1
       /\ r.tm_year = civil.year /\ r.tm_wday = Weekday(day)
  BY <1>9
<1>11. RawTm(r)
  <2>1. Weekday(day) \in Int
    BY WeekDays
  <2> QED  BY <1>8, <1>9, <2>1 DEF RawTm
<1>12. DayOfTm(r) = day
  BY <1>7, <1>8, <1>10 DEF DayOfTm
<1>14. IsTm(r)
  BY <1>2, <1>17, <1>13, <1>7, <1>8, <1>10, <1>11, <1>12 DEF IsTm
<1>15. Instant(t) = d0 * 86400 + (hour * 3600 + min * 60 + sec)
  BY <1>1, <1>5 DEF Instant, DayOfTm, SecondOfTm
<1> HIDE DEF r
<1>16. Instant(r) = day * 86400 + (h1 * 3600 + m1 * 60 + s1)
  BY <1>10, <1>12 DEF Instant, SecondOfTm
<1>18. Instant(r) = Instant(t)
  <2>1. day = d0 + c3 /\ sec = c1 * 60 + s1 /\ min + c1 = c2 * 60 + m1 /\ hour + c2 = c3 * 24 + h1
    BY <1>2, <1>17, <1>13, <1>4
  <2> QED  BY <1>15, <1>16, <2>1
<1> QED  BY <1>14, <1>18 DEF r

\* A normal struct tm is told by its instant.
LEMMA SameInstant ==
  ASSUME NEW s, NEW t, IsTm(s), IsTm(t), Instant(s) = Instant(t)
  PROVE  s = t
<1>1. /\ DayOfTm(s) = DayOfTm(t) /\ s.tm_hour = t.tm_hour
      /\ s.tm_min = t.tm_min /\ s.tm_sec = t.tm_sec
  BY InstantParts, PartsOnce
<1>2. \A u : IsTm(u) => /\ CivilOf(DayOfTm(u)).year = u.tm_year
                        /\ CivilOf(DayOfTm(u)).month = u.tm_mon + 1
                        /\ CivilOf(DayOfTm(u)).mday = u.tm_mday
  BY CivilBack DEF IsTm, DayOfTm
<1>3. s.tm_year = t.tm_year /\ s.tm_mon + 1 = t.tm_mon + 1 /\ s.tm_mday = t.tm_mday
  BY <1>1, <1>2
<1>4. s.tm_mon = t.tm_mon
  BY <1>3 DEF IsTm, RawTm
<1>5. s.tm_wday = t.tm_wday
  BY <1>1 DEF IsTm
<1>6. RawTm(s) /\ RawTm(t)
  BY DEF IsTm
<1> QED  BY <1>1, <1>3, <1>4, <1>5, <1>6 DEF RawTm
-----------------------------------------------------------------------------
\* A later year begins at least a year's days later.
LEMMA YearsGrow ==
  ASSUME NEW a \in Int, NEW b \in Int, a < b
  PROVE  /\ DaysOfYears(a) \in Int /\ DaysOfYears(b) \in Int
         /\ DaysOfYears(a) + 365 <= DaysOfYears(b)
         /\ Leap(a + 1) => DaysOfYears(a) + 366 <= DaysOfYears(b)
<1>1. PICK a4 \in Int, a100 \in Int, a400 \in Int, b4 \in Int, b100 \in Int, b400 \in Int :
        /\ a4 = a \div 4 /\ a100 = a \div 100 /\ a400 = a \div 400
        /\ b4 = b \div 4 /\ b100 = b \div 100 /\ b400 = b \div 400
  OBVIOUS
<1>2. /\ a100 = a4 \div 25 /\ b100 = b4 \div 25 /\ a4 <= b4 /\ a400 <= b400
  BY <1>1
<1>3. a4 - a100 <= b4 - b100
  BY <1>2
<1>4. /\ DaysOfYears(a) = a * 365 + a4 - a100 + a400
      /\ DaysOfYears(b) = b * 365 + b4 - b100 + b400
  BY <1>1 DEF DaysOfYears
<1>5. ASSUME Leap(a + 1)  PROVE DaysOfYears(a) + 366 <= DaysOfYears(b)
  <2>1. DaysOfYears(a + 1) = DaysOfYears(a) + 366
    BY <1>5 DEF DaysOfYears, Leap
  <2>2. a + 1 = b \/ a + 1 < b
    OBVIOUS
  <2>3. CASE a + 1 = b
    BY <1>4, <2>1, <2>3
  <2>4. CASE a + 1 < b
    <3>1. PICK c \in Int, c4 \in Int, c100 \in Int, c400 \in Int :
            c = a + 1 /\ c4 = c \div 4 /\ c100 = c \div 100 /\ c400 = c \div 400
      OBVIOUS
    <3>2. c100 = c4 \div 25 /\ c4 <= b4 /\ c400 <= b400
      BY <1>1, <2>4, <3>1
    <3>3. c4 - c100 <= b4 - b100
      BY <1>2, <3>2
    <3>4. DaysOfYears(c) = c * 365 + c4 - c100 + c400
      BY <3>1 DEF DaysOfYears
    <3> QED  BY <1>4, <2>1, <2>4, <3>1, <3>2, <3>3, <3>4
  <2> QED  BY <2>2, <2>3, <2>4
<1> QED  BY <1>2, <1>3, <1>4, <1>5

\* The months from the year 0 on.
MonthNo(y, m) == y * 12 + m

\* Days are in the order of their months.
LEMMA MonthsInOrder ==
  ASSUME NEW y1, NEW m1, NEW d1, IsCivil(y1, m1, d1),
         NEW y2, NEW m2, NEW d2, IsCivil(y2, m2, d2),
         MonthNo(y1, m1) < MonthNo(y2, m2)
  PROVE  DayOf(y1, m1, d1) < DayOf(y2, m2, d2)
<1>1. /\ y1 \in Int /\ m1 \in Int /\ 1 <= m1 /\ m1 <= 12 /\ d1 \in Int /\ 1 <= d1
      /\ y2 \in Int /\ m2 \in Int /\ 1 <= m2 /\ m2 <= 12 /\ d2 \in Int /\ 1 <= d2
      /\ y1 * 12 + m1 < y2 * 12 + m2
  BY DEF IsCivil, MonthNo
<1>2. PICK doy1 : MonthDay(doy1, y1, m1, d1)
  <2>1. m1 \in 1..12 /\ d1 \in 1..DaysIn(y1, m1)
    BY <1>1, MonthLengths DEF IsCivil
  <2> QED  BY <1>1, <2>1, MonthsFit
<1>3. PICK doy2 : MonthDay(doy2, y2, m2, d2)
  <2>1. m2 \in 1..12 /\ d2 \in 1..DaysIn(y2, m2)
    BY <1>1, MonthLengths DEF IsCivil
  <2> QED  BY <1>1, <2>1, MonthsFit
<1>4. PICK yr1 \in Int, yr2 \in Int :
        yr1 = MarchYear(y1, m1) /\ yr2 = MarchYear(y2, m2)
  BY <1>1 DEF MarchYear
<1>5. DayOf(y1, m1, d1) = DaysOfYears(yr1) + doy1 - 719468
  <2>1. m1 \in 1..12
    BY <1>1
  <2> QED  BY <1>1, <1>2, <1>4, <2>1, DayOfIs DEF MonthDay
<1>6. DayOf(y2, m2, d2) = DaysOfYears(yr2) + doy2 - 719468
  <2>1. m2 \in 1..12
    BY <1>1
  <2> QED  BY <1>1, <1>3, <1>4, <2>1, DayOfIs DEF MonthDay
<1>7. /\ doy1 \in Nat /\ doy2 \in Nat /\ doy1 <= 365
      /\ doy1 = 365 => m1 = 2 /\ Leap(y1)
  BY <1>2, <1>3 DEF MonthDay
<1>8. CASE yr1 < yr2
  <2>1. doy1 = 365 => Leap(yr1 + 1)
    BY <1>1, <1>4, <1>7 DEF MarchYear
  <2> QED  BY <1>5, <1>6, <1>7, <1>8, <2>1, YearsGrow
<1>9. CASE ~(yr1 < yr2)
  <2>1. yr1 = yr2
    BY <1>1, <1>4, <1>9 DEF MarchYear
  <2>2. DaysOfYears(yr1) \in Int
    BY DEF DaysOfYears
  <2>3. d1 <= DaysIn(y1, m1)
    BY DEF IsCivil
  <2>4. (m1 <= 2 <=> m2 <= 2) \/ (2 < m1 /\ m2 <= 2)
    BY <1>1, <1>4, <2>1 DEF MarchYear
  <2>5. (m1 + 9) % 12 < (m2 + 9) % 12
    BY <1>1, <1>4, <2>1 DEF MarchYear
  <2>6. DaysBefore(m1) + d1 <= DaysBefore(m2)
    BY <1>1, <2>3, <2>5, MonthLengths DEF DaysBefore
  <2>7. doy1 = DaysBefore(m1) + d1 - 1 /\ doy2 = DaysBefore(m2) + d2 - 1
    BY <1>2, <1>3 DEF MonthDay, YearDay
  <2>8. DaysBefore(m1) \in Int /\ DaysBefore(m2) \in Int
    BY <1>1 DEF DaysBefore
  <2>9. doy1 < doy2
    BY <1>1, <2>6, <2>7, <2>8
  <2> QED  BY <1>5, <1>6, <1>7, <2>1, <2>2, <2>9
<1> QED  BY <1>4, <1>8, <1>9
-----------------------------------------------------------------------------
\* MinOf of a set of numbers is its least.
LEMMA MinOfIs ==
  ASSUME NEW S \in SUBSET Nat, S # {}
  PROVE  MinOf(S) \in S /\ \A y \in S : MinOf(S) <= y
BY NatLeast DEF MinOf

\* The values of a field of a cron expression.
FieldIs(S, lo, hi) ==
  S # {} /\ \A v \in S : v \in Nat /\ lo <= v /\ v <= hi

\* A struct tm whose fields below the day are in range.
ClockTm(t) ==
  /\ RawTm(t)
  /\ 0 <= t.tm_sec /\ t.tm_sec <= 59 /\ 0 <= t.tm_min /\ t.tm_min <= 59
  /\ 0 <= t.tm_hour /\ t.tm_hour <= 23
  /\ 0 <= t.tm_mon /\ t.tm_mon <= 11

\* The clock and the month of a normal struct tm are in range.
LEMMA TmIsClock ==
  ASSUME NEW t, IsTm(t)
  PROVE  ClockTm(t)
<1>1. 1 <= t.tm_mon + 1 /\ t.tm_mon + 1 <= 12
  BY DEF IsTm, IsCivil
<1>2. t.tm_mon \in Int
  BY DEF IsTm, RawTm
<1> QED  BY <1>1, <1>2 DEF IsTm, ClockTm

\* The fields of the clock stay as they are, and so does the day.
SameClock(s, t) ==
  s.tm_sec = t.tm_sec /\ s.tm_min = t.tm_min /\ s.tm_hour = t.tm_hour

\* mktime leaves a clock that is in range, and the day, as they are.
LEMMA NormalClock ==
  ASSUME NEW t, ClockTm(t)
  PROVE  /\ IsTm(Normal(t)) /\ SameClock(Normal(t), t)
         /\ DayOfTm(Normal(t)) = DayOfTm(t)
<1>1. IsTm(Normal(t)) /\ Instant(Normal(t)) = Instant(t)
  BY NormalIs DEF ClockTm
<1>2. Parts(Instant(t), DayOfTm(t), t.tm_hour, t.tm_min, t.tm_sec)
  <2>1. DayOfTm(t) \in Int
    BY InstantInt DEF ClockTm
  <2>2. RawTm(t) => /\ t.tm_hour \in Int /\ t.tm_min \in Int /\ t.tm_sec \in Int
    BY DEF RawTm
  <2> QED  BY <2>1, <2>2 DEF ClockTm, Parts, Instant, SecondOfTm
<1>3. Parts(Instant(t), DayOfTm(Normal(t)), Normal(t).tm_hour, Normal(t).tm_min, Normal(t).tm_sec)
  BY <1>1, InstantParts
<1> QED  BY <1>1, <1>2, <1>3, PartsOnce DEF SameClock

\* A struct tm of a day of the calendar keeps its date.
LEMMA NormalDate ==
  ASSUME NEW t, ClockTm(t), IsCivil(t.tm_year, t.tm_mon + 1, t.tm_mday)
  PROVE  /\ Normal(t).tm_year = t.tm_year /\ Normal(t).tm_mon = t.tm_mon
         /\ Normal(t).tm_mday = t.tm_mday
<1>1. IsTm(Normal(t)) /\ DayOfTm(Normal(t)) = DayOfTm(t)
  BY NormalClock
<1>2. \A u : IsCivil(u.tm_year, u.tm_mon + 1, u.tm_mday) =>
                        /\ CivilOf(DayOfTm(u)).year = u.tm_year
                        /\ CivilOf(DayOfTm(u)).month = u.tm_mon + 1
                        /\ CivilOf(DayOfTm(u)).mday = u.tm_mday
  BY CivilBack DEF DayOfTm
<1>3. /\ Normal(t).tm_year = t.tm_year /\ Normal(t).tm_mon + 1 = t.tm_mon + 1
      /\ Normal(t).tm_mday = t.tm_mday
  BY <1>1, <1>2 DEF IsTm
<1>4. Normal(t).tm_mon \in Int /\ t.tm_mon \in Int
  BY <1>1 DEF IsTm, ClockTm, RawTm
<1> QED  BY <1>3, <1>4

\* The fields that are searched.
Fields == {"tm_sec", "tm_min", "tm_hour", "tm_mday", "tm_mon"}

\* t before resetAllFields makes it normal.
Cleared(t, marked) ==
  [f \in DOMAIN t |-> IF f \notin marked THEN t[f]
                      ELSE IF f = "tm_mday" THEN 1 ELSE 0]

\* What resetField does to each field.
LEMMA ClearedIs ==
  ASSUME NEW t, ClockTm(t), NEW marked \in SUBSET Fields
  PROVE  LET u == Cleared(t, marked)
         IN  /\ ClockTm(u)
             /\ u.tm_sec = IF "tm_sec" \in marked THEN 0 ELSE t.tm_sec
             /\ u.tm_min = IF "tm_min" \in marked THEN 0 ELSE t.tm_min
             /\ u.tm_hour = IF "tm_hour" \in marked THEN 0 ELSE t.tm_hour
             /\ u.tm_mday = IF "tm_mday" \in marked THEN 1 ELSE t.tm_mday
             /\ u.tm_mon = IF "tm_mon" \in marked THEN 0 ELSE t.tm_mon
             /\ u.tm_year = t.tm_year
<1> DEFINE u == Cleared(t, marked)
<1>1. /\ u.tm_sec = IF "tm_sec" \in marked THEN 0 ELSE t.tm_sec
      /\ u.tm_min = IF "tm_min" \in marked THEN 0 ELSE t.tm_min
      /\ u.tm_hour = IF "tm_hour" \in marked THEN 0 ELSE t.tm_hour
      /\ u.tm_mday = IF "tm_mday" \in marked THEN 1 ELSE t.tm_mday
      /\ u.tm_mon = IF "tm_mon" \in marked THEN 0 ELSE t.tm_mon
      /\ u.tm_year = t.tm_year
  BY DEF Cleared, ClockTm, RawTm, Fields
<1>2. RawTm(u)
  BY DEF Cleared, ClockTm, RawTm, Fields
<1>3. ClockTm(u)
  BY <1>1, <1>2 DEF ClockTm
<1> QED  BY <1>1, <1>3

\* resetAllFields clears the fields and lets mktime make the rest of it.
LEMMA ResetIs ==
  ASSUME NEW t, NEW marked
  PROVE  resetAllFields(t, marked) = Normal(Cleared(t, marked))
BY DEF resetAllFields, Cleared

\* A struct tm with another value in one of the fields of the clock.
LEMMA FieldSet ==
  ASSUME NEW t, RawTm(t), NEW v \in Int, NEW field \in Fields \cup {"tm_year"}
  PROVE  LET u == [t EXCEPT ![field] = v]
         IN  /\ RawTm(u)
             /\ u.tm_sec = IF field = "tm_sec" THEN v ELSE t.tm_sec
             /\ u.tm_min = IF field = "tm_min" THEN v ELSE t.tm_min
             /\ u.tm_hour = IF field = "tm_hour" THEN v ELSE t.tm_hour
             /\ u.tm_mday = IF field = "tm_mday" THEN v ELSE t.tm_mday
             /\ u.tm_mon = IF field = "tm_mon" THEN v ELSE t.tm_mon
             /\ u.tm_year = IF field = "tm_year" THEN v ELSE t.tm_year
BY DEF RawTm, Fields

\* To add to a field is to set it to the sum.
LEMMA FieldAdd ==
  ASSUME NEW t, RawTm(t), NEW v \in Int, NEW field \in Fields \cup {"tm_year"}
  PROVE  /\ [t EXCEPT ![field] = @ + v] = [t EXCEPT ![field] = t[field] + v]
         /\ t[field] + v \in Int
BY DEF RawTm, Fields
-----------------------------------------------------------------------------
\* No value of S is left at v or after it.
Wraps(S, v) == {w \in S : w >= v} = {}
\* The value of S that a field with the value v moves to.
Following(S, v) ==
  MinOf(IF {w \in S : w >= v} # {} THEN {w \in S : w >= v} ELSE S)

\* The next value is the least one from v on or, where there is none, the least.
LEMMA FollowingIs ==
  ASSUME NEW S, NEW lo, NEW hi, FieldIs(S, lo, hi), NEW v \in Int, v \notin S
  PROVE  /\ Following(S, v) \in S /\ Following(S, v) \in Nat
         /\ Following(S, v) # v
         /\ ~Wraps(S, v) => /\ v < Following(S, v)
                            /\ \A w \in S : v <= w => Following(S, v) <= w
         /\ Wraps(S, v) => \A w \in S : w < v /\ Following(S, v) <= w
<1> DEFINE left == {w \in S : w >= v}
<1>1. S \in SUBSET Nat /\ S # {} /\ left \in SUBSET Nat
  BY DEF FieldIs
<1>2. CASE left = {}
  <2>1. Following(S, v) = MinOf(S) /\ Wraps(S, v)
    BY <1>2 DEF Following, Wraps
  <2>2. MinOf(S) \in S /\ \A y \in S : MinOf(S) <= y
    BY <1>1, MinOfIs
  <2>3. \A w \in S : w < v
    BY <1>1, <1>2
  <2> QED  BY <1>1, <2>1, <2>2, <2>3
<1>3. CASE left # {}
  <2>1. Following(S, v) = MinOf(left) /\ ~Wraps(S, v)
    BY <1>3 DEF Following, Wraps
  <2>2. MinOf(left) \in left /\ \A y \in left : MinOf(left) <= y
    BY <1>1, <1>3, MinOfIs
  <2> QED  BY <1>1, <2>1, <2>2
<1> QED  BY <1>2, <1>3

\* The struct tm in which field gets its next value.
Carried(S, t, field, next_field) ==
  IF Wraps(S, t[field])
  THEN resetAllFields(addToField(t, next_field, 1), {field}) ELSE t

\* findNext leaves a field that is in its set, and moves another one to the next
\* value, after a carry where there is none left.
LEMMA MovedIs ==
  ASSUME NEW S, NEW lo, NEW hi, FieldIs(S, lo, hi),
         NEW t, NEW field, NEW next_field, NEW marked, t[field] \in Int
  PROVE  /\ t[field] \in S => Moved(S, t, field, next_field, marked) = t
         /\ t[field] \notin S =>
              Moved(S, t, field, next_field, marked)
                = resetAllFields(setField(Carried(S, t, field, next_field), field,
                                          Following(S, t[field])), marked)
<1> DEFINE left == {v \in S : v >= t[field]}
<1>1. ASSUME t[field] \in S
      PROVE  Moved(S, t, field, next_field, marked) = t
  <2>1. left \in SUBSET Nat /\ t[field] \in left
    BY <1>1 DEF FieldIs
  <2>2. MinOf(left) \in left /\ MinOf(left) <= t[field]
    BY <2>1, MinOfIs
  <2>3. MinOf(left) = t[field]
    BY <2>1, <2>2
  <2> QED  BY <2>1, <2>3 DEF Moved
<1>2. ASSUME t[field] \notin S
      PROVE  Moved(S, t, field, next_field, marked)
                = resetAllFields(setField(Carried(S, t, field, next_field), field,
                                          Following(S, t[field])), marked)
  <2>1. Following(S, t[field]) # t[field]
    BY <1>2, FollowingIs
  <2> QED  BY <2>1 DEF Moved, Carried, Following, Wraps
<1> QED  BY <1>1, <1>2

\* A field of the clock that gets a value, and the cleared ones.
LEMMA Placed ==
  ASSUME NEW t, IsTm(t), NEW field \in {"tm_sec", "tm_min", "tm_hour"},
         NEW v \in Nat, v <= 59, field = "tm_hour" => v <= 23,
         NEW marked \in SUBSET {"tm_sec", "tm_min", "tm_hour"}
  PROVE  LET r == resetAllFields(setField(t, field, v), marked)
         IN  /\ IsTm(r) /\ DayOfTm(r) = DayOfTm(t)
             /\ r.tm_sec = IF "tm_sec" \in marked THEN 0
                           ELSE IF field = "tm_sec" THEN v ELSE t.tm_sec
             /\ r.tm_min = IF "tm_min" \in marked THEN 0
                           ELSE IF field = "tm_min" THEN v ELSE t.tm_min
             /\ r.tm_hour = IF "tm_hour" \in marked THEN 0
                            ELSE IF field = "tm_hour" THEN v ELSE t.tm_hour
<1> DEFINE s == [t EXCEPT ![field] = v]
           n == Normal(s)
           u == Cleared(n, marked)
           r == Normal(u)
<1>0. field \in Fields \cup {"tm_year"} /\ marked \in SUBSET Fields
  BY DEF Fields
<1>1. ClockTm(t)
  BY TmIsClock
<1>2. /\ ClockTm(s) /\ DayOfTm(s) = DayOfTm(t)
      /\ s.tm_sec = IF field = "tm_sec" THEN v ELSE t.tm_sec
      /\ s.tm_min = IF field = "tm_min" THEN v ELSE t.tm_min
      /\ s.tm_hour = IF field = "tm_hour" THEN v ELSE t.tm_hour
  <2>1. /\ RawTm(s)
        /\ s.tm_sec = IF field = "tm_sec" THEN v ELSE t.tm_sec
        /\ s.tm_min = IF field = "tm_min" THEN v ELSE t.tm_min
        /\ s.tm_hour = IF field = "tm_hour" THEN v ELSE t.tm_hour
        /\ s.tm_mday = t.tm_mday /\ s.tm_mon = t.tm_mon /\ s.tm_year = t.tm_year
    BY <1>0, <1>1, FieldSet DEF ClockTm
  <2> HIDE DEF s
  <2>2. ClockTm(s)
    BY <1>1, <2>1 DEF ClockTm
  <2> QED  BY <2>1, <2>2 DEF DayOfTm
<1> HIDE DEF s
<1>3. IsTm(n) /\ SameClock(n, s) /\ DayOfTm(n) = DayOfTm(s)
  BY <1>2, NormalClock
<1>4. ClockTm(n)
  BY <1>3, TmIsClock
<1> HIDE DEF n
<1>5. /\ ClockTm(u)
      /\ u.tm_sec = IF "tm_sec" \in marked THEN 0 ELSE n.tm_sec
      /\ u.tm_min = IF "tm_min" \in marked THEN 0 ELSE n.tm_min
      /\ u.tm_hour = IF "tm_hour" \in marked THEN 0 ELSE n.tm_hour
      /\ u.tm_mday = n.tm_mday /\ u.tm_mon = n.tm_mon /\ u.tm_year = n.tm_year
  BY <1>0, <1>4, ClearedIs
<1> HIDE DEF u
<1>6. IsTm(r) /\ SameClock(r, u) /\ DayOfTm(r) = DayOfTm(u)
  BY <1>5, NormalClock
<1>7. DayOfTm(u) = DayOfTm(n)
  BY <1>5 DEF DayOfTm
<1>8. resetAllFields(setField(t, field, v), marked) = r
  BY ResetIs DEF setField, r, u, n, s
<1> HIDE DEF r
<1> QED  BY <1>2, <1>3, <1>5, <1>6, <1>7, <1>8 DEF SameClock

\* A minute, an hour or a day later the parts below are the same.
LEMMA PartsAdd ==
  ASSUME NEW x, NEW d1, NEW h1, NEW m1, NEW s1, Parts(x, d1, h1, m1, s1),
         NEW y, NEW d2, NEW h2, NEW m2, NEW s2, Parts(y, d2, h2, m2, s2)
  PROVE  /\ y = x + 60 => s1 = s2
         /\ y = x + 3600 => s1 = s2 /\ m1 = m2
         /\ y = x + 86400 => s1 = s2 /\ m1 = m2 /\ h1 = h2 /\ d2 = d1 + 1
BY DEF Parts

\* The seconds in one of the field.
Unit(field) == CASE field = "tm_sec" -> 1 [] field = "tm_min" -> 60
                 [] field = "tm_hour" -> 3600
NextOf(field) == CASE field = "tm_sec" -> "tm_min" [] field = "tm_min" -> "tm_hour"
                 [] field = "tm_hour" -> "tm_mday"
Period(field) == CASE field = "tm_sec" -> 60 [] field = "tm_min" -> 3600
                 [] field = "tm_hour" -> 86400
\* The fields below.
Below(field) == CASE field = "tm_sec" -> {} [] field = "tm_min" -> {"tm_sec"}
                 [] field = "tm_hour" -> {"tm_sec", "tm_min"}
ClockFields == {"tm_sec", "tm_min", "tm_hour"}

\* One more of the field above a field of the clock.
LEMMA OneMore ==
  ASSUME NEW t, IsTm(t), NEW field \in ClockFields
  PROVE  LET u == addToField(t, NextOf(field), 1)
         IN  /\ IsTm(u) /\ Instant(u) = Instant(t) + Period(field)
             /\ u.tm_sec = t.tm_sec
             /\ field # "tm_sec" => u.tm_min = t.tm_min
             /\ field = "tm_hour" => u.tm_hour = t.tm_hour
<1> DEFINE nf == NextOf(field)
           s == [t EXCEPT ![nf] = t[nf] + 1]
           u == Normal(s)
<1>0. nf \in Fields \cup {"tm_year"} /\ nf \in {"tm_min", "tm_hour", "tm_mday"}
  BY DEF Fields, NextOf, ClockFields
<1>1. ClockTm(t)
  BY TmIsClock
<1>2. addToField(t, nf, 1) = u /\ t[nf] + 1 \in Int
  BY <1>0, <1>1, FieldAdd DEF addToField, ClockTm
<1>3. /\ RawTm(s)
      /\ s.tm_sec = t.tm_sec
      /\ s.tm_min = IF nf = "tm_min" THEN t[nf] + 1 ELSE t.tm_min
      /\ s.tm_hour = IF nf = "tm_hour" THEN t[nf] + 1 ELSE t.tm_hour
      /\ s.tm_mday = IF nf = "tm_mday" THEN t[nf] + 1 ELSE t.tm_mday
      /\ s.tm_mon = t.tm_mon /\ s.tm_year = t.tm_year
  <2>1. nf # "tm_sec" /\ nf # "tm_mon" /\ nf # "tm_year"
    BY <1>0
  <2> HIDE DEF nf
  <2> QED  BY <1>0, <1>1, <1>2, <2>1, FieldSet DEF ClockTm
<1> HIDE DEF s
<1>4. IsTm(u) /\ Instant(u) = Instant(s)
  <2>1. 0 <= s.tm_mon /\ s.tm_mon <= 11
    BY <1>1, <1>3 DEF ClockTm
  <2> QED  BY <1>3, <2>1, NormalIs
<1>5. Instant(s) = Instant(t) + Period(field)
  <2>1. /\ t.tm_sec \in Int /\ t.tm_min \in Int /\ t.tm_hour \in Int
        /\ t.tm_mday \in Int /\ t.tm_mon \in Int /\ t.tm_year \in Int
    BY <1>1 DEF ClockTm, RawTm
  <2>2. t.tm_mon + 1 \in Int
    BY <2>1
  <2>3. DayOf(t.tm_year, t.tm_mon + 1, t.tm_mday + 1) = DayOf(t.tm_year, t.tm_mon + 1, t.tm_mday) + 1
    <3>1. PICK y \in Int, m \in Int, a \in Int :
            y = t.tm_year /\ m = t.tm_mon + 1 /\ a = t.tm_mday
      BY <2>1
    <3>2. DayOf(y, m, a + 1) = DayOf(y, m, a) + 1
      BY DEF DayOf
    <3> QED  BY <3>1, <3>2
  <2>4. DayOf(t.tm_year, t.tm_mon + 1, t.tm_mday) \in Int
    BY <2>1, <2>2, DayOfInt
  <2>5. CASE field = "tm_sec"
    BY <1>3, <2>1, <2>4, <2>5 DEF NextOf, Period, Instant, DayOfTm, SecondOfTm
  <2>6. CASE field = "tm_min"
    BY <1>3, <2>1, <2>4, <2>6 DEF NextOf, Period, Instant, DayOfTm, SecondOfTm
  <2>7. CASE field = "tm_hour"
    BY <1>3, <2>1, <2>3, <2>4, <2>7 DEF NextOf, Period, Instant, DayOfTm, SecondOfTm
  <2> QED  BY <2>5, <2>6, <2>7 DEF ClockFields
<1> HIDE DEF u, nf
<1>6. /\ Parts(Instant(t), DayOfTm(t), t.tm_hour, t.tm_min, t.tm_sec)
      /\ Parts(Instant(u), DayOfTm(u), u.tm_hour, u.tm_min, u.tm_sec)
  BY <1>4, InstantParts
<1>7. /\ Instant(u) = Instant(t) + 60 => t.tm_sec = u.tm_sec
      /\ Instant(u) = Instant(t) + 3600 => t.tm_sec = u.tm_sec /\ t.tm_min = u.tm_min
      /\ Instant(u) = Instant(t) + 86400 =>
           t.tm_sec = u.tm_sec /\ t.tm_min = u.tm_min /\ t.tm_hour = u.tm_hour
  BY <1>6, PartsAdd
<1>8. Instant(u) = Instant(t) + Period(field)
  BY <1>4, <1>5
<1>9. /\ u.tm_sec = t.tm_sec
      /\ field # "tm_sec" => u.tm_min = t.tm_min
      /\ field = "tm_hour" => u.tm_hour = t.tm_hour
  <2>1. CASE field = "tm_sec"
    BY <1>7, <1>8, <2>1 DEF Period
  <2>2. CASE field = "tm_min"
    BY <1>7, <1>8, <2>2 DEF Period
  <2>3. CASE field = "tm_hour"
    BY <1>7, <1>8, <2>3 DEF Period
  <2> QED  BY <2>1, <2>2, <2>3 DEF ClockFields
<1> QED  BY <1>2, <1>4, <1>8, <1>9 DEF nf
-----------------------------------------------------------------------------
\* An instant by one field of the clock: the field's periods before it, the
\* field, and the fields below.
By(field, x, q, v, low) ==
  /\ q \in Int /\ v \in Nat /\ low \in Nat
  /\ low < Unit(field) /\ v * Unit(field) + low < Period(field)
  /\ x = q * Period(field) + v * Unit(field) + low

QuotOf(field, day, h, m) ==
  CASE field = "tm_sec" -> (day * 24 + h) * 60 + m
    [] field = "tm_min" -> day * 24 + h
    [] field = "tm_hour" -> day
ValueOf(field, h, m, s) ==
  CASE field = "tm_sec" -> s [] field = "tm_min" -> m [] field = "tm_hour" -> h
LowOf(field, m, s) ==
  CASE field = "tm_sec" -> 0 [] field = "tm_min" -> s
    [] field = "tm_hour" -> m * 60 + s

\* The parts of an instant, by one field of the clock.
LEMMA PartsBy ==
  ASSUME NEW field \in ClockFields, NEW x, NEW d, NEW h, NEW m, NEW s,
         Parts(x, d, h, m, s)
  PROVE  By(field, x, QuotOf(field, d, h, m), ValueOf(field, h, m, s),
            LowOf(field, m, s))
<1>1. CASE field = "tm_sec"
  BY <1>1 DEF Parts, By, QuotOf, ValueOf, LowOf, Unit, Period
<1>2. CASE field = "tm_min"
  BY <1>2 DEF Parts, By, QuotOf, ValueOf, LowOf, Unit, Period
<1>3. CASE field = "tm_hour"
  BY <1>3 DEF Parts, By, QuotOf, ValueOf, LowOf, Unit, Period
<1> QED  BY <1>1, <1>2, <1>3 DEF ClockFields

\* By(field, ...) of a struct tm.
Quot(field, t) == QuotOf(field, DayOfTm(t), t.tm_hour, t.tm_min)
Value(field, t) == ValueOf(field, t.tm_hour, t.tm_min, t.tm_sec)
Low(field, t) == LowOf(field, t.tm_min, t.tm_sec)

\* The instant of a struct tm, by one field of the clock.
LEMMA TmBy ==
  ASSUME NEW field \in ClockFields, NEW t, IsTm(t)
  PROVE  By(field, Instant(t), Quot(field, t), Value(field, t), Low(field, t))
BY InstantParts, PartsBy DEF Quot, Value, Low

\* Where the field moved from v1 to v2, in the same period or in the next
\* one, no instant with a value in between is passed over.
LEMMA NoneSkipped ==
  ASSUME NEW field \in ClockFields,
         NEW x1, NEW q1, NEW v1, NEW l1, By(field, x1, q1, v1, l1),
         NEW x2, NEW q2, NEW v2, NEW l2, By(field, x2, q2, v2, l2),
         NEW x, NEW q, NEW v, NEW l, By(field, x, q, v, l),
         \/ q2 = q1 /\ v1 < v2 /\ (v1 <= v => v2 <= v)
         \/ q2 = q1 + 1 /\ v < v1 /\ v2 <= v
  PROVE  l2 <= l => ~(x1 <= x /\ x < x2)
<1>1. CASE field = "tm_sec"
  BY <1>1 DEF By, Unit, Period
<1>2. CASE field = "tm_min"
  BY <1>2 DEF By, Unit, Period
<1>3. CASE field = "tm_hour"
  <2> SUFFICES ASSUME l2 <= l, x1 <= x, x < x2  PROVE FALSE
    OBVIOUS
  <2>1. /\ q1 \in Int /\ v1 \in Nat /\ l1 \in Nat /\ l1 < 3600
        /\ x1 = q1 * 86400 + v1 * 3600 + l1 /\ v1 <= 23
    BY <1>3 DEF By, Unit, Period
  <2>2. /\ q2 \in Int /\ v2 \in Nat /\ l2 \in Nat /\ l2 < 3600
        /\ x2 = q2 * 86400 + v2 * 3600 + l2 /\ v2 <= 23
    BY <1>3 DEF By, Unit, Period
  <2>3. /\ q \in Int /\ v \in Nat /\ l \in Nat /\ l < 3600
        /\ x = q * 86400 + v * 3600 + l /\ v <= 23
    BY <1>3 DEF By, Unit, Period
  <2>4. q1 <= q /\ q <= q2
    BY <2>1, <2>2, <2>3
  <2>5. CASE q2 = q1
    <3>1. v1 <= v /\ v <= v2
      BY <2>1, <2>2, <2>3, <2>4, <2>5
    <3> QED  BY <2>1, <2>2, <2>3, <2>4, <2>5, <3>1
  <2>6. CASE q2 = q1 + 1
    <3>1. v < v1 /\ v2 <= v
      BY <2>1, <2>6
    <3> QED  BY <2>1, <2>2, <2>3, <2>4, <2>6, <3>1
  <2> QED  BY <2>5, <2>6
<1> QED  BY <1>1, <1>2, <1>3 DEF ClockFields

\* A field that grows, or its next period, is a later instant.
LEMMA MovesOn ==
  ASSUME NEW field \in ClockFields,
         NEW x1, NEW q1, NEW v1, NEW l1, By(field, x1, q1, v1, l1),
         NEW x2, NEW q2, NEW v2, NEW l2, By(field, x2, q2, v2, l2),
         (q2 = q1 /\ v1 < v2) \/ q2 = q1 + 1
  PROVE  x1 < x2
<1>1. CASE field = "tm_sec"
  BY <1>1 DEF By, Unit, Period
<1>2. CASE field = "tm_min"
  BY <1>2 DEF By, Unit, Period
<1>3. CASE field = "tm_hour"
  BY <1>3 DEF By, Unit, Period
<1> QED  BY <1>1, <1>2, <1>3 DEF ClockFields

\* A period later is the next period.
LEMMA QuotAdd ==
  ASSUME NEW field \in ClockFields,
         NEW x1, NEW q1, NEW v, NEW l, By(field, x1, q1, v, l),
         NEW x2, NEW q2, By(field, x2, q2, v, l),
         x2 = x1 + Period(field)
  PROVE  q2 = q1 + 1
<1>1. CASE field = "tm_sec"
  BY <1>1 DEF By, Unit, Period
<1>2. CASE field = "tm_min"
  BY <1>2 DEF By, Unit, Period
<1>3. CASE field = "tm_hour"
  BY <1>3 DEF By, Unit, Period
<1> QED  BY <1>1, <1>2, <1>3 DEF ClockFields

\* The next period of a field begins, the fields below as they are.
LEMMA CarriedIs ==
  ASSUME NEW field \in ClockFields, NEW t, IsTm(t)
  PROVE  LET u == resetAllFields(addToField(t, NextOf(field), 1), {field})
         IN  /\ IsTm(u) /\ Quot(field, u) = Quot(field, t) + 1
             /\ field # "tm_sec" => u.tm_sec = t.tm_sec
             /\ field = "tm_hour" => u.tm_min = t.tm_min
<1> DEFINE a == addToField(t, NextOf(field), 1)
           c == Cleared(a, {field})
           u == Normal(c)
<1>1. /\ IsTm(a) /\ Instant(a) = Instant(t) + Period(field)
      /\ a.tm_sec = t.tm_sec
      /\ field # "tm_sec" => a.tm_min = t.tm_min
      /\ field = "tm_hour" => a.tm_hour = t.tm_hour
  BY OneMore
<1> HIDE DEF a
<1>2. Quot(field, a) = Quot(field, t) + 1
  <2>1. By(field, Instant(t), Quot(field, t), Value(field, t), Low(field, t))
    BY TmBy
  <2>2. By(field, Instant(a), Quot(field, a), Value(field, a), Low(field, a))
    BY <1>1, TmBy
  <2>3. Value(field, a) = Value(field, t) /\ Low(field, a) = Low(field, t)
    BY <1>1 DEF Value, Low, ValueOf, LowOf, ClockFields
  <2> QED  BY <1>1, <2>1, <2>2, <2>3, QuotAdd
<1>3. /\ ClockTm(c)
      /\ c.tm_sec = IF "tm_sec" \in {field} THEN 0 ELSE a.tm_sec
      /\ c.tm_min = IF "tm_min" \in {field} THEN 0 ELSE a.tm_min
      /\ c.tm_hour = IF "tm_hour" \in {field} THEN 0 ELSE a.tm_hour
      /\ c.tm_mday = a.tm_mday /\ c.tm_mon = a.tm_mon /\ c.tm_year = a.tm_year
  <2>1. {field} \in SUBSET Fields
    BY DEF Fields, ClockFields
  <2>2. "tm_mday" \notin {field} /\ "tm_mon" \notin {field}
    BY DEF ClockFields
  <2>3. ClockTm(a)
    BY <1>1, TmIsClock
  <2> QED  BY <2>1, <2>2, <2>3, ClearedIs
<1> HIDE DEF c
<1>4. IsTm(u) /\ SameClock(u, c) /\ DayOfTm(u) = DayOfTm(c)
  BY <1>3, NormalClock
<1>5. DayOfTm(c) = DayOfTm(a)
  BY <1>3 DEF DayOfTm
<1>6. resetAllFields(a, {field}) = u
  BY ResetIs DEF u, c
<1> HIDE DEF u
<1>7. Quot(field, u) = Quot(field, a)
  BY <1>3, <1>4, <1>5 DEF Quot, QuotOf, SameClock, ClockFields
<1> QED  BY <1>1, <1>2, <1>3, <1>4, <1>6, <1>7 DEF SameClock, ClockFields, a

LastOf(field) == IF field = "tm_hour" THEN 23 ELSE 59

\* A field of the clock that is not in its set moves to the next value that
\* is: the time goes on, and passes over no time that has the field in its
\* set and the lower ones not before those of the new time.
LEMMA ClockMoved ==
  ASSUME NEW field \in ClockFields, NEW S, FieldIs(S, 0, LastOf(field)),
         NEW t, IsTm(t), Value(field, t) \notin S,
         NEW marked \in SUBSET Below(field)
  PROVE  LET r == Moved(S, t, field, NextOf(field), marked)
         IN  /\ IsTm(r) /\ Value(field, r) \in S /\ Instant(t) < Instant(r)
             /\ field # "tm_sec" =>
                  r.tm_sec = IF "tm_sec" \in marked THEN 0 ELSE t.tm_sec
             /\ field = "tm_hour" =>
                  r.tm_min = IF "tm_min" \in marked THEN 0 ELSE t.tm_min
             /\ \A x, d, h, m, s :
                  Parts(x, d, h, m, s) /\ ValueOf(field, h, m, s) \in S
                    /\ Low(field, r) <= LowOf(field, m, s)
                  => ~(Instant(t) <= x /\ x < Instant(r))
<1> DEFINE v == Value(field, t)
           next == Following(S, v)
           u == Carried(S, t, field, NextOf(field))
           r == resetAllFields(setField(u, field, next), marked)
<1>1. v = t[field] /\ v \in Int
  <2>1. RawTm(t)
    BY DEF IsTm
  <2> QED  BY <2>1 DEF Value, ValueOf, ClockFields, RawTm
<1>2. Moved(S, t, field, NextOf(field), marked) = r
  BY <1>1, MovedIs
<1>3. /\ next \in S /\ next \in Nat
      /\ ~Wraps(S, v) => /\ v < next /\ \A w \in S : v <= w => next <= w
      /\ Wraps(S, v) => \A w \in S : w < v /\ next <= w
  BY <1>1, FollowingIs
<1>4. next <= LastOf(field)
  BY <1>3 DEF FieldIs
<1>5. /\ IsTm(u)
      /\ Quot(field, u) = IF Wraps(S, v) THEN Quot(field, t) + 1 ELSE Quot(field, t)
      /\ field # "tm_sec" => u.tm_sec = t.tm_sec
      /\ field = "tm_hour" => u.tm_min = t.tm_min
  BY <1>1, CarriedIs DEF Carried
<1> HIDE DEF u, next, v
<1>6. /\ IsTm(r) /\ DayOfTm(r) = DayOfTm(u)
      /\ r.tm_sec = IF "tm_sec" \in marked THEN 0
                    ELSE IF field = "tm_sec" THEN next ELSE u.tm_sec
      /\ r.tm_min = IF "tm_min" \in marked THEN 0
                    ELSE IF field = "tm_min" THEN next ELSE u.tm_min
      /\ r.tm_hour = IF "tm_hour" \in marked THEN 0
                     ELSE IF field = "tm_hour" THEN next ELSE u.tm_hour
  <2>1. /\ field \in {"tm_sec", "tm_min", "tm_hour"}
        /\ marked \in SUBSET {"tm_sec", "tm_min", "tm_hour"}
    BY DEF ClockFields, Below
  <2>2. next <= 59 /\ (field = "tm_hour" => next <= 23)
    BY <1>3, <1>4 DEF LastOf
  <2> QED  BY <1>3, <1>5, <2>1, <2>2, Placed
<1> HIDE DEF r
<1>7. Value(field, r) = next /\ Quot(field, r) = Quot(field, u)
  BY <1>6 DEF Value, ValueOf, Quot, QuotOf, Below, ClockFields
<1>8. By(field, Instant(t), Quot(field, t), v, Low(field, t))
  BY TmBy DEF v
<1>9. By(field, Instant(r), Quot(field, r), next, Low(field, r))
  BY <1>6, <1>7, TmBy
<1>10. Instant(t) < Instant(r)
  <2>1. CASE Wraps(S, v)
    <3>1. Quot(field, r) = Quot(field, t) + 1
      BY <1>5, <1>7, <2>1
    <3> QED  BY <1>8, <1>9, <3>1, MovesOn
  <2>2. CASE ~Wraps(S, v)
    <3>1. Quot(field, r) = Quot(field, t) /\ v < next
      BY <1>3, <1>5, <1>7, <2>2
    <3> QED  BY <1>8, <1>9, <3>1, MovesOn
  <2> QED  BY <2>1, <2>2
<1>11. ASSUME NEW x, NEW d, NEW h, NEW m, NEW s,
              Parts(x, d, h, m, s), ValueOf(field, h, m, s) \in S,
              Low(field, r) <= LowOf(field, m, s)
       PROVE  ~(Instant(t) <= x /\ x < Instant(r))
  <2>1. PICK q, w, l : /\ q = QuotOf(field, d, h, m) /\ w = ValueOf(field, h, m, s)
                       /\ l = LowOf(field, m, s) /\ By(field, x, q, w, l)
    BY <1>11, PartsBy
  <2>2. w \in S /\ Low(field, r) <= l
    BY <1>11, <2>1
  <2>3. CASE Wraps(S, v)
    <3>1. Quot(field, r) = Quot(field, t) + 1 /\ w < v /\ next <= w
      BY <1>3, <1>5, <1>7, <2>2, <2>3
    <3> QED  BY <1>8, <1>9, <2>1, <2>2, <3>1, NoneSkipped
  <2>4. CASE ~Wraps(S, v)
    <3>1. Quot(field, r) = Quot(field, t) /\ v < next /\ (v <= w => next <= w)
      BY <1>3, <1>5, <1>7, <2>2, <2>4
    <3> QED  BY <1>8, <1>9, <2>1, <2>2, <3>1, NoneSkipped
  <2> QED  BY <2>3, <2>4
<1>12. /\ field # "tm_sec" =>
            r.tm_sec = IF "tm_sec" \in marked THEN 0 ELSE t.tm_sec
       /\ field = "tm_hour" =>
            r.tm_min = IF "tm_min" \in marked THEN 0 ELSE t.tm_min
  BY <1>5, <1>6 DEF ClockFields
<1>13. Value(field, r) \in S
  BY <1>3, <1>7
<1> QED  BY <1>2, <1>6, <1>10, <1>11, <1>12, <1>13
-----------------------------------------------------------------------------
\* Days of a month are as far apart as their numbers.
LEMMA WithinMonth ==
  ASSUME NEW y, NEW m, NEW a, IsCivil(y, m, a), NEW b \in Int,
         1 <= b, b <= DaysIn(y, m)
  PROVE  IsCivil(y, m, b) /\ DayOf(y, m, b) = DayOf(y, m, a) + (b - a)
<1>1. y \in Int /\ m \in Int /\ a \in Int
  BY DEF IsCivil
<1>2. DayOf(y, m, b) = DayOf(y, m, a) + (b - a)
  BY <1>1 DEF DayOf
<1> QED  BY <1>2 DEF IsCivil

\* k days after the day a of the month m is the first of the next month.
IsNextMonth(y, m, a, ny, nm, k) ==
  /\ IsCivil(ny, nm, 1) /\ DayOf(ny, nm, 1) = DayOf(y, m, a) + k
  /\ k \in Nat /\ k = DaysIn(y, m) - a + 1 /\ 1 <= k /\ k <= 31
  /\ DaysIn(y, m) < 31 => DaysIn(ny, nm) = 31
  /\ 28 <= DaysIn(ny, nm)

\* Every day has a first of the next month after it.
LEMMA NextMonthIs ==
  ASSUME NEW y, NEW m, NEW a, IsCivil(y, m, a)
  PROVE  \E ny, nm, k : IsNextMonth(y, m, a, ny, nm, k)
<1> USE DEF IsNextMonth
<1>1. /\ y \in Int /\ m \in Int /\ a \in Int /\ 1 <= a /\ a <= DaysIn(y, m)
      /\ 1 <= m /\ m <= 12
      /\ DaysIn(y, m) \in Int /\ 28 <= DaysIn(y, m) /\ DaysIn(y, m) <= 31
  BY MonthLengths DEF IsCivil
<1>2. PICK b \in Int : b = DaysIn(y, m) /\ 1 <= b /\ b <= 31 /\ a <= b
  BY <1>1
<1>3. IsCivil(y, m, b) /\ DayOf(y, m, b) = DayOf(y, m, a) + (b - a)
  BY <1>2, WithinMonth
<1>4. DayOf(y, m, a) \in Int
  BY <1>1, DayOfInt
<1>5. PICK k \in Nat : k = b - a + 1 /\ 1 <= k /\ k <= 31
  BY <1>1, <1>2
<1>6. CASE m < 12
  <2>1. IsCivil(y, m + 1, 1) /\ DayOf(y, m + 1, 1) = DayOf(y, m, b) + 1
    BY <1>2, <1>3, <1>6, DayOfNext
  <2>2. DayOf(y, m + 1, 1) = DayOf(y, m, a) + k
    BY <1>1, <1>2, <1>3, <1>4, <1>5, <2>1
  <2>3. DaysIn(y, m) < 31 => DaysIn(y, m + 1) = 31
    BY <1>1, <1>6, MonthLengths
  <2>4. 28 <= DaysIn(y, m + 1)
    BY MonthLengths
  <2> QED  BY <1>2, <1>5, <2>1, <2>2, <2>3, <2>4
<1>7. CASE m = 12
  <2>1. IsCivil(y + 1, 1, 1) /\ DayOf(y + 1, 1, 1) = DayOf(y, m, b) + 1
    BY <1>2, <1>3, <1>7, DayOfNext
  <2>2. DayOf(y + 1, 1, 1) = DayOf(y, m, a) + k
    BY <1>1, <1>2, <1>3, <1>4, <1>5, <2>1
  <2>3. DaysIn(y + 1, 1) = 31
    BY MonthLengths
  <2> QED  BY <1>2, <1>5, <2>1, <2>2, <2>3
<1> QED  BY <1>1, <1>6, <1>7

\* Every number of a day of a month comes within a hundred days.
LEMMA MdayComes ==
  ASSUME NEW day \in Int, NEW v \in Nat, 1 <= v, v <= 31
  PROVE  \E k \in Nat : k <= 100 /\ CivilOf(day + k).mday = v
<1>1. PICK y, m, a : IsCivil(y, m, a) /\ DayOf(y, m, a) = day
  BY CivilOfEveryDay
<1>2. PICK y1, m1, k1 : IsNextMonth(y, m, a, y1, m1, k1)
  BY <1>1, NextMonthIs
<1>a. /\ IsCivil(y1, m1, 1) /\ DayOf(y1, m1, 1) = day + k1 /\ k1 <= 31 /\ k1 \in Nat
  BY <1>1, <1>2 DEF IsNextMonth
<1>3. PICK y2, m2, k2 :
        /\ IsCivil(y2, m2, 1) /\ DayOf(y2, m2, 1) = day + k2
        /\ k2 \in Nat /\ k2 <= 62
        /\ DaysIn(y2, m2) = 31
  <2>1. DaysIn(y1, m1) \in Int /\ DaysIn(y1, m1) <= 31
    BY MonthLengths
  <2>2. CASE DaysIn(y1, m1) = 31
    <3>1. /\ IsCivil(y1, m1, 1) /\ DayOf(y1, m1, 1) = day + k1
          /\ k1 \in Nat /\ k1 <= 62 /\ DaysIn(y1, m1) = 31
      BY <1>a, <2>2
    <3> QED  BY <3>1
  <2>3. CASE DaysIn(y1, m1) < 31
    <3>1. PICK y2, m2, k2 : IsNextMonth(y1, m1, 1, y2, m2, k2)
      BY <1>a, NextMonthIs
    <3>2. /\ IsCivil(y2, m2, 1) /\ DayOf(y2, m2, 1) = DayOf(y1, m1, 1) + k2
          /\ k2 \in Nat /\ k2 <= 31 /\ DaysIn(y2, m2) = 31
      BY <2>3, <3>1 DEF IsNextMonth
    <3>3. k1 + k2 \in Nat /\ k1 + k2 <= 62 /\ DayOf(y2, m2, 1) = day + (k1 + k2)
      BY <1>a, <3>2
    <3> QED  BY <3>2, <3>3
  <2> QED  BY <2>1, <2>2, <2>3
<1>4. IsCivil(y2, m2, v) /\ DayOf(y2, m2, v) = DayOf(y2, m2, 1) + (v - 1)
  BY <1>3, WithinMonth
<1>5. PICK k \in Nat : k = k2 + (v - 1) /\ k <= 100
  BY <1>3
<1>6. DayOf(y2, m2, v) = day + k
  BY <1>3, <1>4, <1>5
<1>7. CivilOf(day + k).mday = v
  BY <1>4, <1>6, CivilBack
<1> QED  BY <1>5, <1>7

\* Within a week no number of a day comes twice.
LEMMA MdayDiffers ==
  ASSUME NEW day \in Int, NEW k \in Nat, 1 <= k, k <= 6
  PROVE  CivilOf(day + k).mday # CivilOf(day).mday
<1>1. PICK y, m, a : IsCivil(y, m, a) /\ DayOf(y, m, a) = day
  BY CivilOfEveryDay
<1>2. a \in Int /\ 1 <= a /\ a <= DaysIn(y, m) /\ CivilOf(day).mday = a
  BY <1>1, CivilBack DEF IsCivil
<1>3. DaysIn(y, m) \in Int /\ 28 <= DaysIn(y, m)
  BY MonthLengths
<1>4. CASE a + k <= DaysIn(y, m)
  <2>1. PICK b \in Int : b = a + k /\ 1 <= b /\ b <= DaysIn(y, m) /\ b - a = k
    BY <1>2, <1>4
  <2>2. IsCivil(y, m, b) /\ DayOf(y, m, b) = DayOf(y, m, a) + (b - a)
    BY <1>1, <2>1, WithinMonth
  <2>3. CivilOf(day + k).mday = b
    BY <1>1, <2>1, <2>2, CivilBack
  <2> QED  BY <1>2, <2>1, <2>3
<1>5. CASE DaysIn(y, m) < a + k
  <2>0. PICK ny, nm, j : IsNextMonth(y, m, a, ny, nm, j)
    BY <1>1, NextMonthIs
  <2>1. /\ IsCivil(ny, nm, 1) /\ DayOf(ny, nm, 1) = day + j /\ j \in Nat
        /\ j = DaysIn(y, m) - a + 1 /\ 28 <= DaysIn(ny, nm)
    BY <1>1, <2>0 DEF IsNextMonth
  <2>2. PICK b \in Int : b = 1 + k - j /\ 1 <= b /\ b <= 6 /\ b # a
    BY <1>2, <1>3, <1>5, <2>1
  <2>3. b <= DaysIn(ny, nm)
    BY <2>1, <2>2, MonthLengths
  <2>4. IsCivil(ny, nm, b) /\ DayOf(ny, nm, b) = DayOf(ny, nm, 1) + (b - 1)
    BY <2>1, <2>2, <2>3, WithinMonth
  <2>5. DayOf(ny, nm, b) = day + k
    BY <2>1, <2>2, <2>4
  <2>6. CivilOf(day + k).mday = b
    BY <2>4, <2>5, CivilBack
  <2> QED  BY <1>2, <2>2, <2>6
<1> QED  BY <1>2, <1>3, <1>4, <1>5

\* A cron that makecron made.
CronOk(c) ==
  /\ FieldIs(c.seconds, 0, 59) /\ FieldIs(c.minutes, 0, 59)
  /\ FieldIs(c.hours, 0, 23) /\ FieldIs(c.days_of_month, 1, 31)
  /\ FieldIs(c.months, 0, 11) /\ FieldIs(c.days_of_week, 0, 6)

\* Every weekday comes within a week.
LEMMA WeekdayComes ==
  ASSUME NEW day \in Int, NEW v \in Nat, v <= 6
  PROVE  \E k \in Nat : k <= 6 /\ Weekday(day + k) = v
<1>1. PICK w \in Nat : w = Weekday(day) /\ w <= 6
  BY WeekDays
<1>2. CASE w <= v
  <2>1. v - w \in Nat /\ v - w <= 6 /\ Weekday(day + (v - w)) = v
    BY <1>1, <1>2 DEF Weekday
  <2> QED  BY <2>1
<1>3. CASE v < w
  <2>1. v - w + 7 \in Nat /\ v - w + 7 <= 6 /\ Weekday(day + (v - w + 7)) = v
    BY <1>1, <1>3 DEF Weekday
  <2> QED  BY <2>1
<1> QED  BY <1>2, <1>3

\* The numbers of days findNextDay may go on by.
Candidates(c, day) == {k \in 0 .. 366 : k = 366 \/ DayMatches(c, day + k)}

\* findNextDay has an answer, if only the last day it looks at.
LEMMA CandidatesAre ==
  ASSUME NEW c, NEW day
  PROVE  /\ Candidates(c, day) \in SUBSET Nat /\ 366 \in Candidates(c, day)
         /\ \A k : k \in Candidates(c, day) <=>
                     /\ k \in Nat /\ k <= 366
                     /\ k = 366 \/ DayMatches(c, day + k)
BY DEF Candidates

\* The weekdays are 0 to 6.
LEMMA WeekdayRange ==
  ASSUME NEW day \in Int
  PROVE  Weekday(day) \in 0 .. 6
BY DEF Weekday

\* The days of a month are 1 to 31.
LEMMA MdayRange ==
  ASSUME NEW day \in Int
  PROVE  CivilOf(day).mday \in 1 .. 31
<1> DEFINE a == CivilOf(day).mday
<1>1. a \in Int /\ 1 <= a /\ a <= 31
  BY CivilOfIs, MonthLengths DEF IsCivil
<1> HIDE DEF a
<1>2. a \in 1 .. 31
  BY <1>1
<1> QED  BY <1>2 DEF a

\* findNextDay finds a day before it gives up, and the number of the day in
\* its month tells that it moved.
LEMMA DayComes ==
  ASSUME NEW c, CronOk(c), FreeDay(c), NEW day \in Int
  PROVE  \E n \in Nat :
           /\ n = MinOf(Candidates(c, day))
           /\ DayMatches(c, day + n)
           /\ \A k \in Nat : k < n => ~DayMatches(c, day + k)
           /\ n # 0 => CivilOf(day + n).mday # CivilOf(day).mday
<1>1. PICK n : /\ n = MinOf(Candidates(c, day)) /\ n \in Candidates(c, day)
               /\ \A k \in Candidates(c, day) : n <= k
  <2>1. Candidates(c, day) \in SUBSET Nat /\ Candidates(c, day) # {}
    BY CandidatesAre
  <2> QED  BY <2>1, MinOfIs
<1>2. n \in Nat /\ n <= 366 /\ (n = 366 \/ DayMatches(c, day + n))
  BY <1>1, CandidatesAre
<1>3. ASSUME NEW k \in Nat, k <= 100, DayMatches(c, day + k)
      PROVE  n <= k /\ DayMatches(c, day + n)
  <2>1. n <= k
    BY <1>1, <1>3, CandidatesAre
  <2> QED  BY <1>2, <1>3, <2>1
<1>4. ASSUME NEW k \in Nat, k < n
      PROVE  ~DayMatches(c, day + k)
  <2>1. k \notin Candidates(c, day)
    BY <1>1, <1>2, <1>4
  <2> QED  BY <1>2, <1>4, <2>1, CandidatesAre
<1>5. ASSUME DayMatches(c, day + n), n # 0 => CivilOf(day + n).mday # CivilOf(day).mday
      PROVE  \E i \in Nat :
           /\ i = MinOf(Candidates(c, day)) /\ DayMatches(c, day + i)
           /\ \A k \in Nat : k < i => ~DayMatches(c, day + k)
           /\ i # 0 => CivilOf(day + i).mday # CivilOf(day).mday
  BY <1>1, <1>2, <1>4, <1>5
<1>6. CASE c.days_of_week = 0 .. 6
  <2>1. ASSUME NEW d \in Int
        PROVE  DayMatches(c, d) <=> CivilOf(d).mday \in c.days_of_month
    BY <1>6, WeekdayRange DEF DayMatches
  <2>2. PICK v \in c.days_of_month : v \in Nat /\ 1 <= v /\ v <= 31
    BY DEF CronOk, FieldIs
  <2>3. PICK k \in Nat : k <= 100 /\ CivilOf(day + k).mday = v
    BY <2>2, MdayComes
  <2>4. DayMatches(c, day + n)
    <3>1. DayMatches(c, day + k)
      BY <2>1, <2>2, <2>3
    <3> QED  BY <1>3, <2>3, <3>1
  <2>5. ASSUME n # 0
        PROVE  CivilOf(day + n).mday # CivilOf(day).mday
    <3>1. 0 < n /\ day + 0 = day
      BY <1>2, <2>5
    <3>2. ~DayMatches(c, day)
      BY <1>4, <3>1
    <3>3. CivilOf(day + n).mday \in c.days_of_month
      BY <1>2, <2>1, <2>4
    <3> QED  BY <2>1, <3>2, <3>3
  <2> QED  BY <1>5, <2>4, <2>5
<1>7. CASE c.days_of_month = 1 .. 31
  <2>1. ASSUME NEW d \in Int
        PROVE  DayMatches(c, d) <=> Weekday(d) \in c.days_of_week
    BY <1>7, MdayRange DEF DayMatches
  <2>2. PICK v \in c.days_of_week : v \in Nat /\ v <= 6
    BY DEF CronOk, FieldIs
  <2>3. PICK k \in Nat : k <= 6 /\ Weekday(day + k) = v
    BY <2>2, WeekdayComes
  <2>4. DayMatches(c, day + n) /\ n <= k
    <3>1. DayMatches(c, day + k)
      BY <2>1, <2>2, <2>3
    <3>2. k <= 100
      BY <2>3
    <3> QED  BY <1>3, <3>1, <3>2
  <2>5. ASSUME n # 0
        PROVE  CivilOf(day + n).mday # CivilOf(day).mday
    <3>1. 1 <= n /\ n <= 6
      BY <1>2, <2>3, <2>4, <2>5
    <3> QED  BY <1>2, <3>1, MdayDiffers
  <2> QED  BY <1>5, <2>4, <2>5
<1> QED  BY <1>6, <1>7 DEF FreeDay

\* CivilOf gives the date of a normal struct tm.
LEMMA TmMday ==
  ASSUME NEW t, IsTm(t)
  PROVE  /\ CivilOf(DayOfTm(t)).mday = t.tm_mday
         /\ CivilOf(DayOfTm(t)).month = t.tm_mon + 1
         /\ CivilOf(DayOfTm(t)).year = t.tm_year
BY CivilBack DEF IsTm, DayOfTm

\* findNextDay moves to the next day that matches.
LEMMA DayMoved ==
  ASSUME NEW c, CronOk(c), FreeDay(c), NEW t, IsTm(t),
         NEW marked \in SUBSET ClockFields
  PROVE  LET r == findNextDay(c, t, marked)
         IN  /\ DayMatches(c, DayOfTm(t)) => r = t
             /\ ~DayMatches(c, DayOfTm(t)) =>
                  /\ IsTm(r) /\ r.tm_mday # t.tm_mday
                  /\ DayOfTm(t) < DayOfTm(r)
                  /\ r.tm_sec = IF "tm_sec" \in marked THEN 0 ELSE t.tm_sec
                  /\ r.tm_min = IF "tm_min" \in marked THEN 0 ELSE t.tm_min
                  /\ r.tm_hour = IF "tm_hour" \in marked THEN 0 ELSE t.tm_hour
                  /\ \A d \in Int : DayOfTm(t) <= d /\ d < DayOfTm(r)
                                      => ~DayMatches(c, d)
<1>1. PICK day \in Int : day = DayOfTm(t)
  BY InstantInt DEF IsTm
<1>2. PICK n \in Nat :
           /\ n = MinOf(Candidates(c, day))
           /\ DayMatches(c, day + n)
           /\ \A k \in Nat : k < n => ~DayMatches(c, day + k)
           /\ n # 0 => CivilOf(day + n).mday # CivilOf(day).mday
  BY DayComes
<1>3. findNextDay(c, t, marked)
        = IF n = 0 THEN t ELSE resetAllFields(addToField(t, "tm_mday", n), marked)
  BY <1>1, <1>2 DEF findNextDay, Candidates
<1>4. DayMatches(c, day) <=> n = 0
  <2>1. 0 < n => ~DayMatches(c, day)
    <3>1. day + 0 = day
      OBVIOUS
    <3> QED  BY <1>2, <3>1
  <2>2. n = 0 => DayMatches(c, day)
    BY <1>2
  <2> QED  BY <2>1, <2>2
<1>5. ASSUME n # 0
      PROVE  LET r == resetAllFields(addToField(t, "tm_mday", n), marked)
             IN   /\ IsTm(r) /\ DayOfTm(r) = day + n
                  /\ r.tm_sec = IF "tm_sec" \in marked THEN 0 ELSE t.tm_sec
                  /\ r.tm_min = IF "tm_min" \in marked THEN 0 ELSE t.tm_min
                  /\ r.tm_hour = IF "tm_hour" \in marked THEN 0 ELSE t.tm_hour
  <2> DEFINE s == [t EXCEPT !["tm_mday"] = t["tm_mday"] + n]
             a == Normal(s)
             u == Cleared(a, marked)
             r == Normal(u)
  <2>1. ClockTm(t)
    BY TmIsClock
  <2>0. "tm_mday" \in Fields \cup {"tm_year"}
    BY DEF Fields
  <2>2. addToField(t, "tm_mday", n) = a /\ t["tm_mday"] + n \in Int
    BY <2>0, <2>1, FieldAdd DEF addToField, ClockTm
  <2>3. /\ RawTm(s) /\ SameClock(s, t)
        /\ s.tm_mday = t["tm_mday"] + n
        /\ s.tm_mon = t.tm_mon /\ s.tm_year = t.tm_year
    BY <2>0, <2>1, <2>2, FieldSet DEF ClockTm, SameClock
  <2> HIDE DEF s
  <2>4. ClockTm(s)
    BY <2>1, <2>3 DEF ClockTm, SameClock
  <2>5. IsTm(a) /\ SameClock(a, s) /\ DayOfTm(a) = DayOfTm(s)
    BY <2>4, NormalClock
  <2>6. DayOfTm(s) = day + n
    <3>1. /\ t.tm_mday \in Int /\ t.tm_mon + 1 \in Int /\ t.tm_year \in Int
          /\ t["tm_mday"] = t.tm_mday
      BY <2>1 DEF ClockTm, RawTm
    <3>2. DayOf(t.tm_year, t.tm_mon + 1, t.tm_mday + n) = DayOf(t.tm_year, t.tm_mon + 1, t.tm_mday) + n
      <4>1. PICK y \in Int, m \in Int, b \in Int :
              y = t.tm_year /\ m = t.tm_mon + 1 /\ b = t.tm_mday
        BY <3>1
      <4>2. DayOf(y, m, b + n) = DayOf(y, m, b) + n
        BY DayOfShift
      <4> QED  BY <4>1, <4>2
    <3> QED  BY <1>1, <2>3, <3>1, <3>2 DEF DayOfTm
  <2> HIDE DEF a
  <2>7. /\ ClockTm(u)
        /\ u.tm_sec = IF "tm_sec" \in marked THEN 0 ELSE a.tm_sec
        /\ u.tm_min = IF "tm_min" \in marked THEN 0 ELSE a.tm_min
        /\ u.tm_hour = IF "tm_hour" \in marked THEN 0 ELSE a.tm_hour
        /\ u.tm_mday = a.tm_mday /\ u.tm_mon = a.tm_mon /\ u.tm_year = a.tm_year
    <3>1. ClockTm(a) /\ marked \in SUBSET Fields
      BY <2>5, TmIsClock DEF Fields, ClockFields
    <3>2. "tm_mday" \notin marked /\ "tm_mon" \notin marked
      BY DEF ClockFields
    <3> QED  BY <3>1, <3>2, ClearedIs
  <2> HIDE DEF u
  <2>8. IsTm(r) /\ SameClock(r, u) /\ DayOfTm(r) = DayOfTm(u)
    BY <2>7, NormalClock
  <2>9. DayOfTm(u) = DayOfTm(a)
    BY <2>7 DEF DayOfTm
  <2>10. resetAllFields(a, marked) = r
    BY ResetIs DEF u
  <2> HIDE DEF r
  <2> QED  BY <2>2, <2>3, <2>5, <2>6, <2>7, <2>8, <2>9, <2>10 DEF SameClock
<1>6. CASE n = 0
  BY <1>1, <1>3, <1>4, <1>6
<1>7. CASE n # 0
  <2>1. PICK r : r = resetAllFields(addToField(t, "tm_mday", n), marked)
    OBVIOUS
  <2>2. /\ IsTm(r) /\ DayOfTm(r) = day + n
        /\ r.tm_sec = IF "tm_sec" \in marked THEN 0 ELSE t.tm_sec
        /\ r.tm_min = IF "tm_min" \in marked THEN 0 ELSE t.tm_min
        /\ r.tm_hour = IF "tm_hour" \in marked THEN 0 ELSE t.tm_hour
    BY <1>5, <1>7, <2>1
  <2>3. r.tm_mday # t.tm_mday
    BY <1>1, <1>2, <1>7, <2>2, TmMday
  <2>4. day < day + n
    BY <1>7
  <2>5. ASSUME NEW d \in Int, day <= d, d < day + n
        PROVE  ~DayMatches(c, d)
    <3>1. d - day \in Nat /\ d - day < n /\ day + (d - day) = d
      BY <2>5
    <3> QED  BY <1>2, <3>1
  <2> QED  BY <1>1, <1>3, <1>4, <1>7, <2>1, <2>2, <2>3, <2>4, <2>5
<1> QED  BY <1>6, <1>7
-----------------------------------------------------------------------------
\* mktime takes a day past the end of its month for one of the next, in the
\* same year.
LEMMA NormalMonth ==
  ASSUME NEW t, ClockTm(t), 1 <= t.tm_mday, t.tm_mday <= 31
  PROVE  LET n == Normal(t)
         IN  /\ IsTm(n) /\ SameClock(n, t)
             /\ n.tm_year = t.tm_year /\ t.tm_mon <= n.tm_mon
             /\ t.tm_mday <= 28 => n.tm_mon = t.tm_mon /\ n.tm_mday = t.tm_mday
<1> DEFINE n == Normal(t)
<1>1. IsTm(n) /\ SameClock(n, t) /\ DayOfTm(n) = DayOfTm(t)
  BY NormalClock
<1> HIDE DEF n
<1>2. PICK y \in Int, mon \in Int, m \in Int, a \in Int :
        /\ y = t.tm_year /\ mon = t.tm_mon /\ m = mon + 1 /\ a = t.tm_mday
        /\ 1 <= m /\ m <= 12 /\ 1 <= a /\ a <= 31
  <2>1. t.tm_year \in Int /\ t.tm_mon \in Int /\ t.tm_mon + 1 \in Int /\ t.tm_mday \in Int
    BY DEF ClockTm, RawTm
  <2>2. 1 <= t.tm_mon + 1 /\ t.tm_mon + 1 <= 12
    BY <2>1 DEF ClockTm
  <2> QED  BY <2>1, <2>2
<1>3. DayOfTm(n) = DayOf(y, m, a)
  BY <1>1, <1>2 DEF DayOfTm
<1>4. ASSUME NEW m1 \in Int, NEW a1 \in Int, IsCivil(y, m1, a1),
             DayOf(y, m1, a1) = DayOf(y, m, a)
      PROVE  n.tm_year = y /\ n.tm_mon = m1 - 1 /\ n.tm_mday = a1
  <2>1. n.tm_year = y /\ n.tm_mon + 1 = m1 /\ n.tm_mday = a1
    BY <1>1, <1>3, <1>4, TmMday, CivilBack
  <2>2. n.tm_mon \in Int
    BY <1>1 DEF IsTm, RawTm
  <2> QED  BY <2>1, <2>2
<1>5. PICK b \in Int : b = DaysIn(y, m) /\ 28 <= b /\ b <= 31
  BY MonthLengths
<1>6. CASE a <= b
  <2>1. IsCivil(y, m, a)
    BY <1>2, <1>5, <1>6 DEF IsCivil
  <2>2. n.tm_year = y /\ n.tm_mon = m - 1 /\ n.tm_mday = a
    BY <1>4, <2>1
  <2> QED  BY <1>1, <1>2, <2>2 DEF n
<1>7. CASE b < a
  <2>1. m < 12
    BY <1>2, <1>5, <1>7, MonthLengths
  <2>2. IsCivil(y, m, b)
    BY <1>2, <1>5 DEF IsCivil
  <2>3. IsCivil(y, m + 1, 1) /\ DayOf(y, m + 1, 1) = DayOf(y, m, b) + 1
    BY <1>2, <1>5, <2>1, <2>2, DayOfNext
  <2>4. PICK m1 \in Int, c \in Int : m1 = m + 1 /\ c = a - b /\ 1 <= c /\ c <= 3
    BY <1>2, <1>5, <1>7
  <2>5. c <= DaysIn(y, m1)
    BY <2>4, MonthLengths
  <2>6. IsCivil(y, m1, c) /\ DayOf(y, m1, c) = DayOf(y, m1, 1) + (c - 1)
    BY <2>3, <2>4, <2>5, WithinMonth
  <2>7. DayOf(y, m, a) = DayOf(y, m, b) + c
    <3>1. a = b + c
      BY <1>2, <1>5, <2>4
    <3>2. DayOf(y, m, b + c) = DayOf(y, m, b) + c
      BY DayOfShift
    <3> QED  BY <3>1, <3>2
  <2>8. DayOf(y, m, b) \in Int
    BY <1>2, <1>5, DayOfInt
  <2>9. DayOf(y, m1, c) = DayOf(y, m, a)
    BY <2>3, <2>4, <2>6, <2>7, <2>8
  <2>10. n.tm_year = y /\ n.tm_mon = m1 - 1
    BY <1>4, <2>6, <2>9
  <2> QED  BY <1>1, <1>2, <1>5, <1>7, <2>4, <2>10 DEF n
<1> QED  BY <1>2, <1>5, <1>6, <1>7

\* Fields above the month stay, and the day stays if every month has it.
KeepsDate(r, t) ==
  /\ IsTm(r) /\ r.tm_year = t.tm_year /\ t.tm_mon <= r.tm_mon
  /\ t.tm_mday <= 28 => r.tm_mon = t.tm_mon /\ r.tm_mday = t.tm_mday

\* The date of a normal struct tm is in range.
LEMMA MdayOfTm ==
  ASSUME NEW t, IsTm(t)
  PROVE  /\ t.tm_mday \in Int /\ 1 <= t.tm_mday /\ t.tm_mday <= 31
         /\ t.tm_mon \in Int /\ 0 <= t.tm_mon /\ t.tm_mon <= 11 /\ t.tm_year \in Int
<1>1. /\ t.tm_mday \in Int /\ t.tm_mon \in Int /\ t.tm_year \in Int
  BY DEF IsTm, RawTm
<1>2. /\ 1 <= t.tm_mon + 1 /\ t.tm_mon + 1 <= 12
      /\ 1 <= t.tm_mday /\ t.tm_mday <= DaysIn(t.tm_year, t.tm_mon + 1)
  BY DEF IsTm, IsCivil
<1>3. DaysIn(t.tm_year, t.tm_mon + 1) <= 31 /\ DaysIn(t.tm_year, t.tm_mon + 1) \in Int
  BY MonthLengths
<1> QED  BY <1>1, <1>2, <1>3

\* The year after, in January.
LEMMA YearAfter ==
  ASSUME NEW t, IsTm(t)
  PROVE  LET u == resetAllFields(addToField(t, "tm_year", 1), {"tm_mon"})
         IN  /\ IsTm(u) /\ SameClock(u, t)
             /\ u.tm_year = t.tm_year + 1 /\ u.tm_mon = 0
             /\ t.tm_mday <= 28 => u.tm_mday = t.tm_mday
<1> DEFINE s == [t EXCEPT !["tm_year"] = t["tm_year"] + 1]
           a == Normal(s)
           c == Cleared(a, {"tm_mon"})
           u == Normal(c)
<1>0. "tm_year" \in Fields \cup {"tm_year"}
  OBVIOUS
<1>1. ClockTm(t)
  BY TmIsClock
<1>2. addToField(t, "tm_year", 1) = a /\ t["tm_year"] + 1 \in Int
  BY <1>0, <1>1, FieldAdd DEF addToField, ClockTm
<1>3. /\ RawTm(s) /\ SameClock(s, t) /\ s.tm_mday = t.tm_mday
      /\ s.tm_mon = t.tm_mon /\ s.tm_year = t["tm_year"] + 1
  BY <1>0, <1>1, <1>2, FieldSet DEF ClockTm, SameClock
<1> HIDE DEF s
<1>4. ClockTm(s) /\ 1 <= s.tm_mday /\ s.tm_mday <= 31
  BY <1>1, <1>3, MdayOfTm DEF ClockTm, SameClock
<1>5. /\ IsTm(a) /\ SameClock(a, s) /\ a.tm_year = s.tm_year
      /\ s.tm_mday <= 28 => a.tm_mday = s.tm_mday
  BY <1>4, NormalMonth
<1> HIDE DEF a
<1>6. /\ ClockTm(c) /\ SameClock(c, a) /\ c.tm_mday = a.tm_mday
      /\ c.tm_mon = 0 /\ c.tm_year = a.tm_year
  <2>1. ClockTm(a) /\ {"tm_mon"} \in SUBSET Fields
    BY <1>5, TmIsClock DEF Fields
  <2> QED  BY <2>1, ClearedIs DEF SameClock
<1> HIDE DEF c
<1>7. IsCivil(c.tm_year, c.tm_mon + 1, c.tm_mday)
  <2>1. DaysIn(a.tm_year, 1) = 31
    BY MonthLengths
  <2> QED  BY <1>5, <1>6, <2>1, MdayOfTm DEF IsCivil
<1>8. /\ IsTm(u) /\ SameClock(u, c)
      /\ u.tm_year = c.tm_year /\ u.tm_mon = c.tm_mon /\ u.tm_mday = c.tm_mday
  BY <1>6, <1>7, NormalClock, NormalDate
<1>9. resetAllFields(a, {"tm_mon"}) = u
  BY ResetIs DEF u, c
<1> HIDE DEF u
<1>10. t["tm_year"] = t.tm_year
  OBVIOUS
<1> QED  BY <1>2, <1>3, <1>5, <1>6, <1>8, <1>9, <1>10 DEF SameClock

\* A month that is set, and the fields that are cleared.
LEMMA MonthPlaced ==
  ASSUME NEW t, IsTm(t), NEW v \in Nat, v <= 11,
         NEW marked \in SUBSET (ClockFields \cup {"tm_mday"})
  PROVE  LET r == resetAllFields(setField(t, "tm_mon", v), marked)
         IN  /\ IsTm(r) /\ r.tm_year = t.tm_year /\ v <= r.tm_mon
             /\ t.tm_mday <= 28 => r.tm_mon = v
             /\ "tm_mday" \in marked => r.tm_mday = 1
             /\ r.tm_sec = IF "tm_sec" \in marked THEN 0 ELSE t.tm_sec
             /\ r.tm_min = IF "tm_min" \in marked THEN 0 ELSE t.tm_min
             /\ r.tm_hour = IF "tm_hour" \in marked THEN 0 ELSE t.tm_hour
<1> DEFINE s == [t EXCEPT !["tm_mon"] = v]
           n == Normal(s)
           u == Cleared(n, marked)
           r == Normal(u)
<1>0. /\ "tm_mon" \in Fields \cup {"tm_year"} /\ marked \in SUBSET Fields
      /\ "tm_mon" \notin marked
  BY DEF Fields, ClockFields
<1>1. ClockTm(t)
  BY TmIsClock
<1>2. /\ RawTm(s) /\ SameClock(s, t) /\ s.tm_mday = t.tm_mday
      /\ s.tm_mon = v /\ s.tm_year = t.tm_year
  BY <1>0, <1>1, FieldSet DEF ClockTm, SameClock
<1>3. setField(t, "tm_mon", v) = n
  BY DEF setField
<1> HIDE DEF s
<1>4. ClockTm(s) /\ 1 <= s.tm_mday /\ s.tm_mday <= 31
  BY <1>1, <1>2, MdayOfTm DEF ClockTm, SameClock
<1>5. /\ IsTm(n) /\ SameClock(n, s) /\ n.tm_year = s.tm_year /\ s.tm_mon <= n.tm_mon
      /\ s.tm_mday <= 28 => n.tm_mon = s.tm_mon
  BY <1>4, NormalMonth
<1> HIDE DEF n
<1>6. /\ ClockTm(u)
      /\ u.tm_sec = IF "tm_sec" \in marked THEN 0 ELSE n.tm_sec
      /\ u.tm_min = IF "tm_min" \in marked THEN 0 ELSE n.tm_min
      /\ u.tm_hour = IF "tm_hour" \in marked THEN 0 ELSE n.tm_hour
      /\ u.tm_mday = IF "tm_mday" \in marked THEN 1 ELSE n.tm_mday
      /\ u.tm_mon = n.tm_mon /\ u.tm_year = n.tm_year
  <2>1. ClockTm(n)
    BY <1>5, TmIsClock
  <2> QED  BY <1>0, <2>1, ClearedIs
<1> HIDE DEF u
<1>7. IsCivil(u.tm_year, u.tm_mon + 1, u.tm_mday)
  <2>1. IsCivil(n.tm_year, n.tm_mon + 1, n.tm_mday)
    BY <1>5 DEF IsTm
  <2>2. 28 <= DaysIn(n.tm_year, n.tm_mon + 1) /\ DaysIn(n.tm_year, n.tm_mon + 1) \in Int
    BY MonthLengths
  <2> QED  BY <1>6, <2>1, <2>2 DEF IsCivil
<1>8. /\ IsTm(r) /\ SameClock(r, u)
      /\ r.tm_year = u.tm_year /\ r.tm_mon = u.tm_mon /\ r.tm_mday = u.tm_mday
  BY <1>6, <1>7, NormalClock, NormalDate
<1>9. resetAllFields(n, marked) = r
  BY ResetIs DEF u
<1> HIDE DEF r
<1> QED  BY <1>2, <1>3, <1>5, <1>6, <1>8, <1>9 DEF SameClock

\* The days from t to the first of a later month, by their month.
LEMMA MonthsBetween ==
  ASSUME NEW t, IsTm(t), NEW r, IsTm(r), r.tm_mday = 1,
         NEW d \in Int, DayOfTm(t) <= d, d < DayOfTm(r)
  PROVE  /\ MonthNo(t.tm_year, t.tm_mon + 1)
              <= MonthNo(CivilOf(d).year, CivilOf(d).month)
         /\ MonthNo(CivilOf(d).year, CivilOf(d).month)
              < MonthNo(r.tm_year, r.tm_mon + 1)
<1>1. PICK y, m, a : /\ IsCivil(y, m, a) /\ DayOf(y, m, a) = d
                     /\ CivilOf(d).year = y /\ CivilOf(d).month = m
  BY CivilOfIs
<1>2. PICK y1, m1, a1 : /\ IsCivil(y1, m1, a1) /\ DayOf(y1, m1, a1) = DayOfTm(t)
                        /\ y1 = t.tm_year /\ m1 = t.tm_mon + 1
  BY DEF IsTm, DayOfTm
<1>3. PICK y2, m2 : /\ IsCivil(y2, m2, 1) /\ DayOf(y2, m2, 1) = DayOfTm(r)
                    /\ y2 = r.tm_year /\ m2 = r.tm_mon + 1
  BY DEF IsTm, DayOfTm
<1>4. DayOfTm(t) \in Int /\ DayOfTm(r) \in Int
  BY InstantInt DEF IsTm
<1>5. MonthNo(y, m) \in Int /\ MonthNo(y1, m1) \in Int /\ MonthNo(y2, m2) \in Int
  BY <1>1, <1>2, <1>3 DEF MonthNo, IsCivil
<1>6. MonthNo(y1, m1) <= MonthNo(y, m)
  <2>1. ~(MonthNo(y, m) < MonthNo(y1, m1))
    BY <1>1, <1>2, <1>4, MonthsInOrder
  <2> QED  BY <1>5, <2>1
<1>7. MonthNo(y, m) < MonthNo(y2, m2)
  <2>1. ~(MonthNo(y2, m2) < MonthNo(y, m))
    BY <1>1, <1>3, <1>4, MonthsInOrder
  <2>2. ASSUME MonthNo(y, m) = MonthNo(y2, m2)
        PROVE  FALSE
    <3>1. y = y2 /\ m = m2
      BY <1>1, <1>3, <2>2 DEF MonthNo, IsCivil
    <3>2. a \in Int /\ 1 <= a /\ a <= DaysIn(y2, m2)
      BY <1>1, <3>1 DEF IsCivil
    <3>3. DayOf(y2, m2, a) = DayOf(y2, m2, 1) + (a - 1)
      BY <1>3, <3>2, WithinMonth
    <3> QED  BY <1>1, <1>3, <1>4, <3>1, <3>2, <3>3
  <2> QED  BY <1>5, <2>1, <2>2
<1> QED  BY <1>1, <1>2, <1>3, <1>6, <1>7

\* A month that is not in its set moves to the next one that is, or past it
\* when it has not the day at hand.
LEMMA MonthMoved ==
  ASSUME NEW S, FieldIs(S, 0, 11), NEW t, IsTm(t), t.tm_mon \notin S,
         NEW marked \in SUBSET (ClockFields \cup {"tm_mday"})
  PROVE  LET r == Moved(S, t, "tm_mon", "tm_year", marked)
         IN  /\ IsTm(r) /\ DayOfTm(t) < DayOfTm(r)
             /\ r.tm_sec = IF "tm_sec" \in marked THEN 0 ELSE t.tm_sec
             /\ r.tm_min = IF "tm_min" \in marked THEN 0 ELSE t.tm_min
             /\ r.tm_hour = IF "tm_hour" \in marked THEN 0 ELSE t.tm_hour
             /\ t.tm_mday <= 28 /\ "tm_mday" \in marked =>
                  \A d \in Int : DayOfTm(t) <= d /\ d < DayOfTm(r)
                                   => CivilOf(d).month - 1 \notin S
<1> DEFINE v == t.tm_mon
           next == Following(S, v)
           u == Carried(S, t, "tm_mon", "tm_year")
           r == resetAllFields(setField(u, "tm_mon", next), marked)
<1>1. v \in Int /\ v = t["tm_mon"] /\ 0 <= v /\ v <= 11 /\ t.tm_year \in Int
  BY MdayOfTm
<1>2. Moved(S, t, "tm_mon", "tm_year", marked) = r
  BY <1>1, MovedIs
<1>3. /\ next \in S /\ next \in Nat
      /\ ~Wraps(S, v) => /\ v < next /\ \A w \in S : v <= w => next <= w
      /\ Wraps(S, v) => \A w \in S : w < v /\ next <= w
  BY <1>1, FollowingIs
<1>4. next <= 11
  BY <1>3 DEF FieldIs
<1>5. /\ IsTm(u) /\ SameClock(u, t)
      /\ u.tm_year = IF Wraps(S, v) THEN t.tm_year + 1 ELSE t.tm_year
      /\ t.tm_mday <= 28 => u.tm_mday <= 28
  BY <1>1, YearAfter DEF Carried, SameClock
<1> HIDE DEF u, next
<1>6. /\ IsTm(r) /\ r.tm_year = u.tm_year /\ next <= r.tm_mon
      /\ u.tm_mday <= 28 => r.tm_mon = next
      /\ "tm_mday" \in marked => r.tm_mday = 1
      /\ r.tm_sec = IF "tm_sec" \in marked THEN 0 ELSE u.tm_sec
      /\ r.tm_min = IF "tm_min" \in marked THEN 0 ELSE u.tm_min
      /\ r.tm_hour = IF "tm_hour" \in marked THEN 0 ELSE u.tm_hour
  BY <1>3, <1>4, <1>5, MonthPlaced
<1> HIDE DEF r, v
<1>7. DayOfTm(t) < DayOfTm(r)
  <2>1. r.tm_mon \in Int /\ 0 <= r.tm_mon /\ r.tm_year \in Int
    BY <1>6, MdayOfTm
  <2>2. MonthNo(t.tm_year, t.tm_mon + 1) < MonthNo(r.tm_year, r.tm_mon + 1)
    <3>1. CASE Wraps(S, v)
      BY <1>1, <1>5, <1>6, <2>1, <3>1 DEF MonthNo, v
    <3>2. CASE ~Wraps(S, v)
      BY <1>1, <1>3, <1>5, <1>6, <2>1, <3>2 DEF MonthNo, v
    <3> QED  BY <3>1, <3>2
  <2>3. /\ IsCivil(t.tm_year, t.tm_mon + 1, t.tm_mday)
        /\ IsCivil(r.tm_year, r.tm_mon + 1, r.tm_mday)
    BY <1>6 DEF IsTm
  <2> QED  BY <2>2, <2>3, MonthsInOrder DEF DayOfTm
<1>8. ASSUME t.tm_mday <= 28, "tm_mday" \in marked,
             NEW d \in Int, DayOfTm(t) <= d, d < DayOfTm(r)
      PROVE  CivilOf(d).month - 1 \notin S
  <2>1. r.tm_mon = next /\ r.tm_mday = 1
    BY <1>5, <1>6, <1>8
  <2>2. PICK y \in Int, m \in Int :
          /\ y = CivilOf(d).year /\ m = CivilOf(d).month /\ 1 <= m /\ m <= 12
    BY CivilOfIs DEF IsCivil
  <2>3. /\ MonthNo(t.tm_year, t.tm_mon + 1) <= MonthNo(y, m)
        /\ MonthNo(y, m) < MonthNo(r.tm_year, r.tm_mon + 1)
    BY <1>6, <1>8, <2>1, <2>2, MonthsBetween
  <2>4. PICK ty \in Int : ty = t.tm_year
    BY <1>1
  <2>5. CASE ~Wraps(S, v)
    <3>1. ty * 12 + v + 1 <= y * 12 + m /\ y * 12 + m < ty * 12 + next + 1
      <4>1. r.tm_year = ty
        BY <1>5, <1>6, <2>4, <2>5
      <4>2. MonthNo(r.tm_year, r.tm_mon + 1) = ty * 12 + next + 1
        BY <1>3, <2>1, <2>4, <4>1 DEF MonthNo
      <4>3. MonthNo(t.tm_year, t.tm_mon + 1) = ty * 12 + v + 1
        BY <1>1, <2>4 DEF MonthNo, v
      <4>4. MonthNo(y, m) = y * 12 + m
        BY DEF MonthNo
      <4> QED  BY <2>3, <4>2, <4>3, <4>4
    <3>2. v <= m - 1 /\ m - 1 < next
      BY <1>1, <1>3, <1>4, <2>2, <3>1
    <3>3. m - 1 \notin S
      BY <1>3, <2>5, <3>2
    <3> QED  BY <2>2, <3>3
  <2>6. CASE Wraps(S, v)
    <3>1. ty * 12 + v + 1 <= y * 12 + m /\ y * 12 + m < (ty + 1) * 12 + next + 1
      <4>1. r.tm_year = ty + 1
        BY <1>5, <1>6, <2>4, <2>6
      <4>2. MonthNo(r.tm_year, r.tm_mon + 1) = (ty + 1) * 12 + next + 1
        BY <1>3, <2>1, <2>4, <4>1 DEF MonthNo
      <4>3. MonthNo(t.tm_year, t.tm_mon + 1) = ty * 12 + v + 1
        BY <1>1, <2>4 DEF MonthNo, v
      <4>4. MonthNo(y, m) = y * 12 + m
        BY DEF MonthNo
      <4> QED  BY <2>3, <4>2, <4>3, <4>4
    <3>2. v <= m - 1 \/ m - 1 < next
      BY <1>1, <1>3, <1>4, <2>2, <3>1
    <3>3. m - 1 \notin S
      BY <1>1, <1>3, <2>2, <2>6, <3>2
    <3> QED  BY <2>2, <3>3
  <2> QED  BY <2>5, <2>6
<1>9. v \in Int
  BY <1>1
<1> QED  BY <1>2, <1>5, <1>6, <1>7, <1>8 DEF SameClock
-----------------------------------------------------------------------------
\* The ranges of makeRange have numbers of eight bits.
LEMMA RangeIs ==
  ASSUME NEW item \in CronItem, NEW min \in Nat, NEW max \in Nat, max <= 255
  PROVE  /\ RangeOf(item, min, max)[1] \in Int /\ RangeOf(item, min, max)[2] \in Int
<1>1. item.kind \in {"star", "one", "range"} /\ item.lo \in Nat /\ item.hi \in Nat
  BY DEF CronItem
<1>2. item.lo % 256 \in Int /\ item.hi % 256 \in Int
  BY <1>1
<1> QED  BY <1>1, <1>2 DEF RangeOf

\* The items of a field set at least one bit, and no bit out of the field.
LEMMA ItemBitsAre ==
  ASSUME NEW item \in CronItem, NEW min \in Nat, NEW max \in Nat, max <= 255,
         ValidItem(item, min, max)
  PROVE  FieldIs(ItemBits(item, min, max), min, max)
<1> DEFINE r    == RangeOf(item, min, max)
           last == IF item.step > 0 /\ item.kind # "range" THEN max ELSE r[2]
           by   == IF item.step > 0 THEN item.step % 256 ELSE 1
           BitAt(n) == (r[1] - min + n * by) % 256
           K    == 0 .. 255
<1>1. /\ r[1] \in Int /\ r[2] \in Int
      /\ min <= r[1] /\ r[1] <= r[2] /\ r[2] <= max
  BY RangeIs DEF ValidItem
<1>2. last \in Int /\ r[1] <= last /\ last <= max
  BY <1>1
<1>3. by \in Int
  <2>1. item.step \in Nat
    BY DEF CronItem
  <2>2. item.step % 256 \in Int
    BY <2>1
  <2> QED  BY <2>2
<1>4. K \in SUBSET Nat /\ 0 \in K
  OBVIOUS
<1>5. ItemBits(item, min, max)
        = {BitAt(n) + min : n \in {k \in K : \A i \in 0 .. k : BitAt(i) <= last - min}}
  BY DEF ItemBits
<1> HIDE DEF r, by, last, K
<1>6. ASSUME NEW n \in Nat
      PROVE  BitAt(n) \in Nat
  <2>1. n * by \in Int
    BY <1>3
  <2>2. r[1] - min + n * by \in Int
    BY <1>1, <2>1
  <2> QED  BY <2>2
<1>7. BitAt(0) = r[1] - min
  <2>1. 0 * by = 0
    BY <1>3
  <2>2. r[1] - min + 0 * by = r[1] - min /\ r[1] - min \in Nat /\ r[1] - min <= 255
    BY <1>1, <2>1
  <2>3. PICK a \in Nat : a = r[1] - min + 0 * by /\ a <= 255
    BY <2>2
  <2>4. a % 256 = a
    BY <2>3
  <2> QED  BY <2>2, <2>3, <2>4
<1>8. BitAt(0) <= last - min
  BY <1>1, <1>2, <1>7
<1> HIDE DEF BitAt
<1>9. BitAt(0) + min \in ItemBits(item, min, max)
  <2>1. \A i \in 0 .. 0 : BitAt(i) <= last - min
    <3>1. \A i \in 0 .. 0 : i = 0
      OBVIOUS
    <3> QED  BY <1>8, <3>1
  <2> QED  BY <1>4, <1>5, <2>1
<1>10. ASSUME NEW b \in ItemBits(item, min, max)
       PROVE  b \in Nat /\ min <= b /\ b <= max
  <2>1. PICK n \in K : b = BitAt(n) + min /\ \A i \in 0 .. n : BitAt(i) <= last - min
    BY <1>5
  <2>2. n \in Nat /\ n \in 0 .. n
    BY <1>4
  <2>3. BitAt(n) \in Nat /\ BitAt(n) <= last - min
    BY <1>6, <2>1, <2>2
  <2> QED  BY <1>2, <2>1, <2>3
<1> QED  BY <1>9, <1>10 DEF FieldIs

\* A field that makecron takes has values, all of them in its range.
LEMMA FieldBitsAre ==
  ASSUME NEW items \in Seq(CronItem), NEW min \in Nat, NEW max \in Nat, max <= 255,
         ValidField(items, min, max)
  PROVE  FieldIs(FieldBits(items, min, max), min, max)
<1>1. \A i \in DOMAIN items : FieldIs(ItemBits(items[i], min, max), min, max)
  <2> TAKE i \in DOMAIN items
  <2>1. items[i] \in CronItem /\ ValidItem(items[i], min, max)
    BY DEF ValidField
  <2> QED  BY <2>1, ItemBitsAre
<1>2. 1 \in DOMAIN items
  <2>1. items # <<>>
    BY DEF ValidField
  <2>2. DOMAIN items = 1 .. Len(items) /\ Len(items) \in Nat /\ Len(items) # 0
    BY <2>1
  <2> QED  BY <2>2
<1>3. PICK b : b \in ItemBits(items[1], min, max)
  BY <1>1, <1>2 DEF FieldIs
<1>4. b \in FieldBits(items, min, max)
  BY <1>2, <1>3 DEF FieldBits
<1>5. ASSUME NEW a \in FieldBits(items, min, max)
      PROVE  a \in Nat /\ min <= a /\ a <= max
  <2>1. PICK i \in DOMAIN items : a \in ItemBits(items[i], min, max)
    BY DEF FieldBits
  <2> QED  BY <1>1, <2>1 DEF FieldIs
<1> QED  BY <1>4, <1>5 DEF FieldIs

\* What makecron makes of an expression it takes.
LEMMA MakecronOk ==
  ASSUME NEW e \in CronExpression, Makes(e)
  PROVE  CronOk(makecron(e)) /\ makecron(e).isset
<1>1. /\ e.seconds \in Seq(CronItem) /\ e.minutes \in Seq(CronItem)
      /\ e.hours \in Seq(CronItem) /\ e.days_of_month \in Seq(CronItem)
      /\ e.months \in Seq(CronItem) /\ e.days_of_week \in Seq(CronItem)
  BY DEF CronExpression
<1>2. /\ FieldIs(FieldBits(e.seconds, 0, 59), 0, 59)
      /\ FieldIs(FieldBits(e.minutes, 0, 59), 0, 59)
  <2>1. ValidField(e.seconds, 0, 59) /\ ValidField(e.minutes, 0, 59)
    BY DEF Makes
  <2> QED  BY <1>1, <2>1, FieldBitsAre
<1>3. FieldIs(FieldBits(e.hours, 0, 23), 0, 23)
  <2>1. ValidField(e.hours, 0, 23)
    BY DEF Makes
  <2> QED  BY <1>1, <2>1, FieldBitsAre
<1>4. FieldIs(FieldBits(e.days_of_month, 1, 31), 1, 31)
  <2>1. ValidField(e.days_of_month, 1, 31)
    BY DEF Makes
  <2> QED  BY <1>1, <2>1, FieldBitsAre
<1>5. FieldIs(FieldBits(e.days_of_week, 0, 6), 0, 6)
  <2>1. ValidField(e.days_of_week, 0, 6)
    BY DEF Makes
  <2> QED  BY <1>1, <2>1, FieldBitsAre
<1>6. FieldIs({m - 1 : m \in FieldBits(e.months, 1, 12)}, 0, 11)
  <2>1. ValidField(e.months, 1, 12)
    BY DEF Makes
  <2>2. FieldIs(FieldBits(e.months, 1, 12), 1, 12)
    BY <1>1, <2>1, FieldBitsAre
  <2> QED  BY <2>2 DEF FieldIs
<1> QED  BY <1>2, <1>3, <1>4, <1>5, <1>6 DEF CronOk, makecron

\* The start times are normal.
LEMMA StartIsTm ==
  ASSUME NEW t, StructTm(t)
  PROVE  IsTm(t)
<1>1. ClockTm(t)
  BY DEF StructTm, ClockTm, RawTm
<1>2. Normal(t) = t
  BY DEF StructTm
<1> QED  BY <1>1, <1>2, NormalClock
-----------------------------------------------------------------------------
\* The fields findNext has looked at when it is at pc.
Past(pc) ==
  CASE pc = "second" -> {}
    [] pc = "minute" -> {"tm_sec"}
    [] pc = "hour"   -> {"tm_sec", "tm_min"}
    [] pc = "day"    -> ClockFields
    [] pc = "month"  -> ClockFields \cup {"tm_mday"}
    [] pc = "return" -> Fields

\* A field, or the day for tm_mday, is in its set.
InSet(c, t, field) ==
  CASE field = "tm_sec"  -> t.tm_sec \in c.seconds
    [] field = "tm_min"  -> t.tm_min \in c.minutes
    [] field = "tm_hour" -> t.tm_hour \in c.hours
    [] field = "tm_mday" -> DayMatches(c, DayOfTm(t))
    [] field = "tm_mon"  -> t.tm_mon \in c.months

AllIn(c, t, S) == \A field \in S : InSet(c, t, field)

\* A time matches when all fields are in their sets.
LEMMA MatchesAll ==
  ASSUME NEW c, NEW t
  PROVE  Matches(c, t) <=> AllIn(c, t, Fields)
BY DEF Matches, AllIn, Fields, InSet

\* Where findNext looks for the next value.
SetAt(c, pc) ==
  CASE pc = "second" -> c.seconds [] pc = "minute" -> c.minutes
    [] pc = "hour" -> c.hours [] pc = "month" -> c.months
NextAt(pc) ==
  CASE pc = "second" -> "tm_min" [] pc = "minute" -> "tm_hour"
    [] pc = "hour" -> "tm_mday" [] pc = "month" -> "tm_year"

\* The struct tm after the search at pc.
MoveAt(c, t, pc, marked) ==
  IF pc = "day" THEN findNextDay(c, t, marked)
  ELSE Moved(SetAt(c, pc), t, Field[pc], NextAt(pc), marked)

Searched == {"second", "minute", "hour", "day", "month"}

\* The fields passed at each place of findNext.
LEMMA PastIs ==
  /\ Past("second") = {} /\ Past("minute") = {"tm_sec"}
  /\ Past("hour") = {"tm_sec", "tm_min"} /\ Past("day") = ClockFields
  /\ Past("month") = ClockFields \cup {"tm_mday"} /\ Past("return") = Fields
BY DEF Past

\* The search of each place of findNext.
LEMMA MoveAtIs ==
  ASSUME NEW c, NEW t, NEW marked
  PROVE  /\ MoveAt(c, t, "second", marked) = Moved(c.seconds, t, "tm_sec", "tm_min", marked)
         /\ MoveAt(c, t, "minute", marked) = Moved(c.minutes, t, "tm_min", "tm_hour", marked)
         /\ MoveAt(c, t, "hour", marked) = Moved(c.hours, t, "tm_hour", "tm_mday", marked)
         /\ MoveAt(c, t, "day", marked) = findNextDay(c, t, marked)
         /\ MoveAt(c, t, "month", marked) = Moved(c.months, t, "tm_mon", "tm_year", marked)
BY DEF MoveAt, SetAt, NextAt, Field

\* A search that finds its field in place moves nothing.
LEMMA NoMove ==
  ASSUME NEW c, CronOk(c), FreeDay(c), NEW t, IsTm(t), NEW pc \in Searched,
         InSet(c, t, Field[pc]), NEW marked \in SUBSET Past(pc)
  PROVE  MoveAt(c, t, pc, marked) = t
<1>1. RawTm(t)
  BY DEF IsTm
<1>2. /\ t.tm_sec \in Int /\ t.tm_min \in Int /\ t.tm_hour \in Int /\ t.tm_mon \in Int
  BY <1>1 DEF RawTm
<1>3. CASE pc = "second"
  <2>1. t["tm_sec"] \in c.seconds /\ FieldIs(c.seconds, 0, 59)
    BY <1>3 DEF InSet, Field, CronOk
  <2> QED  BY <1>2, <1>3, <2>1, MovedIs, MoveAtIs
<1>4. CASE pc = "minute"
  <2>1. t["tm_min"] \in c.minutes /\ FieldIs(c.minutes, 0, 59)
    BY <1>4 DEF InSet, Field, CronOk
  <2> QED  BY <1>2, <1>4, <2>1, MovedIs, MoveAtIs
<1>5. CASE pc = "hour"
  <2>1. t["tm_hour"] \in c.hours /\ FieldIs(c.hours, 0, 23)
    BY <1>5 DEF InSet, Field, CronOk
  <2> QED  BY <1>2, <1>5, <2>1, MovedIs, MoveAtIs
<1>6. CASE pc = "day"
  <2>1. DayMatches(c, DayOfTm(t)) /\ marked \in SUBSET ClockFields
    BY <1>6, PastIs DEF InSet, Field
  <2> QED  BY <1>6, <2>1, DayMoved, MoveAtIs
<1>7. CASE pc = "month"
  <2>1. t["tm_mon"] \in c.months /\ FieldIs(c.months, 0, 11)
    BY <1>7 DEF InSet, Field, CronOk
  <2> QED  BY <1>2, <1>7, <2>1, MovedIs, MoveAtIs
<1> QED  BY <1>3, <1>4, <1>5, <1>6, <1>7 DEF Searched

\* A later day is a later instant.
LEMMA LaterDay ==
  ASSUME NEW s, NEW t, IsTm(s), IsTm(t), DayOfTm(s) < DayOfTm(t)
  PROVE  Instant(s) < Instant(t)
<1>1. /\ Parts(Instant(s), DayOfTm(s), s.tm_hour, s.tm_min, s.tm_sec)
      /\ Parts(Instant(t), DayOfTm(t), t.tm_hour, t.tm_min, t.tm_sec)
  BY InstantParts
<1> QED  BY <1>1 DEF Parts

\* What a search that moves its field does.
LEMMA Moves ==
  ASSUME NEW c, CronOk(c), FreeDay(c), NEW t, IsTm(t), NEW pc \in Searched,
         ~InSet(c, t, Field[pc]), NEW marked \in SUBSET Past(pc)
  PROVE  LET r == MoveAt(c, t, pc, marked)
         IN  /\ IsTm(r) /\ Instant(t) < Instant(r)
             /\ pc = "second" => r.tm_sec \in c.seconds
             /\ pc = "day" => r.tm_mday # t.tm_mday
<1>1. CASE pc = "second"
  <2>1. FieldIs(c.seconds, 0, LastOf("tm_sec"))
    BY DEF CronOk, LastOf
  <2>2. Value("tm_sec", t) \notin c.seconds
    BY <1>1 DEF InSet, Field, Value, ValueOf
  <2>3. marked \in SUBSET Below("tm_sec") /\ NextOf("tm_sec") = "tm_min"
    BY <1>1, PastIs DEF Below, NextOf
  <2>4. "tm_sec" \in ClockFields
    BY DEF ClockFields
  <2>5. PICK r : r = Moved(c.seconds, t, "tm_sec", "tm_min", marked)
    OBVIOUS
  <2>6. IsTm(r) /\ Value("tm_sec", r) \in c.seconds /\ Instant(t) < Instant(r)
    BY <2>1, <2>2, <2>3, <2>4, <2>5, ClockMoved
  <2>7. r.tm_sec \in c.seconds
    BY <2>6 DEF Value, ValueOf
  <2> QED  BY <1>1, <2>5, <2>6, <2>7, MoveAtIs
<1>2. CASE pc = "minute"
  <2>1. FieldIs(c.minutes, 0, LastOf("tm_min"))
    BY DEF CronOk, LastOf
  <2>2. Value("tm_min", t) \notin c.minutes
    BY <1>2 DEF InSet, Field, Value, ValueOf
  <2>3. marked \in SUBSET Below("tm_min") /\ NextOf("tm_min") = "tm_hour"
    BY <1>2, PastIs DEF Below, NextOf
  <2>4. "tm_min" \in ClockFields
    BY DEF ClockFields
  <2>5. PICK r : r = Moved(c.minutes, t, "tm_min", "tm_hour", marked)
    OBVIOUS
  <2>6. IsTm(r) /\ Instant(t) < Instant(r)
    BY <2>1, <2>2, <2>3, <2>4, <2>5, ClockMoved
  <2> QED  BY <1>2, <2>5, <2>6, MoveAtIs
<1>3. CASE pc = "hour"
  <2>1. FieldIs(c.hours, 0, LastOf("tm_hour"))
    BY DEF CronOk, LastOf
  <2>2. Value("tm_hour", t) \notin c.hours
    BY <1>3 DEF InSet, Field, Value, ValueOf
  <2>3. marked \in SUBSET Below("tm_hour") /\ NextOf("tm_hour") = "tm_mday"
    BY <1>3, PastIs DEF Below, NextOf
  <2>4. "tm_hour" \in ClockFields
    BY DEF ClockFields
  <2>5. PICK r : r = Moved(c.hours, t, "tm_hour", "tm_mday", marked)
    OBVIOUS
  <2>6. IsTm(r) /\ Instant(t) < Instant(r)
    BY <2>1, <2>2, <2>3, <2>4, <2>5, ClockMoved
  <2> QED  BY <1>3, <2>5, <2>6, MoveAtIs
<1>4. CASE pc = "day"
  <2>1. ~DayMatches(c, DayOfTm(t)) /\ marked \in SUBSET ClockFields
    BY <1>4, PastIs DEF InSet, Field
  <2>2. PICK r : r = findNextDay(c, t, marked)
    OBVIOUS
  <2>3. IsTm(r) /\ DayOfTm(t) < DayOfTm(r) /\ r.tm_mday # t.tm_mday
    BY <2>1, <2>2, DayMoved
  <2> QED  BY <1>4, <2>2, <2>3, LaterDay, MoveAtIs
<1>5. CASE pc = "month"
  <2>1. /\ t.tm_mon \notin c.months /\ marked \in SUBSET (ClockFields \cup {"tm_mday"})
        /\ FieldIs(c.months, 0, 11)
    BY <1>5, PastIs DEF InSet, Field, CronOk
  <2>2. PICK r : r = Moved(c.months, t, "tm_mon", "tm_year", marked)
    OBVIOUS
  <2>3. IsTm(r) /\ DayOfTm(t) < DayOfTm(r)
    BY <2>1, <2>2, MonthMoved
  <2> QED  BY <1>5, <2>2, <2>3, LaterDay, MoveAtIs
<1> QED  BY <1>1, <1>2, <1>3, <1>4, <1>5 DEF Searched
-----------------------------------------------------------------------------
\* A call of findNext: it has marked fields it looked at.
IsFrame(f) ==
  /\ f \in [at : Searched \cup {"return"}, marked : SUBSET Fields]
  /\ f.marked \subseteq Past(f.at)
Frames == {f \in [at : Searched \cup {"return"}, marked : SUBSET Fields] : IsFrame(f)}

\* nextcron is at work or done.
InSearch == cronRes \in {"busy", "found"}

\* The time moves forward from the one given, through normal times; the
\* fields that the innermost call went past are in their sets, and all of
\* them are when the first call has returned.
Searching ==
  /\ IsTm(tmt) /\ IsTm(cronFrom) /\ Instant(cronFrom) <= Instant(tmt)
  /\ frames \in Seq(Frames)
  /\ frames # <<>> => AllIn(cron, tmt, Past(Head(frames).at))
  /\ frames = <<>> => Matches(cron, tmt)
  /\ cronRes = "found" => frames = <<>> /\ tmt # cronFrom

CronInv ==
  /\ cron.isset => CronOk(cron)
  /\ InSearch => cron.isset
  /\ InSearch /\ FreeDay(cron) => Searching

\* The stack after a call went on, or made another one.
LEMMA FramesPushed ==
  ASSUME NEW A, NEW fs \in Seq(A), fs # <<>>, NEW f \in A, NEW g \in A
  PROVE  /\ <<>> \o <<f>> \o Tail(fs) \in Seq(A) /\ <<>> \o <<f>> \o Tail(fs) # <<>>
         /\ Head(<<>> \o <<f>> \o Tail(fs)) = f
         /\ <<g>> \o <<f>> \o Tail(fs) \in Seq(A) /\ <<g>> \o <<f>> \o Tail(fs) # <<>>
         /\ Head(<<g>> \o <<f>> \o Tail(fs)) = g
         /\ Tail(fs) \in Seq(A) /\ Head(fs) \in A
<1>1. Tail(fs) \in Seq(A) /\ Head(fs) \in A
  OBVIOUS
<1>2. PICK ts \in Seq(A) : ts = Tail(fs)
  BY <1>1
<1>3. ASSUME NEW h \in Seq(A), NEW s \in Seq(A), h # <<>>
      PROVE  h \o s \in Seq(A) /\ h \o s # <<>> /\ Head(h \o s) = Head(h)
  BY <1>3
<1>4. <<>> \in Seq(A) /\ <<f>> \in Seq(A) /\ <<g>> \in Seq(A) /\ <<g>> # <<>>
      /\ Head(<<f>>) = f /\ Head(<<g>>) = g /\ <<f>> # <<>>
  OBVIOUS
<1>5. PICK p \in Seq(A) : p = <<>> \o <<f>> /\ p # <<>> /\ Head(p) = f
  <2>1. \A s \in Seq(A) : <<>> \o s = s
    OBVIOUS
  <2> QED  BY <1>4, <2>1
<1>6. PICK q \in Seq(A) : q = <<g>> \o <<f>> /\ q # <<>> /\ Head(q) = g
  BY <1>3, <1>4
<1>7. p \o ts \in Seq(A) /\ p \o ts # <<>> /\ Head(p \o ts) = f
  BY <1>3, <1>5
<1>8. q \o ts \in Seq(A) /\ q \o ts # <<>> /\ Head(q \o ts) = g
  BY <1>3, <1>6
<1> QED  BY <1>1, <1>2, <1>5, <1>6, <1>7, <1>8

\* The innermost call at pc found its field in place.
InPlace(pc) ==
  /\ InSet(cron, tmt, Field[pc])
  /\ tmt' = tmt
  /\ frames' = <<>> \o <<[at |-> After[pc], marked |-> Marked \cup {Field[pc]}]>>
                 \o Tail(frames)
  /\ UNCHANGED <<cron, cronFrom, dot, cronRes>>

\* The innermost call at pc moved its field, and calls findNext unless the
\* field is the second.
OutOfPlace(pc) ==
  /\ ~InSet(cron, tmt, Field[pc])
  /\ tmt' = MoveAt(cron, tmt, pc, Marked)
  /\ frames' = (IF pc = "second" THEN <<>> ELSE <<Frame>>)
                 \o <<[at |-> After[pc], marked |-> Marked \cup {}]>> \o Tail(frames)
  /\ UNCHANGED <<cron, cronFrom, dot, cronRes>>

Find(pc) == At(pc) /\ (InPlace(pc) \/ OutOfPlace(pc))

\* What the head of the stack has marked.
LEMMA HeadIs ==
  ASSUME Searching, frames # <<>>
  PROVE  /\ Head(frames) \in Frames /\ Head(frames).marked \subseteq Fields
         /\ Marked \subseteq Past(Head(frames).at)
         /\ Tail(frames) \in Seq(Frames)
<1>1. Head(frames) \in Frames /\ Tail(frames) \in Seq(Frames)
  BY FramesPushed DEF Searching
<1> QED  BY <1>1 DEF Frames, IsFrame, Marked

\* The fields past the next place are those past this one, and its own.
LEMMA PastAfter ==
  ASSUME NEW pc \in Searched
  PROVE  /\ Past(After[pc]) = Past(pc) \cup {Field[pc]}
         /\ After[pc] \in Searched \cup {"return"}
         /\ pc # "second" => After[pc] # "minute"
         /\ Past(pc) \subseteq Fields /\ Field[pc] \in Fields
<1>1. After[pc] = CASE pc = "second" -> "minute" [] pc = "minute" -> "hour"
                    [] pc = "hour" -> "day" [] pc = "day" -> "month"
                    [] pc = "month" -> "return"
  BY DEF After, Searched
<1>2. Field[pc] = CASE pc = "second" -> "tm_sec" [] pc = "minute" -> "tm_min"
                    [] pc = "hour" -> "tm_hour" [] pc = "day" -> "tm_mday"
                    [] pc = "month" -> "tm_mon"
  BY DEF Field, Searched
<1>3. Past(After[pc]) = Past(pc) \cup {Field[pc]}
  BY <1>1, <1>2, PastIs DEF Searched, ClockFields, Fields
<1>4. After[pc] \in Searched \cup {"return"} /\ (pc # "second" => After[pc] # "minute")
  BY <1>1 DEF Searched
<1>5. Past(pc) \subseteq Fields /\ Field[pc] \in Fields
  BY <1>2, PastIs DEF Searched, ClockFields, Fields
<1> QED  BY <1>3, <1>4, <1>5

\* The two outcomes of a search keep what is said of it.
LEMMA FindKeeps ==
  ASSUME CronOk(cron), FreeDay(cron), Searching, NEW pc \in Searched, Find(pc)
  PROVE  Searching'
<1>1. frames # <<>> /\ Head(frames).at = pc /\ cronRes = "busy"
  BY DEF Find, At
<1>2. Marked \subseteq Past(pc) /\ Tail(frames) \in Seq(Frames) /\ frames \in Seq(Frames)
  BY <1>1, HeadIs DEF Searching
<1>3. /\ UNCHANGED <<cron, cronFrom, cronRes>>
  BY DEF Find, InPlace, OutOfPlace
<1>4. Frame \in Frames /\ Frame.at = "second" /\ Past("second") = {}
  BY PastIs DEF Frame, Frames, IsFrame, Searched
<1>5. ASSUME NEW m, m \subseteq Past(After[pc])
      PROVE  [at |-> After[pc], marked |-> m] \in Frames
  BY <1>5, PastAfter DEF Frames, IsFrame
<1>6. CASE InPlace(pc)
  <2>1. PICK f : f = [at |-> After[pc], marked |-> Marked \cup {Field[pc]}]
    OBVIOUS
  <2>2. f \in Frames
    BY <1>2, <1>5, <2>1, PastAfter
  <2>3. frames' \in Seq(Frames) /\ frames' # <<>> /\ Head(frames') = f
    <3>1. frames' = <<>> \o <<f>> \o Tail(frames)
      BY <1>6, <2>1 DEF InPlace
    <3> QED  BY <1>1, <1>2, <2>2, <3>1, FramesPushed
  <2>4. AllIn(cron, tmt, Past(After[pc]))
    BY <1>1, <1>6, PastAfter DEF InPlace, Searching, AllIn
  <2>5. AllIn(cron, tmt, Past(Head(frames').at))
    BY <2>1, <2>3, <2>4
  <2>6. tmt' = tmt
    BY <1>6 DEF InPlace
  <2> QED  BY <1>1, <1>3, <2>3, <2>5, <2>6 DEF Searching
<1>7. CASE OutOfPlace(pc)
  <2>1. PICK f : f = [at |-> After[pc], marked |-> Marked \cup {}]
    OBVIOUS
  <2>2. f \in Frames
    BY <1>2, <1>5, <2>1, PastAfter
  <2>3. /\ IsTm(tmt') /\ Instant(tmt) < Instant(tmt')
        /\ pc = "second" => tmt'.tm_sec \in cron.seconds
    <3>1. IsTm(tmt) /\ ~InSet(cron, tmt, Field[pc]) /\ tmt' = MoveAt(cron, tmt, pc, Marked)
      BY <1>7 DEF OutOfPlace, Searching
    <3> QED  BY <1>2, <3>1, Moves
  <2>4. Instant(tmt) \in Int /\ Instant(tmt') \in Int /\ Instant(cronFrom) \in Int
    BY <2>3, InstantInt DEF Searching, IsTm
  <2>5. Instant(cronFrom) <= Instant(tmt')
    BY <2>3, <2>4 DEF Searching
  <2>6. /\ frames' \in Seq(Frames) /\ frames' # <<>>
        /\ AllIn(cron, tmt', Past(Head(frames').at))
    <3>1. CASE pc = "second"
      <4>1. frames' = <<>> \o <<f>> \o Tail(frames)
        BY <1>7, <2>1, <3>1 DEF OutOfPlace
      <4>2. frames' \in Seq(Frames) /\ frames' # <<>> /\ Head(frames') = f
        BY <1>1, <1>2, <2>2, <4>1, FramesPushed
      <4>3. f.at = "minute" /\ Past("minute") = {"tm_sec"}
        BY <2>1, <3>1, PastIs DEF After
      <4>4. InSet(cron, tmt', "tm_sec")
        BY <2>3, <3>1 DEF InSet
      <4> QED  BY <4>2, <4>3, <4>4 DEF AllIn
    <3>2. CASE pc # "second"
      <4>1. frames' = <<Frame>> \o <<f>> \o Tail(frames)
        BY <1>7, <2>1, <3>2 DEF OutOfPlace
      <4>2. frames' \in Seq(Frames) /\ frames' # <<>> /\ Head(frames') = Frame
        BY <1>1, <1>2, <1>4, <2>2, <4>1, FramesPushed
      <4> QED  BY <1>4, <4>2 DEF AllIn
    <3> QED  BY <3>1, <3>2
  <2> QED  BY <1>1, <1>3, <2>3, <2>5, <2>6 DEF Searching
<1> QED  BY <1>6, <1>7 DEF Find
-----------------------------------------------------------------------------
\* Step, given the search of pc, is one of the two outcomes.
LEMMA StepIsFind ==
  ASSUME CronOk(cron), FreeDay(cron), Searching, NEW pc \in Searched, At(pc),
         NEW t, t = MoveAt(cron, tmt, pc, Marked),
         NEW same \in BOOLEAN, same <=> InSet(cron, tmt, Field[pc]),
         NEW calls \in BOOLEAN, calls <=> pc # "second",
         Step(pc, t, same, calls)
  PROVE  Find(pc)
<1>1. CASE same
  <2>1. t = tmt
    <3>1. Marked \subseteq Past(pc) /\ IsTm(tmt)
      BY HeadIs DEF At, Searching
    <3> QED  BY <1>1, <3>1, NoMove
  <2>2. InPlace(pc)
    BY <1>1, <2>1 DEF InPlace, Step, Marked
  <2> QED  BY <2>2 DEF Find
<1>2. CASE ~same
  <2>1. OutOfPlace(pc)
    BY <1>2 DEF OutOfPlace, Step, Marked
  <2> QED  BY <2>1 DEF Find
<1> QED  BY <1>1, <1>2

\* FindSecond finds its field in place or moves it.
LEMMA SecondIsFind ==
  ASSUME CronOk(cron), FreeDay(cron), Searching, FindSecond
  PROVE  Find("second")
<1>1. At("second") /\ Marked = {}
  BY HeadIs, PastIs DEF FindSecond, At
<1>2. PICK t : t = Moved(cron.seconds, tmt, "tm_sec", "tm_min", {})
  OBVIOUS
<1>7. PICK same \in BOOLEAN : same <=> tmt.tm_sec \in cron.seconds
  OBVIOUS
<1>3. Step("second", t, same, FALSE)
  BY <1>2, <1>7 DEF FindSecond, Search, Field, Step
<1>4. t = MoveAt(cron, tmt, "second", Marked)
  BY <1>1, <1>2, MoveAtIs
<1>5. same <=> InSet(cron, tmt, Field["second"])
  BY <1>7 DEF InSet, Field
<1>6. "second" \in Searched
  BY DEF Searched
<1> QED  BY <1>1, <1>3, <1>4, <1>5, <1>6, StepIsFind

\* FindMinute finds its field in place or moves it.
LEMMA MinuteIsFind ==
  ASSUME CronOk(cron), FreeDay(cron), Searching, FindMinute
  PROVE  Find("minute")
<1>1. At("minute")
  BY DEF FindMinute, At
<1>2. PICK t : t = Moved(cron.minutes, tmt, "tm_min", "tm_hour", Marked)
  OBVIOUS
<1>7. PICK same \in BOOLEAN : same <=> tmt.tm_min \in cron.minutes
  OBVIOUS
<1>3. Step("minute", t, same, TRUE)
  BY <1>2, <1>7 DEF FindMinute, Search, Field, Step
<1>4. t = MoveAt(cron, tmt, "minute", Marked)
  BY <1>2, MoveAtIs
<1>5. same <=> InSet(cron, tmt, Field["minute"])
  BY <1>7 DEF InSet, Field
<1>6. "minute" \in Searched
  BY DEF Searched
<1> QED  BY <1>1, <1>3, <1>4, <1>5, <1>6, StepIsFind

\* FindHour finds its field in place or moves it.
LEMMA HourIsFind ==
  ASSUME CronOk(cron), FreeDay(cron), Searching, FindHour
  PROVE  Find("hour")
<1>1. At("hour")
  BY DEF FindHour, At
<1>2. PICK t : t = Moved(cron.hours, tmt, "tm_hour", "tm_mday", Marked)
  OBVIOUS
<1>7. PICK same \in BOOLEAN : same <=> tmt.tm_hour \in cron.hours
  OBVIOUS
<1>3. Step("hour", t, same, TRUE)
  BY <1>2, <1>7 DEF FindHour, Search, Field, Step
<1>4. t = MoveAt(cron, tmt, "hour", Marked)
  BY <1>2, MoveAtIs
<1>5. same <=> InSet(cron, tmt, Field["hour"])
  BY <1>7 DEF InSet, Field
<1>6. "hour" \in Searched
  BY DEF Searched
<1> QED  BY <1>1, <1>3, <1>4, <1>5, <1>6, StepIsFind

\* The day that findNextDay gives has another number in its month, so that
\* the code, which compares the numbers, sees that it moved.
LEMMA DayIsFind ==
  ASSUME CronOk(cron), FreeDay(cron), Searching, FindDay
  PROVE  Find("day")
<1>1. PICK t : t = findNextDay(cron, tmt, Marked)
  OBVIOUS
<1>2. At("day") /\ Step("day", t, t.tm_mday = tmt.tm_mday, TRUE)
  BY <1>1 DEF FindDay
<1>3. t = MoveAt(cron, tmt, "day", Marked)
  BY <1>1, MoveAtIs
<1>4. "day" \in Searched
  BY DEF Searched
<1>5. (t.tm_mday = tmt.tm_mday) <=> InSet(cron, tmt, Field["day"])
  <2>1. IsTm(tmt) /\ Marked \subseteq Past("day")
    BY <1>2, HeadIs DEF At, Searching
  <2>2. InSet(cron, tmt, Field["day"]) => t = tmt
    BY <1>3, <1>4, <2>1, NoMove
  <2>3. ~InSet(cron, tmt, Field["day"]) => t.tm_mday # tmt.tm_mday
    BY <1>3, <1>4, <2>1, Moves
  <2> QED  BY <2>2, <2>3
<1> QED  BY <1>2, <1>3, <1>4, <1>5, StepIsFind

\* FindMonth does so too, or ends the search.
LEMMA MonthIsFind ==
  ASSUME CronOk(cron), FreeDay(cron), Searching, FindMonth
  PROVE  Find("month") \/ cronRes' = "invalid"
<1>1. CASE cronRes' = "invalid"
  BY <1>1
<1>2. CASE cronRes' # "invalid"
  <2>1. At("month")
    BY DEF FindMonth, At
  <2>2. PICK t : t = Moved(cron.months, tmt, "tm_mon", "tm_year", Marked)
    OBVIOUS
  <2>7. PICK same \in BOOLEAN : same <=> tmt.tm_mon \in cron.months
    OBVIOUS
  <2>3. Step("month", t, same, TRUE)
    BY <1>2, <2>2, <2>7 DEF FindMonth, Search, Field, Step
  <2>4. t = MoveAt(cron, tmt, "month", Marked)
    BY <2>2, MoveAtIs
  <2>5. same <=> InSet(cron, tmt, Field["month"])
    BY <2>7 DEF InSet, Field
  <2>6. "month" \in Searched
    BY DEF Searched
  <2> QED  BY <2>1, <2>3, <2>4, <2>5, <2>6, StepIsFind
<1> QED  BY <1>1, <1>2

\* A call that looked at every field returns, and leaves the time to the
\* call that made it.
LEMMA ReturnKeeps ==
  ASSUME Searching, Return
  PROVE  Searching'
<1>1. /\ frames # <<>> /\ Head(frames).at = "return" /\ cronRes = "busy"
      /\ frames' = Tail(frames) /\ UNCHANGED <<cron, cronFrom, tmt, cronRes>>
  BY DEF Return, At
<1>2. Tail(frames) \in Seq(Frames)
  BY <1>1, HeadIs
<1>3. AllIn(cron, tmt, Fields)
  BY <1>1, PastIs DEF Searching
<1>4. Matches(cron, tmt)
  BY <1>3, MatchesAll
<1>5. ASSUME Tail(frames) # <<>>
      PROVE  AllIn(cron, tmt, Past(Head(Tail(frames)).at))
  <2>1. Head(Tail(frames)) \in Frames
    BY <1>2, <1>5, FramesPushed
  <2>2. PICK pc \in Searched \cup {"return"} : pc = Head(Tail(frames)).at
    BY <2>1 DEF Frames
  <2>3. Past(pc) \subseteq Fields
    BY PastAfter, PastIs
  <2> QED  BY <1>3, <2>2, <2>3 DEF AllIn
<1> QED  BY <1>1, <1>2, <1>4, <1>5 DEF Searching

\* A second later.
LEMMA SecondLater ==
  ASSUME NEW t, IsTm(t)
  PROVE  LET r == addToField(t, "tm_sec", 1)
         IN  IsTm(r) /\ Instant(r) = Instant(t) + 1
<1> DEFINE s == [t EXCEPT !["tm_sec"] = t["tm_sec"] + 1]
<1>0. "tm_sec" \in Fields \cup {"tm_year"}
  BY DEF Fields
<1>1. ClockTm(t)
  BY TmIsClock
<1>2. addToField(t, "tm_sec", 1) = Normal(s) /\ t["tm_sec"] + 1 \in Int
  BY <1>0, <1>1, FieldAdd DEF addToField, ClockTm
<1>9. RawTm(t)
  BY <1>1 DEF ClockTm
<1>3. /\ RawTm(s) /\ s.tm_sec = t["tm_sec"] + 1 /\ s.tm_min = t.tm_min
      /\ s.tm_hour = t.tm_hour /\ s.tm_mday = t.tm_mday
      /\ s.tm_mon = t.tm_mon /\ s.tm_year = t.tm_year
  BY <1>0, <1>2, <1>9, FieldSet
<1> HIDE DEF s
<1>4. 0 <= s.tm_mon /\ s.tm_mon <= 11
  BY <1>1, <1>3 DEF ClockTm
<1>5. IsTm(Normal(s)) /\ Instant(Normal(s)) = Instant(s)
  BY <1>3, <1>4, NormalIs
<1>6. DayOfTm(s) = DayOfTm(t)
  BY <1>3 DEF DayOfTm
<1>7. SecondOfTm(s) = SecondOfTm(t) + 1
  BY <1>1, <1>3 DEF SecondOfTm, ClockTm, RawTm
<1>8. Instant(s) = Instant(t) + 1
  BY <1>1, <1>6, <1>7, InstantInt DEF Instant, ClockTm
<1> QED  BY <1>2, <1>5, <1>8

\* The first call of findNext has looked at nothing.
LEMMA FrameIs ==
  /\ <<Frame>> \in Seq(Frames) /\ <<Frame>> # <<>> /\ Head(<<Frame>>) = Frame
  /\ \A c, t : AllIn(c, t, Past(Frame.at))
<1>1. Frame \in Frames /\ Frame.at = "second" /\ Past("second") = {}
  BY PastIs DEF Frame, Frames, IsFrame, Searched
<1> QED  BY <1>1 DEF AllIn

\* The search ends, or begins again a second later.
LEMMA FirstFoundKeeps ==
  ASSUME Searching, FirstFound
  PROVE  Searching'
<1>1. /\ cronRes = "busy" /\ frames = <<>> /\ UNCHANGED <<cron, cronFrom>>
  BY DEF FirstFound
<1>2. CASE tmt = cronFrom
  <2>1. /\ tmt' = addToField(tmt, "tm_sec", 1) /\ frames' = <<Frame>>
        /\ UNCHANGED cronRes
    BY <1>2 DEF FirstFound
  <2>2. IsTm(tmt') /\ Instant(tmt') = Instant(tmt) + 1
    BY <2>1, SecondLater DEF Searching
  <2>3. Instant(tmt) \in Int /\ Instant(cronFrom) = Instant(tmt)
    BY <1>2, InstantInt DEF Searching, IsTm
  <2>4. Instant(cronFrom) <= Instant(tmt')
    BY <2>2, <2>3
  <2> QED  BY <1>1, <2>1, <2>2, <2>4, FrameIs DEF Searching
<1>3. CASE tmt # cronFrom
  <2>1. cronRes' = "found" /\ UNCHANGED <<tmt, frames>>
    BY <1>3 DEF FirstFound
  <2> QED  BY <1>1, <1>3, <2>1 DEF Searching
<1> QED  BY <1>2, <1>3

\* The search begins at the time given.
LEMMA NextCronKeeps ==
  ASSUME NEW t \in StartTimes, NextCron(t)
  PROVE  Searching'
<1>1. /\ cronFrom' = t /\ tmt' = t /\ frames' = <<Frame>> /\ cronRes' = "busy"
  BY DEF NextCron
<1>2. IsTm(t)
  BY CronAssumption, StartIsTm
<1>3. Instant(t) \in Int
  BY <1>2, InstantInt DEF IsTm
<1> QED  BY <1>1, <1>2, <1>3, FrameIs DEF Searching

\* Every step of a search keeps the invariant.
LEMMA CronInvStep ==
  ASSUME CronInv, CronNext
  PROVE  CronInv'
<1>1. ASSUME NEW e \in Expressions, MakeCron(e)
      PROVE  CronInv'
  <2>1. cronRes' \in {"idle", "exception"} /\ ~cron.isset
    BY <1>1 DEF MakeCron
  <2>2. cron'.isset => CronOk(cron')
    <3>1. CASE Makes(e)
      BY <1>1, <3>1, MakecronOk, CronAssumption DEF MakeCron
    <3>2. CASE ~Makes(e)
      BY <1>1, <2>1, <3>2 DEF MakeCron
    <3> QED  BY <3>1, <3>2
  <2> QED  BY <2>1, <2>2 DEF CronInv, InSearch
<1>2. ASSUME NEW t \in StartTimes, NextCron(t)
      PROVE  CronInv'
  <2>1. cron.isset /\ cron' = cron
    BY <1>2 DEF NextCron
  <2> QED  BY <1>2, <2>1, NextCronKeeps DEF CronInv
<1>3. ASSUME NEW pc \in Searched, InSearch, cron' = cron, InSearch' => InSearch,
             CronOk(cron) /\ FreeDay(cron) /\ Searching =>
               Find(pc) \/ cronRes' = "invalid"
      PROVE  CronInv'
  <2>1. cron.isset /\ CronOk(cron)
    BY <1>3 DEF CronInv
  <2>2. ASSUME InSearch', FreeDay(cron)
        PROVE  Searching'
    <3>1. Searching
      BY <1>3, <2>2 DEF CronInv
    <3>2. Find(pc)
      BY <1>3, <2>1, <2>2, <3>1 DEF InSearch
    <3> QED  BY <2>1, <2>2, <3>1, <3>2, FindKeeps
  <2>3. cron'.isset /\ CronOk(cron')
    BY <1>3, <2>1
  <2>4. FreeDay(cron)' => FreeDay(cron)
    BY <1>3 DEF FreeDay
  <2> QED  BY <2>2, <2>3, <2>4 DEF CronInv
<1>4. ASSUME FindSecond \/ FindMinute \/ FindHour \/ FindDay \/ FindMonth \/ Return \/ FirstFound
      PROVE  InSearch /\ cron' = cron
  BY <1>4 DEF FindSecond, FindMinute, FindHour, FindDay, FindMonth, Return,
              FirstFound, Search, Step, At, InSearch
<1>5. CASE FindSecond
  <2>1. "second" \in Searched
    BY DEF Searched
  <2> QED  BY <1>3, <1>4, <1>5, <2>1, SecondIsFind
<1>6. CASE FindMinute
  <2>1. "minute" \in Searched
    BY DEF Searched
  <2> QED  BY <1>3, <1>4, <1>6, <2>1, MinuteIsFind
<1>7. CASE FindHour
  <2>1. "hour" \in Searched
    BY DEF Searched
  <2> QED  BY <1>3, <1>4, <1>7, <2>1, HourIsFind
<1>8. CASE FindDay
  <2>1. "day" \in Searched
    BY DEF Searched
  <2> QED  BY <1>3, <1>4, <1>8, <2>1, DayIsFind
<1>9. CASE FindMonth
  <2>1. "month" \in Searched
    BY DEF Searched
  <2> QED  BY <1>3, <1>4, <1>9, <2>1, MonthIsFind
<1>10. CASE Return \/ FirstFound
  <2>1. cron.isset /\ CronOk(cron) /\ cron' = cron
    BY <1>4, <1>10 DEF CronInv
  <2>2. ASSUME FreeDay(cron)
        PROVE  Searching'
    <3>1. Searching
      BY <1>4, <1>10, <2>2 DEF CronInv
    <3> QED  BY <1>10, <3>1, ReturnKeeps, FirstFoundKeeps
  <2>3. FreeDay(cron)' => FreeDay(cron)
    BY <2>1 DEF FreeDay
  <2> QED  BY <2>1, <2>2, <2>3 DEF CronInv
<1> QED  BY <1>1, <1>2, <1>5, <1>6, <1>7, <1>8, <1>9, <1>10 DEF CronNext

\* A search moves through normal times, its fields set from the innermost on.
THEOREM CronInvHolds == CronSpec => []CronInv
<1>1. CronInit => CronInv
  BY DEF CronInit, CronInv, NoCron, InSearch
<1>2. CronInv /\ [CronNext]_cronVars => CronInv'
  <2>1. ASSUME CronInv, UNCHANGED cronVars
        PROVE  CronInv'
    BY <2>1 DEF CronInv, cronVars, InSearch, FreeDay, Searching
  <2> QED  BY <2>1, CronInvStep
<1> QED  BY <1>1, <1>2, PTL DEF CronSpec

\* The order of times is that of their instants.
LEMMA BeforeIs ==
  ASSUME NEW s, NEW t, IsTm(s), IsTm(t)
  PROVE  Before(s, t) <=> Instant(s) < Instant(t)
<1>1. /\ DayOfTm(s) \in Int /\ DayOfTm(t) \in Int
      /\ SecondOfTm(s) \in Int /\ SecondOfTm(t) \in Int
  BY InstantInt DEF IsTm
<1>2. /\ 0 <= SecondOfTm(s) /\ SecondOfTm(s) < 86400
      /\ 0 <= SecondOfTm(t) /\ SecondOfTm(t) < 86400
  BY DEF IsTm, RawTm, SecondOfTm
<1> QED  BY <1>1, <1>2 DEF Before, Instant

\* cron.h:86: a time that was found is after the time given and matches, for every
\* time and every expression that makecron takes with a * in one of its two
\* fields for the day (FreeDay).
THEOREM FoundMatchesHolds == CronSpec => []FoundMatches
<1>1. CronInv => FoundMatches
  <2> SUFFICES ASSUME CronInv, cronRes = "found", FreeDay(cron)
               PROVE  Before(cronFrom, tmt) /\ Matches(cron, tmt)
    BY DEF FoundMatches
  <2>1. Searching
    BY DEF CronInv, InSearch
  <2>2. Matches(cron, tmt) /\ tmt # cronFrom
    BY <2>1 DEF Searching
  <2>3. Instant(cronFrom) # Instant(tmt)
    BY <2>1, <2>2, SameInstant DEF Searching
  <2>4. Instant(cronFrom) \in Int /\ Instant(tmt) \in Int
    BY <2>1, InstantInt DEF Searching, IsTm
  <2>5. Instant(cronFrom) < Instant(tmt)
    BY <2>1, <2>3, <2>4 DEF Searching
  <2> QED  BY <2>1, <2>2, <2>5, BeforeIs DEF Searching
<1> QED  BY <1>1, CronInvHolds, PTL
-----------------------------------------------------------------------------
\* c fires at the second s of the minute m of the hour h of the day d.
FiresAt(c, d, h, m, s) ==
  /\ FiringDay(c, d) /\ h \in c.hours /\ m \in c.minutes /\ s \in c.seconds

\* c does not fire from x1 on, before x2.
QuietFrom(c, x1, x2) ==
  \A x, d, h, m, s : Parts(x, d, h, m, s) /\ FiresAt(c, d, h, m, s)
                       => ~(x1 <= x /\ x < x2)
\* c does not fire after x1, before x2.
QuietAfter(c, x1, x2) ==
  \A x, d, h, m, s : Parts(x, d, h, m, s) /\ FiresAt(c, d, h, m, s)
                       => ~(x1 < x /\ x < x2)

\* An aligned expression fires at one second of a minute.
LEMMA OneSecond ==
  ASSUME NEW c, CronOk(c), Aligned(c)
  PROVE  \E a \in Nat : c.seconds = {a}
<1>1. c.seconds \in SUBSET Nat
  BY DEF CronOk, FieldIs
<1>2. IsFiniteSet(c.seconds)
  <2>1. PICK lo \in Int, hi \in Int : \A v \in c.seconds : lo <= v /\ v <= hi
    BY DEF CronOk, FieldIs
  <2>2. c.seconds \in SUBSET (lo .. hi)
    BY <1>1, <2>1
  <2>3. IsFiniteSet(lo .. hi)
    BY FS_Interval
  <2> QED  BY <2>2, <2>3, FS_Subset
<1>3. Cardinality(c.seconds) = 1
  BY DEF Aligned
<1>4. PICK a : c.seconds = {a}
  BY <1>2, <1>3, FS_Singleton
<1> QED  BY <1>1, <1>4

\* r is at the start of a day, but for the second.
DayStart(c, t, r) ==
  /\ r.tm_hour = 0 /\ r.tm_min = 0
  /\ r.tm_sec = 0 \/ r.tm_sec = t.tm_sec

\* From t to the start of a later day nothing is skipped but days on which c
\* does not fire.
LEMMA DaysSkipped ==
  ASSUME NEW c, CronOk(c), Aligned(c), NEW t, IsTm(t), t.tm_sec \in c.seconds,
         NEW r, IsTm(r), DayStart(c, t, r),
         \A d \in Int : DayOfTm(t) <= d /\ d < DayOfTm(r) => ~FiringDay(c, d)
  PROVE  QuietFrom(c, Instant(t), Instant(r))
<1> SUFFICES ASSUME NEW x, NEW d, NEW h, NEW m, NEW s,
                    Parts(x, d, h, m, s), FiresAt(c, d, h, m, s),
                    Instant(t) <= x, x < Instant(r)
             PROVE  FALSE
  BY DEF QuietFrom
<1>1. PICK a \in Nat : c.seconds = {a}
  BY OneSecond
<1>2. s = a /\ t.tm_sec = a /\ FiringDay(c, d)
  BY <1>1 DEF FiresAt
<1>3. /\ Parts(Instant(t), DayOfTm(t), t.tm_hour, t.tm_min, t.tm_sec)
      /\ Parts(Instant(r), DayOfTm(r), r.tm_hour, r.tm_min, r.tm_sec)
  BY InstantParts
<1>4. d \in Int /\ DayOfTm(t) <= d /\ d <= DayOfTm(r)
  BY <1>3 DEF Parts
<1>5. d # DayOfTm(r)
  <2>1. r.tm_hour = 0 /\ r.tm_min = 0 /\ r.tm_sec <= s
    BY <1>1, <1>2, <1>3 DEF DayStart
  <2> QED  BY <1>3, <2>1 DEF Parts
<1>6. d < DayOfTm(r)
  BY <1>3, <1>4, <1>5 DEF Parts
<1> QED  BY <1>2, <1>4, <1>6

\* Where the fields below were marked, a search skips no time c fires at.
LEMMA Skips ==
  ASSUME NEW c, CronOk(c), FreeDay(c), Aligned(c), NEW t, IsTm(t),
         NEW pc \in Searched, ~InSet(c, t, Field[pc]), AllIn(c, t, Past(pc)),
         NEW marked \in SUBSET Past(pc), Past(pc) \ {"tm_sec"} \subseteq marked
  PROVE  QuietFrom(c, Instant(t), Instant(MoveAt(c, t, pc, marked)))
<1>1. PICK a \in Nat : c.seconds = {a}
  BY OneSecond
<1>2. CASE pc = "second"
  <2>1. FieldIs(c.seconds, 0, LastOf("tm_sec"))
    BY DEF CronOk, LastOf
  <2>2. Value("tm_sec", t) \notin c.seconds
    BY <1>2 DEF InSet, Field, Value, ValueOf
  <2>3. marked \in SUBSET Below("tm_sec") /\ NextOf("tm_sec") = "tm_min"
    BY <1>2, PastIs DEF Below, NextOf
  <2>4. "tm_sec" \in ClockFields
    BY DEF ClockFields
  <2>5. PICK r : r = Moved(c.seconds, t, "tm_sec", "tm_min", marked)
    OBVIOUS
  <2>6. \A x, d, h, m, s :
                  Parts(x, d, h, m, s) /\ ValueOf("tm_sec", h, m, s) \in c.seconds
                    /\ Low("tm_sec", r) <= LowOf("tm_sec", m, s)
                  => ~(Instant(t) <= x /\ x < Instant(r))
    BY <2>1, <2>2, <2>3, <2>4, <2>5, ClockMoved
  <2>7. QuietFrom(c, Instant(t), Instant(r))
    BY <2>6 DEF ValueOf, Low, LowOf, QuietFrom, FiresAt
  <2> QED  BY <1>2, <2>5, <2>7, MoveAtIs
<1>3. CASE pc = "minute"
  <2>1. FieldIs(c.minutes, 0, LastOf("tm_min"))
    BY DEF CronOk, LastOf
  <2>2. Value("tm_min", t) \notin c.minutes
    BY <1>3 DEF InSet, Field, Value, ValueOf
  <2>3. marked \in SUBSET Below("tm_min") /\ NextOf("tm_min") = "tm_hour"
    BY <1>3, PastIs DEF Below, NextOf
  <2>4. "tm_min" \in ClockFields
    BY DEF ClockFields
  <2>5. PICK r : r = Moved(c.minutes, t, "tm_min", "tm_hour", marked)
    OBVIOUS
  <2>6. /\ \A x, d, h, m, s :
                  Parts(x, d, h, m, s) /\ ValueOf("tm_min", h, m, s) \in c.minutes
                    /\ Low("tm_min", r) <= LowOf("tm_min", m, s)
                  => ~(Instant(t) <= x /\ x < Instant(r))
        /\ r.tm_sec = IF "tm_sec" \in marked THEN 0 ELSE t.tm_sec
    BY <2>1, <2>2, <2>3, <2>4, <2>5, ClockMoved
  <2>7. t.tm_sec = a
    BY <1>1, <1>3, PastIs DEF AllIn, InSet
  <2>8. r.tm_sec <= a
    BY <2>6, <2>7
  <2>9. QuietFrom(c, Instant(t), Instant(r))
    BY <1>1, <2>6, <2>8 DEF ValueOf, Low, LowOf, QuietFrom, FiresAt
  <2> QED  BY <1>3, <2>5, <2>9, MoveAtIs
<1>4. CASE pc = "hour"
  <2>1. FieldIs(c.hours, 0, LastOf("tm_hour"))
    BY DEF CronOk, LastOf
  <2>2. Value("tm_hour", t) \notin c.hours
    BY <1>4 DEF InSet, Field, Value, ValueOf
  <2>3. marked \in SUBSET Below("tm_hour") /\ NextOf("tm_hour") = "tm_mday"
    BY <1>4, PastIs DEF Below, NextOf
  <2>4. "tm_hour" \in ClockFields
    BY DEF ClockFields
  <2>5. PICK r : r = Moved(c.hours, t, "tm_hour", "tm_mday", marked)
    OBVIOUS
  <2>6. /\ \A x, d, h, m, s :
                  Parts(x, d, h, m, s) /\ ValueOf("tm_hour", h, m, s) \in c.hours
                    /\ Low("tm_hour", r) <= LowOf("tm_hour", m, s)
                  => ~(Instant(t) <= x /\ x < Instant(r))
        /\ r.tm_sec = IF "tm_sec" \in marked THEN 0 ELSE t.tm_sec
        /\ r.tm_min = IF "tm_min" \in marked THEN 0 ELSE t.tm_min
    BY <2>1, <2>2, <2>3, <2>4, <2>5, ClockMoved
  <2>7. t.tm_sec = a /\ "tm_min" \in marked
    BY <1>1, <1>4, PastIs DEF AllIn, InSet
  <2>8. r.tm_sec <= a /\ r.tm_sec \in Nat /\ r.tm_min = 0
    BY <2>6, <2>7
  <2>9. Low("tm_hour", r) = r.tm_sec
    BY <2>8 DEF Low, LowOf
  <2>10. ASSUME NEW m, NEW s, m \in c.minutes, s \in c.seconds
         PROVE  Low("tm_hour", r) <= LowOf("tm_hour", m, s)
    <3>1. m \in Nat /\ s = a
      BY <1>1, <2>10 DEF CronOk, FieldIs
    <3> QED  BY <2>8, <2>9, <3>1 DEF LowOf
  <2>11. QuietFrom(c, Instant(t), Instant(r))
    BY <2>6, <2>10 DEF ValueOf, QuietFrom, FiresAt
  <2> QED  BY <1>4, <2>5, <2>11, MoveAtIs
<1>5. CASE pc = "day"
  <2>1. /\ ~DayMatches(c, DayOfTm(t)) /\ marked \in SUBSET ClockFields
        /\ t.tm_sec \in c.seconds /\ "tm_min" \in marked /\ "tm_hour" \in marked
    BY <1>5, PastIs DEF InSet, Field, AllIn, ClockFields
  <2>2. PICK r : r = findNextDay(c, t, marked)
    OBVIOUS
  <2>3. /\ IsTm(r)
        /\ r.tm_sec = IF "tm_sec" \in marked THEN 0 ELSE t.tm_sec
        /\ r.tm_min = IF "tm_min" \in marked THEN 0 ELSE t.tm_min
        /\ r.tm_hour = IF "tm_hour" \in marked THEN 0 ELSE t.tm_hour
        /\ \A d \in Int : DayOfTm(t) <= d /\ d < DayOfTm(r) => ~DayMatches(c, d)
    BY <2>1, <2>2, DayMoved
  <2>4. DayStart(c, t, r)
    BY <2>1, <2>3 DEF DayStart
  <2>5. \A d \in Int : DayOfTm(t) <= d /\ d < DayOfTm(r) => ~FiringDay(c, d)
    BY <2>3 DEF FiringDay
  <2>6. QuietFrom(c, Instant(t), Instant(r))
    BY <2>1, <2>3, <2>4, <2>5, DaysSkipped
  <2> QED  BY <1>5, <2>2, <2>6, MoveAtIs
<1>6. CASE pc = "month"
  <2>1. /\ t.tm_mon \notin c.months /\ marked \in SUBSET (ClockFields \cup {"tm_mday"})
        /\ FieldIs(c.months, 0, 11)
        /\ t.tm_sec \in c.seconds /\ "tm_min" \in marked /\ "tm_hour" \in marked
        /\ "tm_mday" \in marked /\ DayMatches(c, DayOfTm(t))
    BY <1>6, PastIs DEF InSet, Field, AllIn, ClockFields, CronOk
  <2>2. t.tm_mday <= 28
    <3>1. t.tm_mon \in 0 .. 11 /\ t.tm_mday \in c.days_of_month
      BY <2>1, MdayOfTm, TmMday DEF DayMatches
    <3>2. c.days_of_month \subseteq 1 .. 28
      BY <2>1, <3>1 DEF Aligned
    <3> QED  BY <3>1, <3>2
  <2>3. PICK r : r = Moved(c.months, t, "tm_mon", "tm_year", marked)
    OBVIOUS
  <2>4. /\ IsTm(r)
        /\ r.tm_sec = IF "tm_sec" \in marked THEN 0 ELSE t.tm_sec
        /\ r.tm_min = IF "tm_min" \in marked THEN 0 ELSE t.tm_min
        /\ r.tm_hour = IF "tm_hour" \in marked THEN 0 ELSE t.tm_hour
        /\ \A d \in Int : DayOfTm(t) <= d /\ d < DayOfTm(r)
                            => CivilOf(d).month - 1 \notin c.months
    BY <2>1, <2>2, <2>3, MonthMoved
  <2>5. DayStart(c, t, r)
    BY <2>1, <2>4 DEF DayStart
  <2>6. \A d \in Int : DayOfTm(t) <= d /\ d < DayOfTm(r) => ~FiringDay(c, d)
    BY <2>4 DEF FiringDay
  <2>7. QuietFrom(c, Instant(t), Instant(r))
    BY <2>1, <2>4, <2>5, <2>6, DaysSkipped
  <2> QED  BY <1>6, <2>3, <2>7, MoveAtIs
<1> QED  BY <1>2, <1>3, <1>4, <1>5, <1>6 DEF Searched

\* The innermost call has marked all it went past but the second, unless
\* nothing is left to move; no time c fires at was skipped.
Thorough ==
  /\ frames # <<>> =>
       \/ Past(Head(frames).at) \ {"tm_sec"} \subseteq Head(frames).marked
       \/ Matches(cron, tmt)
  /\ QuietAfter(cron, Instant(cronFrom), Instant(tmt))

FirstInv ==
  /\ CronInv
  /\ InSearch /\ FreeDay(cron) /\ Aligned(cron) => Thorough

\* Quiet times add up.
LEMMA QuietOn ==
  ASSUME NEW c, NEW x0 \in Int, NEW x1 \in Int, NEW x2 \in Int,
         QuietAfter(c, x0, x1), QuietFrom(c, x1, x2)
  PROVE  QuietAfter(c, x0, x2)
<1> SUFFICES ASSUME NEW x, NEW d, NEW h, NEW m, NEW s,
                    Parts(x, d, h, m, s), FiresAt(c, d, h, m, s),
                    x0 < x, x < x2
             PROVE  FALSE
  BY DEF QuietAfter
<1>1. x \in Int
  BY DEF Parts
<1>2. ~(x0 < x /\ x < x1)
  BY DEF QuietAfter
<1>3. ~(x1 <= x /\ x < x2)
  BY DEF QuietFrom
<1> QED  BY <1>1, <1>2, <1>3

\* A search at any place skips no time, and marks what it passed.
LEMMA FindThorough ==
  ASSUME CronOk(cron), FreeDay(cron), Aligned(cron), Searching, Thorough,
         NEW pc \in Searched, Find(pc)
  PROVE  Thorough'
<1>1. frames # <<>> /\ Head(frames).at = pc /\ Marked = Head(frames).marked
  BY DEF Find, At, Marked
<1>2. Marked \subseteq Past(pc) /\ Tail(frames) \in Seq(Frames) /\ frames \in Seq(Frames)
  BY <1>1, HeadIs DEF Searching
<1>3. /\ UNCHANGED <<cron, cronFrom, cronRes>>
  BY DEF Find, InPlace, OutOfPlace
<1>4. Frame \in Frames /\ Frame.at = "second" /\ Past("second") = {}
  BY PastIs DEF Frame, Frames, IsFrame, Searched
<1>5. ASSUME NEW m, m \subseteq Past(After[pc])
      PROVE  [at |-> After[pc], marked |-> m] \in Frames
  BY <1>5, PastAfter DEF Frames, IsFrame
<1>6. CASE InPlace(pc)
  <2>1. PICK f : f = [at |-> After[pc], marked |-> Marked \cup {Field[pc]}]
    OBVIOUS
  <2>2. f \in Frames
    BY <1>2, <1>5, <2>1, PastAfter
  <2>3. Head(frames') = f
    <3>1. frames' = <<>> \o <<f>> \o Tail(frames)
      BY <1>6, <2>1 DEF InPlace
    <3> QED  BY <1>1, <1>2, <2>2, <3>1, FramesPushed
  <2>4. tmt' = tmt
    BY <1>6 DEF InPlace
  <2>5. \/ Past(f.at) \ {"tm_sec"} \subseteq f.marked
        \/ Matches(cron, tmt)
    BY <1>1, <2>1, PastAfter DEF Thorough
  <2> QED  BY <1>3, <2>3, <2>4, <2>5 DEF Thorough
<1>7. CASE OutOfPlace(pc)
  <2>1. PICK f : f = [at |-> After[pc], marked |-> Marked \cup {}]
    OBVIOUS
  <2>2. f \in Frames
    BY <1>2, <1>5, <2>1, PastAfter
  <2>3. IsTm(tmt) /\ ~InSet(cron, tmt, Field[pc]) /\ tmt' = MoveAt(cron, tmt, pc, Marked)
    BY <1>7 DEF OutOfPlace, Searching
  <2>4. AllIn(cron, tmt, Past(pc))
    BY <1>1 DEF Searching
  <2>5. ~Matches(cron, tmt)
    BY <2>3, MatchesAll, PastAfter DEF AllIn
  <2>6. Past(pc) \ {"tm_sec"} \subseteq Marked
    BY <1>1, <2>5 DEF Thorough
  <2>7. QuietFrom(cron, Instant(tmt), Instant(tmt'))
    BY <1>2, <2>3, <2>4, <2>6, Skips
  <2>8. Instant(tmt) \in Int /\ Instant(tmt') \in Int /\ Instant(cronFrom) \in Int
    <3>1. IsTm(tmt')
      BY <1>2, <2>3, Moves
    <3> QED  BY <3>1, InstantInt DEF Searching, IsTm
  <2>9. QuietAfter(cron, Instant(cronFrom), Instant(tmt'))
    BY <2>7, <2>8, QuietOn DEF Thorough
  <2>10. Past(Head(frames').at) \ {"tm_sec"} \subseteq Head(frames').marked
    <3>1. CASE pc = "second"
      <4>1. frames' = <<>> \o <<f>> \o Tail(frames)
        BY <1>7, <2>1, <3>1 DEF OutOfPlace
      <4>2. Head(frames') = f
        BY <1>1, <1>2, <2>2, <4>1, FramesPushed
      <4>3. f.at = "minute" /\ Past("minute") = {"tm_sec"}
        BY <2>1, <3>1, PastIs DEF After
      <4> QED  BY <4>2, <4>3
    <3>2. CASE pc # "second"
      <4>1. frames' = <<Frame>> \o <<f>> \o Tail(frames)
        BY <1>7, <2>1, <3>2 DEF OutOfPlace
      <4>2. Head(frames') = Frame
        BY <1>1, <1>2, <1>4, <2>2, <4>1, FramesPushed
      <4> QED  BY <1>4, <4>2
    <3> QED  BY <3>1, <3>2
  <2> QED  BY <1>3, <2>9, <2>10 DEF Thorough
<1> QED  BY <1>6, <1>7 DEF Find
-----------------------------------------------------------------------------
\* A call that returns leaves nothing to move.
LEMMA ReturnThorough ==
  ASSUME Searching, Thorough, Return
  PROVE  Thorough'
<1>1. /\ frames # <<>> /\ Head(frames).at = "return"
      /\ UNCHANGED <<cron, cronFrom, tmt>>
  BY DEF Return, At
<1>2. AllIn(cron, tmt, Fields)
  BY <1>1, PastIs DEF Searching
<1>3. Matches(cron, tmt)
  BY <1>2, MatchesAll
<1> QED  BY <1>1, <1>3 DEF Thorough

\* The first call has passed nothing.
LEMMA FrameThorough ==
  Past(Head(<<Frame>>).at) \ {"tm_sec"} \subseteq Head(<<Frame>>).marked
<1>1. Frame.at = "second" /\ Past("second") = {}
  BY PastIs DEF Frame
<1> QED  BY <1>1, FrameIs

\* Within a second nothing fires.
LEMMA QuietWithin ==
  ASSUME NEW c, NEW x1 \in Int, NEW x2 \in Int, x2 <= x1 + 1
  PROVE  QuietAfter(c, x1, x2)
<1> SUFFICES ASSUME NEW x, NEW d, NEW h, NEW m, NEW s, Parts(x, d, h, m, s)
             PROVE  ~(x1 < x /\ x < x2)
  BY DEF QuietAfter
<1>1. x \in Int
  BY DEF Parts
<1> QED  BY <1>1

\* To begin again a second later skips nothing.
LEMMA FirstFoundThorough ==
  ASSUME Searching, Thorough, FirstFound
  PROVE  Thorough'
<1>1. /\ cronRes = "busy" /\ frames = <<>> /\ UNCHANGED <<cron, cronFrom>>
  BY DEF FirstFound
<1>2. CASE tmt = cronFrom
  <2>1. /\ tmt' = addToField(tmt, "tm_sec", 1) /\ frames' = <<Frame>>
    BY <1>2 DEF FirstFound
  <2>2. IsTm(tmt') /\ Instant(tmt') = Instant(tmt) + 1
    BY <2>1, SecondLater DEF Searching
  <2>3. Instant(tmt) \in Int /\ Instant(cronFrom) = Instant(tmt)
    BY <1>2, InstantInt DEF Searching, IsTm
  <2>4. PICK x1 \in Int, x2 \in Int :
          x1 = Instant(cronFrom) /\ x2 = Instant(tmt') /\ x2 <= x1 + 1
    BY <2>2, <2>3
  <2>5. QuietAfter(cron, Instant(cronFrom), Instant(tmt'))
    BY <2>4, QuietWithin
  <2> QED  BY <1>1, <2>1, <2>5, FrameThorough DEF Thorough
<1>3. CASE tmt # cronFrom
  <2>1. UNCHANGED <<tmt, frames>>
    BY <1>3 DEF FirstFound
  <2> QED  BY <1>1, <2>1 DEF Thorough
<1> QED  BY <1>2, <1>3

\* A search that begins has skipped nothing.
LEMMA NextCronThorough ==
  ASSUME NEW t \in StartTimes, NextCron(t)
  PROVE  Thorough'
<1>1. /\ cronFrom' = t /\ tmt' = t /\ frames' = <<Frame>> /\ cron' = cron
  BY DEF NextCron
<1>2. IsTm(t)
  BY CronAssumption, StartIsTm
<1>3. PICK x \in Int : x = Instant(t) /\ x <= x + 1
  BY <1>2, InstantInt DEF IsTm
<1>4. QuietAfter(cron, Instant(t), Instant(t))
  BY <1>3, QuietWithin
<1> QED  BY <1>1, <1>4, FrameThorough DEF Thorough

\* Every step of an aligned search keeps the invariant.
LEMMA FirstInvStep ==
  ASSUME FirstInv, CronNext
  PROVE  FirstInv'
<1>0. CronInv /\ CronInv'
  BY CronInvStep DEF FirstInv
<1>1. ASSUME NEW e \in Expressions, MakeCron(e)
      PROVE  FirstInv'
  <2>1. cronRes' \in {"idle", "exception"}
    BY <1>1 DEF MakeCron
  <2> QED  BY <1>0, <2>1 DEF FirstInv, InSearch
<1>2. ASSUME NEW t \in StartTimes, NextCron(t)
      PROVE  FirstInv'
  BY <1>0, <1>2, NextCronThorough DEF FirstInv
<1>3. ASSUME NEW pc \in Searched, InSearch, cron' = cron,
             CronOk(cron) /\ FreeDay(cron) /\ Searching =>
               Find(pc) \/ cronRes' = "invalid"
      PROVE  FirstInv'
  <2>1. CronOk(cron)
    BY <1>0, <1>3 DEF CronInv
  <2>2. ASSUME InSearch', FreeDay(cron), Aligned(cron)
        PROVE  Thorough'
    <3>1. Searching /\ Thorough
      BY <1>3, <2>2 DEF CronInv, FirstInv
    <3>2. Find(pc)
      BY <1>3, <2>1, <2>2, <3>1 DEF InSearch
    <3> QED  BY <2>1, <2>2, <3>1, <3>2, FindThorough
  <2>3. /\ FreeDay(cron)' => FreeDay(cron)
        /\ Aligned(cron)' => Aligned(cron)
    BY <1>3 DEF FreeDay, Aligned
  <2> QED  BY <1>0, <2>2, <2>3 DEF FirstInv
<1>4. ASSUME FindSecond \/ FindMinute \/ FindHour \/ FindDay \/ FindMonth \/ Return \/ FirstFound
      PROVE  InSearch /\ cron' = cron
  BY <1>4 DEF FindSecond, FindMinute, FindHour, FindDay, FindMonth, Return,
              FirstFound, Search, Step, At, InSearch
<1>a. /\ "second" \in Searched /\ "minute" \in Searched /\ "hour" \in Searched
      /\ "day" \in Searched /\ "month" \in Searched
  BY DEF Searched
<1>5. CASE FindSecond
  BY <1>3, <1>4, <1>5, <1>a, SecondIsFind
<1>6. CASE FindMinute
  BY <1>3, <1>4, <1>6, <1>a, MinuteIsFind
<1>7. CASE FindHour
  BY <1>3, <1>4, <1>7, <1>a, HourIsFind
<1>8. CASE FindDay
  BY <1>3, <1>4, <1>8, <1>a, DayIsFind
<1>9. CASE FindMonth
  BY <1>3, <1>4, <1>9, <1>a, MonthIsFind
<1>10. CASE Return \/ FirstFound
  <2>1. cron' = cron
    BY <1>4, <1>10
  <2>2. ASSUME FreeDay(cron), Aligned(cron)
        PROVE  Thorough'
    <3>1. Searching /\ Thorough
      BY <1>4, <1>10, <2>2 DEF CronInv, FirstInv
    <3> QED  BY <1>10, <3>1, ReturnThorough, FirstFoundThorough
  <2>3. /\ FreeDay(cron)' => FreeDay(cron)
        /\ Aligned(cron)' => Aligned(cron)
    BY <2>1 DEF FreeDay, Aligned
  <2> QED  BY <1>0, <2>2, <2>3 DEF FirstInv
<1> QED  BY <1>1, <1>2, <1>5, <1>6, <1>7, <1>8, <1>9, <1>10 DEF CronNext

\* An aligned search skips no time at which the expression fires.
THEOREM FirstInvHolds == CronSpec => []FirstInv
<1>1. CronInit => FirstInv
  BY DEF CronInit, FirstInv, CronInv, NoCron, InSearch
<1>2. FirstInv /\ [CronNext]_cronVars => FirstInv'
  <2>1. ASSUME FirstInv, UNCHANGED cronVars
        PROVE  FirstInv'
    BY <2>1 DEF FirstInv, CronInv, cronVars, InSearch, FreeDay, Aligned,
                Searching, Thorough
  <2> QED  BY <2>1, FirstInvStep
<1> QED  BY <1>1, <1>2, PTL DEF CronSpec

\* The instants at which c fires are those of its days and its seconds of a
\* day.
LEMMA QuietIsNone ==
  ASSUME NEW c, CronOk(c), NEW s, NEW t, IsTm(s), IsTm(t),
         QuietAfter(c, Instant(s), Instant(t))
  PROVE  NoneBetween(c, s, t)
<1>1. /\ DayOfTm(s) \in Int /\ DayOfTm(t) \in Int
      /\ SecondOfTm(s) \in Int /\ SecondOfTm(t) \in Int
  BY InstantInt DEF IsTm
<1>2. /\ 0 <= SecondOfTm(s) /\ SecondOfTm(s) < 86400
      /\ 0 <= SecondOfTm(t) /\ SecondOfTm(t) < 86400
  BY DEF IsTm, RawTm, SecondOfTm
<1> SUFFICES ASSUME NEW day \in DayOfTm(s) .. DayOfTm(t), FiringDay(c, day),
                    NEW x \in FiringSeconds(c),
                    day > DayOfTm(s) \/ x > SecondOfTm(s),
                    day < DayOfTm(t) \/ x < SecondOfTm(t)
             PROVE  FALSE
  BY DEF NoneBetween
<1>3. PICK h \in c.hours, m \in c.minutes, sec \in c.seconds :
        x = h * 3600 + m * 60 + sec
  BY DEF FiringSeconds
<1>4. /\ h \in Int /\ 0 <= h /\ h <= 23 /\ m \in Int /\ 0 <= m /\ m <= 59
      /\ sec \in Int /\ 0 <= sec /\ sec <= 59
  BY DEF CronOk, FieldIs
<1>5. day \in Int /\ DayOfTm(s) <= day /\ day <= DayOfTm(t)
  BY <1>1
<1>6. PICK i \in Int : i = day * 86400 + h * 3600 + m * 60 + sec
  BY <1>4, <1>5
<1>7. Parts(i, day, h, m, sec) /\ FiresAt(c, day, h, m, sec)
  BY <1>4, <1>5, <1>6 DEF Parts, FiresAt
<1>8. x \in Int /\ 0 <= x /\ x < 86400 /\ i = day * 86400 + x
  BY <1>3, <1>4, <1>5, <1>6
<1>9. Instant(s) < i
  BY <1>1, <1>2, <1>5, <1>8 DEF Instant
<1>10. i < Instant(t)
  BY <1>1, <1>2, <1>5, <1>8 DEF Instant
<1> QED  BY <1>7, <1>9, <1>10 DEF QuietAfter

\* cron.h:86: the time found is the first one, for every time and every expression
\* with a * in one of its two fields for the day (FreeDay), exactly one second,
\* and all months or no day of a month after the 28th (Aligned).
THEOREM FirstWhenAlignedHolds == CronSpec => []FirstWhenAligned
<1>1. FirstInv => FirstWhenAligned
  <2> SUFFICES ASSUME FirstInv, FreeDay(cron), Aligned(cron), cronRes = "found"
               PROVE  NoneBetween(cron, cronFrom, tmt)
    BY DEF FirstWhenAligned, FirstTrigger
  <2>1. CronOk(cron) /\ Searching /\ Thorough
    BY DEF FirstInv, CronInv, InSearch
  <2>2. IsTm(cronFrom) /\ IsTm(tmt) /\ QuietAfter(cron, Instant(cronFrom), Instant(tmt))
    BY <2>1 DEF Searching, Thorough
  <2> QED  BY <2>1, <2>2, QuietIsNone
<1> QED  BY <1>1, FirstInvHolds, PTL
=============================================================================
