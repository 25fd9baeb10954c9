------------------------------- MODULE TimeConfigProofs ------------------------
(***************************************************************************)
(* Proofs about OobsTimeConfig and OobsSession.  First the calendar: the   *)
(* tables and the leap years of the library agree with the days as they    *)
(* are counted, and dates and times correspond to each other one to one.   *)
(* Then an invariant on the time that has been set, action by action.      *)
(***************************************************************************)
EXTENDS TimeConfig, NaturalsInduction, WellFoundedInduction, TLAPS

-----------------------------------------------------------------------------
(* Years *)

\* The leap years of date_is_sane are those that make a year longer.
LEMMA LeapStep ==
    ASSUME NEW y \in Nat \ {0}
    PROVE  LeapDays(y) - LeapDays(y - 1) = IF IsLeapYear(y) THEN 1 ELSE 0
  BY DEF LeapDays, IsLeapYear

LEMMA LeapDaysType ==
    ASSUME NEW y \in Nat
    PROVE  LeapDays(y) \in Int
  BY DEF LeapDays

\* Leap days are counted by centuries, in which they never decrease.
LEMMA LeapDaysByCentury ==
    ASSUME NEW y \in Nat
    PROVE  LeapDays(y) = 24 * (y \div 100) + (y % 100) \div 4 + y \div 400
  BY DEF LeapDays

LEMMA LeapDaysGrow ==
    ASSUME NEW y \in Nat, NEW z \in Nat, y <= z
    PROVE  LeapDays(y) <= LeapDays(z) /\ LeapDays(z) - LeapDays(y) <= z - y
<1>1. LeapDays(z) - LeapDays(y) <= z - y
  BY DEF LeapDays
<1>2. LeapDays(y) <= LeapDays(z)
  <2> DEFINE a == y \div 100
             b == z \div 100
             i == (y % 100) \div 4
             j == (z % 100) \div 4
  <2>1. a \in Nat /\ b \in Nat /\ i \in 0..24 /\ j \in 0..24
    OBVIOUS
  <2>2. a <= b /\ (a = b => i <= j)
    OBVIOUS
  <2>3. y \div 400 \in Nat /\ z \div 400 \in Nat /\ y \div 400 <= z \div 400
    OBVIOUS
  <2>4. LeapDays(y) = 24 * a + i + y \div 400 /\ LeapDays(z) = 24 * b + j + z \div 400
    BY LeapDaysByCentury
  <2> HIDE DEF a, b, i, j
  <2> QED BY <2>1, <2>2, <2>3, <2>4
<1> QED BY <1>1, <1>2

\* The day a year begins with.
LEMMA YearStart ==
    ASSUME NEW y \in Nat \ {0}
    PROVE  /\ DayNumber(y, 0, 1) = 365 * (y - 1970) + LeapDays(y - 1) - LeapDays(1969)
           /\ DayNumber(y, 0, 1) \in Int
<1>1. DaysBefore[1] = 0
  BY DEF DaysBefore
<1>2. LeapDays(y - 1) \in Int /\ LeapDays(1969) \in Int
  BY LeapDaysType
<1> QED BY <1>1, <1>2 DEF DayNumber

LEMMA YearsGrow ==
    ASSUME NEW y \in Nat \ {0}, NEW z \in Nat \ {0}, y < z
    PROVE  DayNumber(y + 1, 0, 1) <= DayNumber(z, 0, 1)
<1>1. LeapDays(y) <= LeapDays(z - 1)
  BY LeapDaysGrow
<1>2. LeapDays(y) \in Int /\ LeapDays(z - 1) \in Int /\ LeapDays(1969) \in Int
  BY LeapDaysType
<1>3. DayNumber(y + 1, 0, 1) = 365 * (y + 1 - 1970) + LeapDays(y) - LeapDays(1969)
  BY YearStart
<1>4. DayNumber(z, 0, 1) = 365 * (z - 1970) + LeapDays(z - 1) - LeapDays(1969)
  BY YearStart
<1> QED BY <1>1, <1>2, <1>3, <1>4

\* Every day since 1970 is in one year, which lies where Gmtime looks for it.
LEMMA YearOfLaterDay ==
    ASSUME NEW n \in Nat
    PROVE  \E y \in 1970 + n \div 366 .. 1970 + n \div 365 :
              DayNumber(y, 0, 1) <= n /\ n < DayNumber(y + 1, 0, 1)
<1> DEFINE R == {p \in Nat \X Nat : p[1] < p[2]}
           Y == {y \in Nat : 1970 <= y /\ n < DayNumber(y + 1, 0, 1)}
<1>1. IsWellFoundedOn(R, Nat)
  BY NatLessThanWellFounded DEF OpToRel
<1>2. \A y \in Nat : 1970 <= y =>
         /\ DayNumber(y, 0, 1) = 365 * (y - 1970) + LeapDays(y - 1) - LeapDays(1969)
         /\ DayNumber(y + 1, 0, 1) = 365 * (y - 1969) + LeapDays(y) - LeapDays(1969)
         /\ LeapDays(y - 1) \in Int /\ LeapDays(y) \in Int /\ LeapDays(1969) \in Int
         /\ LeapDays(1969) <= LeapDays(y - 1) /\ LeapDays(1969) <= LeapDays(y)
         /\ LeapDays(y) - LeapDays(1969) <= y - 1969
  <2> SUFFICES ASSUME NEW y \in Nat, 1970 <= y
               PROVE  /\ DayNumber(y, 0, 1) = 365 * (y - 1970) + LeapDays(y - 1) - LeapDays(1969)
                      /\ DayNumber(y + 1, 0, 1) = 365 * (y - 1969) + LeapDays(y) - LeapDays(1969)
                      /\ LeapDays(y - 1) \in Int /\ LeapDays(y) \in Int /\ LeapDays(1969) \in Int
                      /\ LeapDays(1969) <= LeapDays(y - 1) /\ LeapDays(1969) <= LeapDays(y)
                      /\ LeapDays(y) - LeapDays(1969) <= y - 1969
    OBVIOUS
  <2>1. DayNumber(y, 0, 1) = 365 * (y - 1970) + LeapDays(y - 1) - LeapDays(1969)
    BY YearStart
  <2>2. DayNumber(y + 1, 0, 1) = 365 * (y + 1 - 1970) + LeapDays(y + 1 - 1) - LeapDays(1969)
    BY YearStart
  <2>3. y + 1 - 1 = y /\ y + 1 - 1970 = y - 1969
    OBVIOUS
  <2>4. LeapDays(y - 1) \in Int /\ LeapDays(y) \in Int /\ LeapDays(1969) \in Int
    BY LeapDaysType
  <2>5. LeapDays(1969) <= LeapDays(y - 1)
    BY LeapDaysGrow
  <2>6. LeapDays(1969) <= LeapDays(y) /\ LeapDays(y) - LeapDays(1969) <= y - 1969
    BY LeapDaysGrow
  <2> QED BY <2>1, <2>2, <2>3, <2>4, <2>5, <2>6
<1>3. n + 1970 \in Y
  <2>1. DayNumber(n + 1971, 0, 1) = 365 * (n + 1) + LeapDays(n + 1970) - LeapDays(1969)
        /\ LeapDays(n + 1970) \in Int /\ LeapDays(1969) \in Int
        /\ LeapDays(1969) <= LeapDays(n + 1970)
    <3>1. n + 1970 \in Nat /\ 1970 <= n + 1970 /\ n + 1970 + 1 = n + 1971
          /\ n + 1970 - 1969 = n + 1
      OBVIOUS
    <3> QED BY <1>2, <3>1
  <2> QED BY <2>1
<1>4. PICK y \in Y : \A z \in Y : ~ (<<z, y>> \in R)
  <2>1. Y \subseteq Nat
    OBVIOUS
  <2> HIDE DEF R, Y
  <2>2. Y # {}
    BY <1>3
  <2> QED BY <1>1, <2>1, <2>2, WFMin
<1>5. y \in Nat /\ 1970 <= y /\ n < DayNumber(y + 1, 0, 1)
  OBVIOUS
<1>6. DayNumber(y, 0, 1) <= n
  <2>1. CASE y = 1970
    BY <1>2, <1>5, <2>1
  <2>2. CASE y # 1970
    <3>1. y - 1 \in Nat /\ 1970 <= y - 1 /\ y - 1 + 1 = y
      BY <1>5, <2>2
    <3>2. <<y - 1, y>> \in R
      BY <1>5, <3>1
    <3>3. y - 1 \notin Y
      <4> HIDE DEF R, Y
      <4> QED BY <1>4, <3>2
    <3>4. ~ (n < DayNumber(y, 0, 1))
      BY <3>1, <3>3
    <3>5. DayNumber(y, 0, 1) \in Int
      BY <1>2, <1>5
    <3> QED BY <3>4, <3>5
  <2> QED BY <2>1, <2>2
<1> HIDE DEF Y, R
<1>7. n < 366 * (y - 1969) /\ 365 * (y - 1970) <= n
  BY <1>2, <1>5, <1>6
<1>8. y \in 1970 + n \div 366 .. 1970 + n \div 365
  BY <1>5, <1>7
<1> QED BY <1>5, <1>6, <1>8

\* The days of local times: west of Greenwich the first one is in 1969.
LocalDays == {n \in Int : n >= -1}

LEMMA LastDayOf1969 ==
    DayNumber(1969, 0, 1) = -365 /\ DayNumber(1969 + 1, 0, 1) = 0
<1>1. DaysBefore[1] = 0
  BY DEF DaysBefore
<1> QED BY <1>1 DEF DayNumber, LeapDays

LEMMA YearOfDay ==
    ASSUME NEW n \in LocalDays
    PROVE  \E y \in 1970 + n \div 366 .. 1970 + n \div 365 :
              DayNumber(y, 0, 1) <= n /\ n < DayNumber(y + 1, 0, 1)
<1>1. CASE n = -1
  <2>1. n \in Int /\ n + 1 = 0
    BY <1>1
  <2>2. n \div 366 + 1 = 0 /\ n \div 365 + 1 = 0 /\ n \div 366 \in Int /\ n \div 365 \in Int
    BY <2>1
  <2>3. 1969 \in 1970 + n \div 366 .. 1970 + n \div 365
    BY <2>2
  <2> QED BY <1>1, <2>3, LastDayOf1969
<1>2. CASE n # -1
  <2>1. n \in Nat
    BY <1>2 DEF LocalDays
  <2> QED BY <2>1, YearOfLaterDay
<1> QED BY <1>1, <1>2

LEMMA OneYear ==
    ASSUME NEW n \in Int, NEW y \in Nat \ {0}, NEW z \in Nat \ {0},
           DayNumber(y, 0, 1) <= n, n < DayNumber(y + 1, 0, 1),
           DayNumber(z, 0, 1) <= n, n < DayNumber(z + 1, 0, 1)
    PROVE  y = z
<1>1. /\ DayNumber(y, 0, 1) \in Int /\ DayNumber(y + 1, 0, 1) \in Int
      /\ DayNumber(z, 0, 1) \in Int /\ DayNumber(z + 1, 0, 1) \in Int
  BY YearStart
<1>2. ~ (y < z)
  BY <1>1, YearsGrow
<1>3. ~ (z < y)
  BY <1>1, YearsGrow
<1> QED BY <1>2, <1>3

-----------------------------------------------------------------------------
(* Months and days *)

\* The days before each month, and its length.
LEMMA Tables ==
    /\ DaysBefore[1] = 0 /\ DaysBefore[2] = 31 /\ DaysBefore[3] = 59 /\ DaysBefore[4] = 90
    /\ DaysBefore[5] = 120 /\ DaysBefore[6] = 151 /\ DaysBefore[7] = 181 /\ DaysBefore[8] = 212
    /\ DaysBefore[9] = 243 /\ DaysBefore[10] = 273 /\ DaysBefore[11] = 304 /\ DaysBefore[12] = 334
    /\ MonthLengths[1] = 31 /\ MonthLengths[2] = 28 /\ MonthLengths[3] = 31
    /\ MonthLengths[4] = 30 /\ MonthLengths[5] = 31 /\ MonthLengths[6] = 30
    /\ MonthLengths[7] = 31 /\ MonthLengths[8] = 31 /\ MonthLengths[9] = 30
    /\ MonthLengths[10] = 31 /\ MonthLengths[11] = 30 /\ MonthLengths[12] = 31
  BY DEF DaysBefore, MonthLengths

\* The length of a month as date_is_sane has it.
MonthLength(y, m) == IF m = 1 /\ IsLeapYear(y) THEN 29 ELSE MonthLengths[m + 1]

\* What a month adds to the day number of a year.
DaysInto(y, m) == DaysBefore[m + 1] + (IF m > 1 /\ IsLeapYear(y) THEN 1 ELSE 0)

LEMMA DayNumberSplit ==
    ASSUME NEW y \in Nat \ {0}, NEW m \in 0..11, NEW d \in Int
    PROVE  /\ DayNumber(y, m, d) = DayNumber(y, 0, 1) + DaysInto(y, m) + d - 1
           /\ DayNumber(y, 0, 1) \in Int /\ DaysInto(y, m) \in Nat
           /\ DayNumber(y, m, d) \in Int
<1>1. DaysBefore[1] = 0 /\ DaysBefore[m + 1] \in Nat
  BY Tables
<1>2. LeapDays(y) - LeapDays(y - 1) = IF IsLeapYear(y) THEN 1 ELSE 0
  BY LeapStep
<1>3. LeapDays(y - 1) \in Int /\ LeapDays(1969) \in Int /\ LeapDays(y) \in Int
  BY LeapDaysType
<1>4. DayNumber(y, 0, 1) = 365 * (y - 1970) + LeapDays(y - 1) - LeapDays(1969)
  BY YearStart
<1>5. DayNumber(y, m, d) = 365 * (y - 1970) + LeapDays(y - 1) - LeapDays(1969)
         + DaysBefore[m + 1] + (IF m > 1 THEN LeapDays(y) - LeapDays(y - 1) ELSE 0) + d - 1
  BY DEF DayNumber
<1>6. DaysInto(y, m) \in Nat
      /\ DaysInto(y, m) = DaysBefore[m + 1] + (IF m > 1 /\ IsLeapYear(y) THEN 1 ELSE 0)
  BY <1>1 DEF DaysInto
<1> HIDE DEF DaysInto
<1> QED BY <1>1, <1>2, <1>3, <1>4, <1>5, <1>6

LEMMA MonthStart ==
    ASSUME NEW y \in Nat \ {0}, NEW m \in 0..11
    PROVE  /\ DayNumber(y, m, 1) = DayNumber(y, 0, 1) + DaysInto(y, m)
           /\ DayNumber(y, 0, 1) \in Int /\ DaysInto(y, m) \in Nat
           /\ DayNumber(y, m, 1) \in Int
<1>1. DayNumber(y, m, 1) = DayNumber(y, 0, 1) + DaysInto(y, m) + 1 - 1
      /\ DayNumber(y, 0, 1) \in Int /\ DaysInto(y, m) \in Nat /\ DayNumber(y, m, 1) \in Int
  <2> DEFINE one == 1
  <2>1. one \in Int
    OBVIOUS
  <2> HIDE DEF one
  <2>2. DayNumber(y, m, one) = DayNumber(y, 0, 1) + DaysInto(y, m) + one - 1
        /\ DayNumber(y, 0, 1) \in Int /\ DaysInto(y, m) \in Nat /\ DayNumber(y, m, one) \in Int
    BY <2>1, DayNumberSplit
  <2> QED BY <2>2 DEF one
<1> QED BY <1>1

LEMMA IntoNextMonth ==
    ASSUME NEW y \in Nat \ {0}, NEW m \in 0..10
    PROVE  DaysInto(y, m + 1) = DaysInto(y, m) + MonthLength(y, m)
<1>1. IsLeapYear(y) \in BOOLEAN
  BY DEF IsLeapYear
<1>2. m \in {0, 1, 2, 3, 4, 5, 6, 7, 8, 9, 10}
  OBVIOUS
<1> QED BY <1>1, <1>2, Tables DEF DaysInto, MonthLength

\* A month ends where the next one, or the next year, begins.
LEMMA NextMonth ==
    ASSUME NEW y \in Nat \ {0}, NEW m \in 0..11
    PROVE  /\ MonthLength(y, m) \in 28..31
           /\ m < 11 => DayNumber(y, m + 1, 1) = DayNumber(y, m, 1) + MonthLength(y, m)
           /\ m = 11 => DayNumber(y + 1, 0, 1) = DayNumber(y, m, 1) + MonthLength(y, m)
<1>1. MonthLength(y, m) \in 28..31
  <2>1. m \in {0, 1, 2, 3, 4, 5, 6, 7, 8, 9, 10, 11}
    OBVIOUS
  <2> QED BY <2>1, Tables DEF MonthLength
<1>2. DayNumber(y, m, 1) = DayNumber(y, 0, 1) + DaysInto(y, m)
      /\ DayNumber(y, 0, 1) \in Int /\ DaysInto(y, m) \in Nat
  BY MonthStart
<1>3. ASSUME m < 11
      PROVE  DayNumber(y, m + 1, 1) = DayNumber(y, m, 1) + MonthLength(y, m)
  <2>1. m \in 0..10 /\ m + 1 \in 0..11
    BY <1>3
  <2>2. DaysInto(y, m + 1) = DaysInto(y, m) + MonthLength(y, m)
    BY <2>1, IntoNextMonth
  <2>3. DayNumber(y, m + 1, 1) = DayNumber(y, 0, 1) + DaysInto(y, m + 1)
        /\ DaysInto(y, m + 1) \in Nat
    BY <2>1, MonthStart
  <2> QED BY <1>1, <1>2, <2>2, <2>3
<1>4. ASSUME m = 11
      PROVE  DayNumber(y + 1, 0, 1) = DayNumber(y, m, 1) + MonthLength(y, m)
  <2>1. DayNumber(y + 1, 0, 1) = 365 * (y + 1 - 1970) + LeapDays(y + 1 - 1) - LeapDays(1969)
    BY YearStart
  <2>2. DayNumber(y, 0, 1) = 365 * (y - 1970) + LeapDays(y - 1) - LeapDays(1969)
    BY YearStart
  <2>3. LeapDays(y) - LeapDays(y - 1) = IF IsLeapYear(y) THEN 1 ELSE 0
    BY LeapStep
  <2>4. LeapDays(y - 1) \in Int /\ LeapDays(1969) \in Int /\ LeapDays(y) \in Int
    BY LeapDaysType
  <2>5. y + 1 - 1 = y /\ y + 1 - 1970 = y - 1969
    OBVIOUS
  <2>6. DaysInto(y, 11) = 334 + (IF IsLeapYear(y) THEN 1 ELSE 0) /\ MonthLength(y, 11) = 31
    BY Tables DEF DaysInto, MonthLength
  <2> QED BY <1>2, <1>4, <2>1, <2>2, <2>3, <2>4, <2>5, <2>6
<1> QED BY <1>1, <1>3, <1>4

\* The first day and the length of a month.
LEMMA MonthTypes ==
    ASSUME NEW y \in Nat \ {0}, NEW m \in 0..11
    PROVE  DayNumber(y, m, 1) \in Int /\ MonthLength(y, m) \in 28..31
<1>1. DayNumber(y, m, 1) \in Int
  BY MonthStart
<1>2. MonthLength(y, m) \in 28..31
  BY NextMonth
<1> QED BY <1>1, <1>2

\* Every day of a year is in one month.
LEMMA MonthOfDay ==
    ASSUME NEW y \in Nat \ {0}, NEW n \in Int,
           DayNumber(y, 0, 1) <= n, n < DayNumber(y + 1, 0, 1)
    PROVE  \E m \in 0..11 : DayNumber(y, m, 1) <= n /\ n < DayNumber(y, m, 1) + MonthLength(y, m)
<1> DEFINE S(m) == DayNumber(y, m, 1)
           L(m) == MonthLength(y, m)
<1>1. \A m \in 0..11 : S(m) \in Int /\ L(m) \in 28..31
  BY MonthTypes
<1>2. \A m \in 0..10 : S(m + 1) = S(m) + L(m)
  <2> SUFFICES ASSUME NEW m \in 0..10 PROVE S(m + 1) = S(m) + L(m)
    OBVIOUS
  <2>1. m \in 0..11 /\ m < 11
    OBVIOUS
  <2> QED BY <2>1, NextMonth
<1>3. DayNumber(y + 1, 0, 1) = S(11) + L(11)
  BY NextMonth
<1>4. S(0) <= n
  OBVIOUS
<1> HIDE DEF S, L
<1>5. n < S(11) + L(11)
  BY <1>3
<1>6. /\ S(1) = S(0) + L(0) /\ S(2) = S(1) + L(1) /\ S(3) = S(2) + L(2) /\ S(4) = S(3) + L(3)
      /\ S(5) = S(4) + L(4) /\ S(6) = S(5) + L(5) /\ S(7) = S(6) + L(6) /\ S(8) = S(7) + L(7)
      /\ S(9) = S(8) + L(8) /\ S(10) = S(9) + L(9) /\ S(11) = S(10) + L(10)
  BY <1>2
<1>7. \E m \in {0, 1, 2, 3, 4, 5, 6, 7, 8, 9, 10, 11} : S(m) <= n /\ n < S(m) + L(m)
  BY <1>1, <1>4, <1>5, <1>6
<1>8. PICK m \in 0..11 : S(m) <= n /\ n < S(m) + L(m)
  BY <1>7
<1> QED BY <1>8 DEF S, L

LEMMA MonthsGrow ==
    ASSUME NEW y \in Nat \ {0}, NEW m \in 0..11, NEW k \in 0..11, m < k
    PROVE  DayNumber(y, m, 1) + MonthLength(y, m) <= DayNumber(y, k, 1)
<1> DEFINE S(i) == DayNumber(y, i, 1)
           L(i) == MonthLength(y, i)
<1>1. \A i \in 0..11 : S(i) \in Int /\ L(i) \in 28..31
  BY MonthTypes
<1>2. \A i \in 0..10 : S(i + 1) = S(i) + L(i)
  <2> SUFFICES ASSUME NEW i \in 0..10 PROVE S(i + 1) = S(i) + L(i)
    OBVIOUS
  <2>1. i \in 0..11 /\ i < 11
    OBVIOUS
  <2> QED BY <2>1, NextMonth
<1> HIDE DEF S, L
<1>6. /\ S(1) = S(0) + L(0) /\ S(2) = S(1) + L(1) /\ S(3) = S(2) + L(2) /\ S(4) = S(3) + L(3)
      /\ S(5) = S(4) + L(4) /\ S(6) = S(5) + L(5) /\ S(7) = S(6) + L(6) /\ S(8) = S(7) + L(7)
      /\ S(9) = S(8) + L(8) /\ S(10) = S(9) + L(9) /\ S(11) = S(10) + L(10)
  BY <1>2
<1>7. m \in {0, 1, 2, 3, 4, 5, 6, 7, 8, 9, 10, 11} /\ k \in {0, 1, 2, 3, 4, 5, 6, 7, 8, 9, 10, 11}
  OBVIOUS
<1>8. S(m) + L(m) <= S(k)
  BY <1>1, <1>6, <1>7
<1> QED BY <1>8 DEF S, L

\* date_is_sane is right about every date, whatever its parts.
LEMMA SaneIsOnCalendar ==
    ASSUME NEW d \in Date
    PROVE  DateIsSane(d) <=> OnCalendar(d)
<1>1. d.year \in Int /\ d.month \in Int /\ d.day \in Int /\ d.quarter \in Int
  <2>1. d.year \in Years /\ d.month \in Months /\ d.day \in Days /\ d.quarter \in Quarters
    BY DEF Date
  <2> QED BY <2>1, DatesAssumption
<1>2. CASE d.year >= 1 /\ d.month \in 0..11
  <2> DEFINE y == d.year
             m == d.month
             l == MonthLength(y, m)
  <2> y \in Nat \ {0} /\ m \in 0..11
    BY <1>1, <1>2
  <2>1. l \in 28..31 /\ (m = 11 => l = 31)
    <3>1. l \in 28..31
      BY NextMonth
    <3>2. m = 11 => l = 31
      BY Tables DEF MonthLength
    <3> QED BY <3>1, <3>2
  <2>2. DateIsSane(d) <=> d.day \in 1..l /\ d.quarter \in 0..95
    BY <1>1, <1>2 DEF DateIsSane, MonthLength
  <2>3. ASSUME m < 11
        PROVE  DayNumber(y, m, d.day) < DayNumber(y, m + 1, 1) <=> d.day <= l
    <3>1. DayNumber(y, m, 1) = DayNumber(y, 0, 1) + DaysInto(y, m)
          /\ DayNumber(y, 0, 1) \in Int /\ DaysInto(y, m) \in Nat
      BY MonthStart
    <3>2. DayNumber(y, m, d.day) = DayNumber(y, 0, 1) + DaysInto(y, m) + d.day - 1
      <4>1. d.day \in Int
        BY <1>1
      <4> QED BY <4>1, DayNumberSplit
    <3>3. DayNumber(y, m + 1, 1) = DayNumber(y, m, 1) + l
      BY <1>2, <2>1, <2>3, NextMonth
    <3> HIDE DEF y, m, l
    <3> QED BY <1>1, <2>1, <3>1, <3>2, <3>3
  <2> QED BY <1>1, <1>2, <2>1, <2>2, <2>3 DEF OnCalendar
<1>3. CASE ~ (d.year >= 1 /\ d.month \in 0..11)
  BY <1>3 DEF DateIsSane, OnCalendar
<1> QED BY <1>2, <1>3

-----------------------------------------------------------------------------
(* Dates and times *)

LEMMA SearchedYears ==
    ASSUME NEW n \in LocalDays, NEW y \in 1970 + n \div 366 .. 1970 + n \div 365
    PROVE  y \in Nat \ {0}
<1>1. n \in Int /\ n >= -1
  BY DEF LocalDays
<1>2. n \div 366 \in Int /\ n \div 366 >= -1 /\ n \div 365 \in Int
  BY <1>1
<1> QED BY <1>2

LEMMA OneMonth ==
    ASSUME NEW y \in Nat \ {0}, NEW n \in Int, NEW m \in 0..11, NEW k \in 0..11,
           DayNumber(y, m, 1) <= n, n < DayNumber(y, m, 1) + MonthLength(y, m),
           DayNumber(y, k, 1) <= n, n < DayNumber(y, k, 1) + MonthLength(y, k)
    PROVE  m = k
<1>1. DayNumber(y, m, 1) \in Int /\ MonthLength(y, m) \in 28..31
  BY MonthTypes
<1>2. DayNumber(y, k, 1) \in Int /\ MonthLength(y, k) \in 28..31
  BY MonthTypes
<1>3. ~ (m < k)
  BY <1>1, <1>2, MonthsGrow
<1>4. ~ (k < m)
  BY <1>1, <1>2, MonthsGrow
<1> QED BY <1>3, <1>4

\* A month lies in its year.
LEMMA MonthInYear ==
    ASSUME NEW y \in Nat \ {0}, NEW m \in 0..11
    PROVE  /\ DayNumber(y, 0, 1) <= DayNumber(y, m, 1)
           /\ DayNumber(y, m, 1) + MonthLength(y, m) <= DayNumber(y + 1, 0, 1)
<1>1. DayNumber(y, m, 1) = DayNumber(y, 0, 1) + DaysInto(y, m)
      /\ DayNumber(y, 0, 1) \in Int /\ DaysInto(y, m) \in Nat /\ DayNumber(y, m, 1) \in Int
  BY MonthStart
<1>2. DayNumber(y + 1, 0, 1) = DayNumber(y, 11, 1) + MonthLength(y, 11)
      /\ DayNumber(y, 11, 1) \in Int /\ MonthLength(y, 11) \in 28..31
      /\ MonthLength(y, m) \in 28..31
  BY MonthTypes, NextMonth
<1>3. CASE m = 11
  BY <1>1, <1>2, <1>3
<1>4. CASE m # 11
  <2>1. DayNumber(y, m, 1) + MonthLength(y, m) <= DayNumber(y, 11, 1)
    BY <1>4, MonthsGrow
  <2> QED BY <1>1, <1>2, <2>1
<1> QED BY <1>3, <1>4

\* A date that exists, apart from its hour.
IsDay(y, m, d) ==
    y \in Nat \ {0} /\ m \in 0..11 /\ d \in 1..31 /\ d <= MonthLength(y, m)

LEMMA DayInMonth ==
    ASSUME NEW y, NEW m, NEW d, IsDay(y, m, d)
    PROVE  /\ DayNumber(y, m, d) = DayNumber(y, m, 1) + d - 1
           /\ DayNumber(y, m, d) \in Int /\ DayNumber(y, m, 1) \in Int
           /\ DayNumber(y, m, 1) <= DayNumber(y, m, d)
           /\ DayNumber(y, m, d) < DayNumber(y, m, 1) + MonthLength(y, m)
           /\ DayNumber(y, 0, 1) <= DayNumber(y, m, d)
           /\ DayNumber(y, m, d) < DayNumber(y + 1, 0, 1)
<1>1. y \in Nat \ {0} /\ m \in 0..11 /\ d \in Int /\ d \in 1..31 /\ d <= MonthLength(y, m)
  BY DEF IsDay
<1>2. DayNumber(y, m, d) = DayNumber(y, 0, 1) + DaysInto(y, m) + d - 1
      /\ DayNumber(y, m, d) \in Int
  BY <1>1, DayNumberSplit
<1>3. DayNumber(y, m, 1) = DayNumber(y, 0, 1) + DaysInto(y, m)
      /\ DayNumber(y, 0, 1) \in Int /\ DaysInto(y, m) \in Nat /\ DayNumber(y, m, 1) \in Int
  BY <1>1, MonthStart
<1>4. MonthLength(y, m) \in 28..31
  BY <1>1, NextMonth
<1>5. DayNumber(y, m, 1) + MonthLength(y, m) <= DayNumber(y + 1, 0, 1)
      /\ DayNumber(y, 0, 1) <= DayNumber(y, m, 1)
  BY <1>1, MonthInYear
<1>6. DayNumber(y + 1, 0, 1) \in Int
  BY <1>1, YearStart
<1> QED BY <1>1, <1>2, <1>3, <1>4, <1>5, <1>6

\* Local times, in quarters of an hour: the zone is less than a day behind UTC.
LocalTimes == {t \in Int : t >= -96}

\* gmtime finds the date whose number it is given.
LEMMA GmtimeFinds ==
    ASSUME NEW t \in LocalTimes, NEW y, NEW m, NEW d, IsDay(y, m, d), NEW h \in 0..95,
           t = DayNumber(y, m, d) * 96 + h
    PROVE  Gmtime(t) = [year |-> y, month |-> m, day |-> d, quarter |-> h]
<1> DEFINE n == t \div 96
           InYear(x) == DayNumber(x, 0, 1) <= n /\ n < DayNumber(x + 1, 0, 1)
           X == 1970 + n \div 366 .. 1970 + n \div 365
           z == CHOOSE x \in X : InYear(x)
           InMonth(i) == DayNumber(z, i, 1) <= n /\ (i = 11 \/ n < DayNumber(z, i + 1, 1))
           k == CHOOSE i \in 0..11 : InMonth(i)
<1>1. Gmtime(t) = [year |-> z, month |-> k, day |-> n - DayNumber(z, k, 1) + 1, quarter |-> t % 96]
  BY DEF Gmtime
<1>2. /\ y \in Nat \ {0} /\ m \in 0..11 /\ d \in 1..31
      /\ DayNumber(y, m, d) = DayNumber(y, m, 1) + d - 1
      /\ DayNumber(y, m, d) \in Int /\ DayNumber(y, m, 1) \in Int
      /\ DayNumber(y, m, 1) <= DayNumber(y, m, d)
      /\ DayNumber(y, m, d) < DayNumber(y, m, 1) + MonthLength(y, m)
      /\ DayNumber(y, 0, 1) <= DayNumber(y, m, d)
      /\ DayNumber(y, m, d) < DayNumber(y + 1, 0, 1)
  BY DayInMonth DEF IsDay
<1>3. n = DayNumber(y, m, d) /\ n \in Int /\ n \in LocalDays /\ t % 96 = h
  <2> DEFINE a == DayNumber(y, m, d)
  <2>1. a \in Int /\ t = a * 96 + h /\ t \in Int /\ t >= -96
    BY <1>2 DEF LocalTimes
  <2> HIDE DEF a
  <2>2. n = a /\ n \in Int /\ n >= -1 /\ t % 96 = h
    BY <2>1
  <2> QED BY <2>2 DEF a, LocalDays
<1> HIDE DEF n
<1>4. z = y
  <2>0. n \in LocalDays
    BY <1>3
  <2>1. \E x \in X : InYear(x)
    BY <2>0, YearOfDay
  <2>2. z \in X /\ InYear(z)
    BY <2>1
  <2>3. \A x \in X : x \in Nat \ {0}
    BY <2>0, SearchedYears
  <2> HIDE DEF z, X
  <2> QED BY <1>2, <1>3, <2>2, <2>3, OneYear
<1> HIDE DEF z
<1>5. k = m
  <2>1. \A i \in 0..11 : InMonth(i) <=>
          DayNumber(y, i, 1) <= n /\ n < DayNumber(y, i, 1) + MonthLength(y, i)
    <3> SUFFICES ASSUME NEW i \in 0..11
                 PROVE  InMonth(i) <=>
                          DayNumber(y, i, 1) <= n /\ n < DayNumber(y, i, 1) + MonthLength(y, i)
      OBVIOUS
    <3>1. i < 11 => DayNumber(y, i + 1, 1) = DayNumber(y, i, 1) + MonthLength(y, i)
      BY <1>2, NextMonth
    <3>2. i = 11 => DayNumber(y + 1, 0, 1) = DayNumber(y, i, 1) + MonthLength(y, i)
      BY <1>2, NextMonth
    <3>3. i < 11 \/ i = 11
      OBVIOUS
    <3> QED BY <1>2, <1>3, <1>4, <3>1, <3>2, <3>3
  <2>2. InMonth(m)
    BY <1>2, <1>3, <2>1
  <2>3. k \in 0..11 /\ InMonth(k)
    BY <1>2, <2>2
  <2> HIDE DEF k, InMonth
  <2>4. DayNumber(y, k, 1) <= n /\ n < DayNumber(y, k, 1) + MonthLength(y, k)
    BY <2>1, <2>3
  <2>5. DayNumber(y, m, 1) <= n /\ n < DayNumber(y, m, 1) + MonthLength(y, m)
    BY <1>2, <1>3
  <2>6. n \in Int
    BY <1>3
  <2> QED BY <1>2, <2>3, <2>4, <2>5, <2>6, OneMonth
<1> HIDE DEF k
<1>6. n - DayNumber(z, k, 1) + 1 = d
  <2>1. n - DayNumber(y, m, 1) + 1 = d
    <3>1. n = DayNumber(y, m, 1) + d - 1
      BY <1>2, <1>3
    <3>2. DayNumber(y, m, 1) \in Int /\ d \in 1..31
      BY <1>2
    <3> QED BY <3>1, <3>2
  <2> QED BY <1>4, <1>5, <2>1
<1> QED BY <1>1, <1>3, <1>4, <1>5, <1>6

\* The date of a time.
IsDateOf(t, y, m, d, h) ==
    IsDay(y, m, d) /\ h \in 0..95 /\ t = DayNumber(y, m, d) * 96 + h

\* Every local time is that of a date.
LEMMA DateOfTime ==
    ASSUME NEW t \in LocalTimes
    PROVE  \E y, m, d, h : IsDateOf(t, y, m, d, h)
<1>1. PICK n \in LocalDays, h \in 0..95 : t = n * 96 + h
  <2>1. t \in Int /\ t >= -96
    BY DEF LocalTimes
  <2>2. t \div 96 \in Int /\ t \div 96 >= -1 /\ t % 96 \in 0..95
        /\ t = (t \div 96) * 96 + (t % 96)
    BY <2>1
  <2> QED BY <2>2 DEF LocalDays
<1>2. n \in Int
  BY DEF LocalDays
<1>3. PICK y \in 1970 + n \div 366 .. 1970 + n \div 365 :
        DayNumber(y, 0, 1) <= n /\ n < DayNumber(y + 1, 0, 1)
  BY YearOfDay
<1>4. y \in Nat \ {0}
  BY SearchedYears
<1>5. PICK m \in 0..11 : DayNumber(y, m, 1) <= n /\ n < DayNumber(y, m, 1) + MonthLength(y, m)
  BY <1>2, <1>3, <1>4, MonthOfDay
<1>6. DayNumber(y, m, 1) \in Int /\ MonthLength(y, m) \in 28..31
  BY <1>4, MonthTypes
<1>7. PICK d \in 1..31 : d <= MonthLength(y, m) /\ n = DayNumber(y, m, 1) + d - 1
  <2>1. n - DayNumber(y, m, 1) + 1 \in 1..31
    BY <1>2, <1>5, <1>6
  <2>2. n - DayNumber(y, m, 1) + 1 <= MonthLength(y, m)
    BY <1>2, <1>5, <1>6
  <2>3. n = DayNumber(y, m, 1) + (n - DayNumber(y, m, 1) + 1) - 1
    BY <1>2, <1>6
  <2> QED BY <2>1, <2>2, <2>3
<1>8. IsDay(y, m, d)
  BY <1>4, <1>7 DEF IsDay
<1>9. DayNumber(y, m, d) = n
  BY <1>7, <1>8, DayInMonth
<1>10. IsDateOf(t, y, m, d, h)
  BY <1>1, <1>8, <1>9 DEF IsDateOf
<1> QED BY <1>10

\* A time is that of the date gmtime makes of it: get_utc_unix_time takes back what
\* real_get_time gives.
LEMMA GmtimeInverse ==
    ASSUME NEW t \in LocalTimes
    PROVE  QuarterNumber(Gmtime(t)) = t
<1>1. PICK y, m, d, h : IsDateOf(t, y, m, d, h)
  BY DateOfTime
<1>2. IsDay(y, m, d) /\ h \in 0..95 /\ t = DayNumber(y, m, d) * 96 + h
  BY <1>1 DEF IsDateOf
<1>3. Gmtime(t) = [year |-> y, month |-> m, day |-> d, quarter |-> h]
  BY <1>2, GmtimeFinds
<1> QED BY <1>2, <1>3 DEF QuarterNumber

LEMMA DateParts ==
    ASSUME NEW d \in Date
    PROVE  /\ d = [year |-> d.year, month |-> d.month, day |-> d.day, quarter |-> d.quarter]
           /\ d.year \in Int /\ d.month \in Int
           /\ d.day \in Int /\ d.quarter \in Int
<1>1. d = [year |-> d.year, month |-> d.month, day |-> d.day, quarter |-> d.quarter]
  BY DEF Date
<1>2. d.year \in Years /\ d.month \in Months /\ d.day \in Days /\ d.quarter \in Quarters
  BY DEF Date
<1> QED BY <1>1, <1>2, DatesAssumption

\* A date that date_is_sane lets pass has a time, and comes back from it.
LEMMA DateBack ==
    ASSUME NEW d \in Date, DateIsSane(d)
    PROVE  /\ QuarterNumber(d) \in Int
           /\ QuarterNumber(d) \in LocalTimes => Gmtime(QuarterNumber(d)) = d
<1>1. /\ d = [year |-> d.year, month |-> d.month, day |-> d.day, quarter |-> d.quarter]
      /\ d.year \in Nat \ {0} /\ d.month \in 0..11 /\ d.quarter \in 0..95
      /\ d.day \in 1..(IF d.month = 1 /\ IsLeapYear(d.year) THEN 29 ELSE MonthLengths[d.month + 1])
  BY DateParts DEF DateIsSane
<1>2. MonthLength(d.year, d.month) \in 28..31
  BY <1>1, NextMonth
<1>3. d.day \in 1..MonthLength(d.year, d.month)
  BY <1>1 DEF MonthLength
<1>4. IsDay(d.year, d.month, d.day)
  BY <1>1, <1>2, <1>3 DEF IsDay
<1>5. DayNumber(d.year, d.month, d.day) \in Int
  BY <1>4, DayInMonth
<1>6. QuarterNumber(d) = DayNumber(d.year, d.month, d.day) * 96 + d.quarter
  BY DEF QuarterNumber
<1>7. QuarterNumber(d) \in Int
  BY <1>1, <1>5, <1>6
<1>8. ASSUME QuarterNumber(d) \in LocalTimes
      PROVE  Gmtime(QuarterNumber(d)) = d
  <2> DEFINE t == QuarterNumber(d)
  <2>1. t \in LocalTimes /\ t = DayNumber(d.year, d.month, d.day) * 96 + d.quarter
    BY <1>6, <1>8
  <2> HIDE DEF t
  <2>2. Gmtime(t) = [year |-> d.year, month |-> d.month, day |-> d.day, quarter |-> d.quarter]
    BY <1>1, <1>4, <2>1, GmtimeFinds
  <2> QED BY <1>1, <2>2 DEF t
<1> QED BY <1>7, <1>8

-----------------------------------------------------------------------------
(* Local time *)

\* Summer time is long after 1970.
LEMMA SummerIsLater ==
    \A t \in SummerTime : t \in Nat /\ 100 <= t
<1>1. DaysBefore[3] = 59 /\ DaysBefore[10] = 273
  BY Tables
<1>2. DayNumber(2024, 2, 31) \in Int /\ DayNumber(2024, 9, 27) \in Int
      /\ DayNumber(2024, 2, 31) >= 10000
  BY <1>1 DEF DayNumber, LeapDays
<1> QED BY <1>2 DEF SummerTime

LEMMA OffsetType ==
    ASSUME NEW t
    PROVE  /\ Winter \in Int /\ Offset(t) \in Int /\ Winter >= -48 /\ Offset(t) >= -48
           /\ t \in SummerTime => Offset(t) = Winter + 4
           /\ t \notin SummerTime => Offset(t) = Winter
  BY ZonesAssumption DEF Offset

\* A time since 1970 is a local time everywhere.
LEMMA LocalTime ==
    ASSUME NEW t \in Nat
    PROVE  t \in LocalTimes /\ t + Offset(t) \in LocalTimes
  BY OffsetType DEF LocalTimes

\* What mktime returns for a local date: times that show the date, or both of the
\* times an hour apart that do not.
LEMMA MktimeSplit ==
    ASSUME NEW d \in Date, DateIsSane(d), NEW t \in Mktime(d)
    PROVE  /\ t \in {QuarterNumber(d) - Winter, QuarterNumber(d) - Winter - 4}
           /\ t \in Int
           /\ \/ t + Offset(t) = QuarterNumber(d)
              \/ /\ Mktime(d) = {QuarterNumber(d) - Winter, QuarterNumber(d) - Winter - 4}
                 /\ \A u \in Mktime(d) : u + Offset(u) # QuarterNumber(d)
<1> DEFINE a == QuarterNumber(d)
           both == {a - Winter, a - Winter - 4}
           right == {u \in both : u + Offset(u) = a}
<1>1. Mktime(d) = IF right = {} THEN both ELSE right
  BY DEF Mktime
<1>2. a \in Int /\ Winter \in Int
  BY DateBack, OffsetType
<1> HIDE DEF a
<1>3. t \in both
  BY <1>1
<1>4. t \in Int
  BY <1>2, <1>3
<1>5. CASE right = {}
  <2>1. Mktime(d) = both
    BY <1>1, <1>5
  <2>2. \A u \in both : u + Offset(u) # a
    BY <1>5
  <2> QED BY <1>3, <1>4, <2>1, <2>2 DEF a
<1>6. CASE right # {}
  <2>1. t \in right
    BY <1>1, <1>6
  <2>2. t + Offset(t) = a
    BY <2>1
  <2> QED BY <1>3, <1>4, <2>2 DEF a
<1> QED BY <1>5, <1>6

\* The times mktime chooses from are all before 1970, or none is.
LEMMA SameSide ==
    ASSUME NEW d \in Date, DateIsSane(d), NEW t \in Mktime(d), NEW u \in Mktime(d), t >= 0
    PROVE  u >= 0
<1> DEFINE a == QuarterNumber(d)
<1>1. a \in Int /\ Winter \in Int /\ t \in Int /\ u \in Int
  BY DateBack, OffsetType, MktimeSplit
<1>2. t \in {a - Winter, a - Winter - 4} /\ u \in {a - Winter, a - Winter - 4}
  BY MktimeSplit
<1>3. t + Offset(t) = a \/ (t + Offset(t) # a /\ Mktime(d) = {a - Winter, a - Winter - 4}
                            /\ \A v \in Mktime(d) : v + Offset(v) # a)
  BY MktimeSplit
<1>4. u + Offset(u) = a \/ (u + Offset(u) # a /\ Mktime(d) = {a - Winter, a - Winter - 4}
                            /\ \A v \in Mktime(d) : v + Offset(v) # a)
  BY MktimeSplit
<1> HIDE DEF a
<1>5. CASE u = a - Winter
  BY <1>1, <1>2, <1>5
<1>6. CASE u = a - Winter - 4
  <2>1. CASE u + Offset(u) = a
    <3>1. Offset(u) # Winter
      BY <1>1, <1>6, <2>1
    <3>2. u \in SummerTime
      BY <3>1, OffsetType
    <3> QED BY <3>2, SummerIsLater
  <2>2. CASE Mktime(d) = {a - Winter, a - Winter - 4} /\ \A v \in Mktime(d) : v + Offset(v) # a
    <3> DEFINE v == a - Winter
    <3>1. v + Offset(v) # a
      BY <2>2
    <3>2. v + Winter = a
      BY <1>1
    <3> HIDE DEF v
    <3>3. v \in SummerTime
      BY <3>1, <3>2, OffsetType
    <3>4. v \in Nat /\ 100 <= v
      BY <3>3, SummerIsLater
    <3> QED BY <1>1, <1>6, <3>4 DEF v
  <2> QED BY <1>4, <2>1, <2>2
<1> QED BY <1>2, <1>5, <1>6

\* A local date comes back from each of its times, unless no time shows it.
LEMMA LocalDateBack ==
    ASSUME NEW d \in Date, DateIsSane(d), NEW t \in Mktime(d), t >= 0
    PROVE  Localtime(t) = d \/ Skipped(d)
<1>1. QuarterNumber(d) \in Int /\ t \in Nat
  BY DateBack, MktimeSplit
<1>2. CASE t + Offset(t) = QuarterNumber(d)
  <2>1. QuarterNumber(d) \in LocalTimes
    BY <1>1, <1>2, LocalTime
  <2>2. Gmtime(QuarterNumber(d)) = d
    BY <2>1, DateBack
  <2> QED BY <1>2, <2>2 DEF Localtime
<1>3. CASE \A u \in Mktime(d) : u + Offset(u) # QuarterNumber(d)
  <2> SUFFICES ASSUME NEW u \in Mktime(d) PROVE Localtime(u) # d
    BY DEF Skipped
  <2>1. u \in Nat
    <3>1. u >= 0
      BY SameSide
    <3>2. u \in Int
      BY MktimeSplit
    <3> QED BY <3>1, <3>2
  <2>2. u + Offset(u) \in LocalTimes
    BY <2>1, LocalTime
  <2>3. QuarterNumber(Localtime(u)) = u + Offset(u)
    BY <2>2, GmtimeInverse DEF Localtime
  <2> QED BY <1>3, <2>3
<1> QED BY <1>2, <1>3, MktimeSplit

-----------------------------------------------------------------------------
(* The invariant *)

\* What the application has set is what the library holds: the time it gave, or a
\* time of the date it gave.
AskedIsHeld ==
    /\ asked.kind # "nothing" <=> lib.time_is_set
    /\ asked.kind = "unix" => lib.time = asked.time
    /\ asked.kind \in {"utc", "local"} =>
          DateIsSane(asked.date) /\ lib.time \in UnixTimes(asked.date, asked.kind)

Inv == TypeOK /\ AskedIsHeld /\ PlatformAgrees

Lib == [time_is_set : BOOLEAN, time : Times, timezone : Zones \cup {Null}]

LEMMA AskedParts ==
    ASSUME NEW a \in Asked
    PROVE  /\ a.kind \in {"nothing", "unix", "utc", "local"}
           /\ a.kind = "nothing" => a = Nothing
           /\ a.kind = "unix" => a.time \in Nat
           /\ a.kind \in {"utc", "local"} => a.date \in Date
<1>1. CASE a = Nothing
  BY <1>1 DEF Nothing
<1>2. CASE a \in [kind : {"unix"}, time : Times]
  BY <1>2 DEF Times
<1>3. CASE a \in [kind : {"utc", "local"}, date : Date]
  BY <1>3
<1> QED BY <1>1, <1>2, <1>3 DEF Asked, Nothing

\* The times real_set_time chooses from.
LEMMA UnixTimesType ==
    ASSUME NEW d \in Date, DateIsSane(d), NEW kind \in {"utc", "local"},
           NEW t \in UnixTimes(d, kind)
    PROVE  /\ t \in Int
           /\ t >= 0 => \A u \in UnixTimes(d, kind) : u >= 0
<1>1. CASE kind = "utc"
  BY <1>1, DateBack DEF UnixTimes
<1>2. CASE kind = "local"
  <2>1. UnixTimes(d, kind) = Mktime(d)
    BY <1>2 DEF UnixTimes
  <2>2. t \in Int
    BY <2>1, MktimeSplit
  <2>3. ASSUME t >= 0, NEW u \in Mktime(d)
        PROVE  u >= 0
    BY <2>1, <2>3, SameSide
  <2> QED BY <2>1, <2>2, <2>3
<1> QED BY <1>1, <1>2

\* What a held time is shown as.
LEMMA HeldDateBack ==
    ASSUME TypeOK, AskedIsHeld
    PROVE  DatesSurvive
<1>1. lib.time \in Nat /\ lib.time_is_set \in BOOLEAN /\ asked \in Asked
  BY DEF TypeOK, Times
<1>2. CASE asked.kind = "nothing"
  BY <1>2 DEF DatesSurvive, AskedIsHeld
<1>3. CASE asked.kind # "nothing"
  <2>1. GetUnixTime(lib, clock) = lib.time
    BY <1>3 DEF AskedIsHeld, GetUnixTime
  <2>2. CASE asked.kind = "unix"
    BY <2>1, <2>2 DEF DatesSurvive, AskedIsHeld
  <2>3. CASE asked.kind \in {"utc", "local"}
    <3> DEFINE d == asked.date
    <3>1. d \in Date /\ DateIsSane(d) /\ lib.time \in UnixTimes(d, asked.kind)
      BY <1>1, <2>3, AskedParts DEF AskedIsHeld
    <3>2. CASE asked.kind = "utc"
      <4>1. lib.time = QuarterNumber(d)
        BY <3>1, <3>2 DEF UnixTimes
      <4>2. Gmtime(lib.time) = d
        BY <1>1, <3>1, <4>1, LocalTime, DateBack
      <4> QED BY <2>1, <3>2, <4>2 DEF DatesSurvive, RealGetTime
    <3>3. CASE asked.kind = "local"
      <4>1. lib.time \in Mktime(d)
        BY <3>1, <3>3 DEF UnixTimes
      <4>2. Localtime(lib.time) = d \/ Skipped(d)
        BY <1>1, <3>1, <4>1, LocalDateBack
      <4> QED BY <2>1, <3>3, <4>2 DEF DatesSurvive, RealGetTime
    <3> QED BY <2>3, <3>2, <3>3
  <2> QED BY <1>1, <1>3, <2>2, <2>3, AskedParts
<1> QED BY <1>2, <1>3

\* The message of a commit.
LEMMA MessageType ==
    ASSUME TypeOK
    PROVE  TimeMessage(lib, clock) \in Message
<1>1. GetUnixTime(lib, clock) \in Nat
  BY DEF TypeOK, GetUnixTime, Times
<1>2. QuarterNumber(RealGetTime(lib, clock, "utc")) = GetUnixTime(lib, clock)
  BY <1>1, LocalTime, GmtimeInverse DEF RealGetTime
<1>3. lib.timezone \in Zones \cup {Null}
  BY DEF TypeOK
<1> QED BY <1>1, <1>2, <1>3 DEF TimeMessage, Message, Times

LEMMA Start ==
    ASSUME Init
    PROVE  Inv
<1>1. clock \in Times
  <2>1. Boot - 1 \in Nat /\ Boot \in Nat \ {0} /\ 1969 <= Boot - 1
    BY TimeBounds
  <2>2. LeapDays(1969) <= LeapDays(Boot - 1)
    BY <2>1, LeapDaysGrow
  <2>3. LeapDays(1969) \in Int /\ LeapDays(Boot - 1) \in Int
    BY <2>1, LeapDaysType
  <2>4. DayNumber(Boot, 0, 1) = 365 * (Boot - 1970) + LeapDays(Boot - 1) - LeapDays(1969)
    BY <2>1, YearStart
  <2>5. DayNumber(Boot, 0, 1) \in Nat
    BY <2>1, <2>2, <2>3, <2>4
  <2> QED BY <2>5 DEF Init, Times
<1>2. SessionTypeOK /\ PlatformAgrees
  BY DEF Init, SessionInit, SessionTypeOK, PlatformAgrees
<1>3. lib \in [time_is_set : BOOLEAN, time : Times, timezone : Zones \cup {Null}]
  BY DEF Init, Times
<1>4. zone \in Zones /\ sent = Null
  BY DEF Init
<1>5. ticks \in 0..MaxTicks /\ sets \in 0..MaxSets
  BY TimeBounds DEF Init
<1>6. asked \in Asked
  BY DEF Init, Nothing, Asked
<1>7. TypeOK
  BY <1>1, <1>2, <1>3, <1>4, <1>5, <1>6 DEF TypeOK
<1>8. AskedIsHeld
  BY DEF Init, AskedIsHeld, Nothing
<1> QED BY <1>2, <1>7, <1>8 DEF Inv

-----------------------------------------------------------------------------
(* Steps of the session *)

LEMMA SessionStep ==
    ASSUME SessionTypeOK, PlatformAgrees, SessionNext
    PROVE  SessionTypeOK' /\ PlatformAgrees'
<1>1. ASSUME NEW end \in Replies, GetPlatform(end)
      PROVE  SessionTypeOK' /\ PlatformAgrees'
  BY <1>1 DEF GetPlatform, SessionTypeOK, PlatformAgrees
<1>2. ASSUME NEW end \in Replies, GetSupportedPlatforms(end)
      PROVE  SessionTypeOK' /\ PlatformAgrees'
  BY <1>2 DEF GetSupportedPlatforms, SessionTypeOK, PlatformAgrees
<1>3. ASSUME NEW p \in supported, NEW end \in Replies, SetPlatform(p, end)
      PROVE  SessionTypeOK' /\ PlatformAgrees'
  <2>1. p \in Platforms
    BY DEF SessionTypeOK
  <2>2. SetResult(end) = "OK" <=> end = "Reply"
    BY DEF SetResult
  <2>3. identified' \in {p, identified} /\ (end = "Reply" => identified' = p)
    BY <1>3 DEF SetPlatform
  <2> QED BY <1>3, <2>1, <2>2, <2>3 DEF SetPlatform, SessionTypeOK, PlatformAgrees
<1>4. ASSUME NEW p \in Platforms, OtherSetsPlatform(p)
      PROVE  SessionTypeOK' /\ PlatformAgrees'
  BY <1>4 DEF OtherSetsPlatform, SessionTypeOK, PlatformAgrees
<1> QED BY <1>1, <1>2, <1>3, <1>4 DEF SessionNext

LEMMA SessionRests ==
    ASSUME SessionTypeOK, PlatformAgrees, UNCHANGED session_vars
    PROVE  SessionTypeOK' /\ PlatformAgrees'
  BY DEF session_vars, SessionTypeOK, PlatformAgrees

-----------------------------------------------------------------------------
(* Steps of the configuration *)

LEMMA SetTimeStep ==
    ASSUME Inv, NEW d \in Date, NEW kind \in {"utc", "local"}, SetTime(d, kind)
    PROVE  Inv'
<1>1. TypeOK /\ AskedIsHeld /\ SessionTypeOK /\ PlatformAgrees /\ UNCHANGED session_vars
      /\ UNCHANGED <<clock, zone, sent, ticks>> /\ sets' \in 0..MaxSets
  BY TimeBounds DEF Inv, TypeOK, SetTime
<1>2. lib \in Lib /\ asked \in Asked
  BY <1>1 DEF TypeOK, Lib
<1>3. DateIsSane(d) <=> OnCalendar(d)
  BY SaneIsOnCalendar
<1>4. /\ lib' \in Lib /\ asked' \in Asked /\ AskedIsHeld'
  <2>1. CASE ~ DateIsSane(d)
    <3>1. UNCHANGED <<lib, asked>>
      BY <1>3, <2>1 DEF SetTime
    <3> QED BY <1>1, <1>2, <3>1 DEF AskedIsHeld
  <2>2. CASE DateIsSane(d)
    <3>1. PICK t \in UnixTimes(d, kind) : lib' = SetUnixTime(lib, t)
      BY <2>2 DEF SetTime
    <3>2. t \in Int
      BY <2>2, UnixTimesType
    <3>3. CASE t < 0
      <4>1. ~ \A u \in UnixTimes(d, kind) : u >= 0
        BY <3>2, <3>3
      <4>2. UNCHANGED <<lib, asked>>
        BY <3>1, <3>3, <4>1 DEF SetTime, SetUnixTime
      <4> QED BY <1>1, <1>2, <4>2 DEF AskedIsHeld
    <3>4. CASE t >= 0
      <4>1. \A u \in UnixTimes(d, kind) : u >= 0
        BY <2>2, <3>4, UnixTimesType
      <4>2. asked' = [kind |-> kind, date |-> d]
        BY <1>3, <2>2, <4>1 DEF SetTime
      <4>3. lib' = [lib EXCEPT !.time_is_set = TRUE, !.time = t]
        BY <3>1, <3>2, <3>4 DEF SetUnixTime
      <4>4. lib' \in Lib /\ lib'.time_is_set = TRUE /\ lib'.time = t
        <5>1. t \in Nat
          BY <3>2, <3>4
        <5> QED BY <1>2, <4>3, <5>1 DEF Lib, Times
      <4>5. asked' \in Asked /\ asked'.kind = kind /\ asked'.date = d
        BY <4>2 DEF Asked
      <4> HIDE DEF Asked, Lib
      <4> QED BY <2>2, <4>4, <4>5 DEF AskedIsHeld
    <3> QED BY <3>2, <3>3, <3>4
  <2> QED BY <2>1, <2>2
<1>5. SessionTypeOK' /\ PlatformAgrees'
  BY <1>1, SessionRests
<1>6. TypeOK'
  BY <1>1, <1>4, <1>5 DEF TypeOK, Lib
<1> QED BY <1>4, <1>5, <1>6 DEF Inv

LEMMA SetNowStep ==
    ASSUME Inv, SetNow
    PROVE  Inv'
<1>1. TypeOK /\ AskedIsHeld /\ SessionTypeOK /\ PlatformAgrees /\ UNCHANGED session_vars
      /\ UNCHANGED <<clock, zone, sent, ticks>> /\ sets' \in 0..MaxSets
  BY TimeBounds DEF Inv, TypeOK, SetNow
<1>2. lib \in Lib /\ clock \in Nat
  BY <1>1 DEF TypeOK, Lib, Times
<1>3. lib' = [lib EXCEPT !.time_is_set = TRUE, !.time = clock]
  BY <1>2 DEF SetNow, SetUnixTime
<1>4. lib' \in Lib /\ lib'.time_is_set = TRUE /\ lib'.time = clock
  BY <1>2, <1>3 DEF Lib, Times
<1>5. asked' \in Asked /\ asked'.kind = "unix" /\ asked'.time = clock
  BY <1>2 DEF SetNow, Asked, Times
<1>6. AskedIsHeld'
  BY <1>4, <1>5 DEF AskedIsHeld
<1>7. SessionTypeOK' /\ PlatformAgrees'
  BY <1>1, SessionRests
<1>8. TypeOK'
  BY <1>1, <1>4, <1>5, <1>7 DEF TypeOK, Lib
<1> QED BY <1>6, <1>7, <1>8 DEF Inv

\* The time zone is a thing of its own.
LEMMA ZoneStep ==
    ASSUME Inv, NEW z \in Zones, lib' = [lib EXCEPT !.timezone = z],
           UNCHANGED <<session_vars, clock, zone, sent, ticks, sets, asked>>
    PROVE  Inv'
<1>1. TypeOK /\ AskedIsHeld /\ SessionTypeOK /\ PlatformAgrees /\ UNCHANGED session_vars
  BY DEF Inv, TypeOK
<1>2. lib \in Lib
  BY <1>1 DEF TypeOK, Lib
<1>3. lib' \in Lib /\ lib'.time_is_set = lib.time_is_set /\ lib'.time = lib.time
  BY <1>2 DEF Lib
<1>4. AskedIsHeld'
  BY <1>1, <1>3 DEF AskedIsHeld
<1>5. SessionTypeOK' /\ PlatformAgrees'
  BY <1>1, SessionRests
<1>6. TypeOK'
  BY <1>1, <1>3, <1>5 DEF TypeOK, Lib
<1> QED BY <1>4, <1>5, <1>6 DEF Inv

LEMMA SetTimezoneStep ==
    ASSUME Inv, NEW z \in Zones, SetTimezone(z)
    PROVE  Inv'
  BY ZoneStep DEF SetTimezone

LEMMA UpdateStep ==
    ASSUME Inv, Update
    PROVE  Inv'
<1>1. zone \in Zones
  BY DEF Inv, TypeOK
<1> QED BY <1>1, ZoneStep DEF Update

\* Once the message of a commit is built, nothing is set any more.
LEMMA BuiltHeld ==
    ASSUME Inv, lib' = Built(lib), asked' = Nothing
    PROVE  lib' \in Lib /\ asked' \in Asked /\ AskedIsHeld'
<1>1. lib \in Lib
  BY DEF Inv, TypeOK, Lib
<1>2. lib' \in Lib /\ lib'.time_is_set = FALSE
  BY <1>1 DEF Lib, Built
<1>3. asked' \in Asked /\ asked'.kind = "nothing"
  BY DEF Nothing, Asked
<1> QED BY <1>2, <1>3 DEF AskedIsHeld

LEMMA ObeyedType ==
    ASSUME TypeOK, NEW m \in Message, Obeyed(m)
    PROVE  clock' \in Times /\ zone' \in Zones
  BY DEF TypeOK, Message, Obeyed

LEMMA CommitStep ==
    ASSUME Inv, NEW end, Commit(end)
    PROVE  Inv'
<1>1. TypeOK /\ SessionTypeOK /\ PlatformAgrees /\ UNCHANGED session_vars
      /\ UNCHANGED <<sent, ticks, sets>>
  BY DEF Inv, TypeOK, Commit
<1>2. lib' \in Lib /\ asked' \in Asked /\ AskedIsHeld'
  BY BuiltHeld DEF Commit
<1>3. clock' \in Times /\ zone' \in Zones
  <2>1. CASE connected /\ end = "Reply"
    <3>1. Obeyed(TimeMessage(lib, clock))
      BY <2>1 DEF Commit
    <3> QED BY <1>1, <3>1, MessageType, ObeyedType
  <2>2. CASE ~ (connected /\ end = "Reply")
    BY <1>1, <2>2 DEF Commit, TypeOK
  <2> QED BY <2>1, <2>2
<1>4. SessionTypeOK' /\ PlatformAgrees'
  BY <1>1, SessionRests
<1>5. TypeOK'
  BY <1>1, <1>2, <1>3, <1>4 DEF TypeOK, Lib
<1> QED BY <1>2, <1>4, <1>5 DEF Inv

LEMMA CommitAsyncStep ==
    ASSUME Inv, CommitAsync
    PROVE  Inv'
<1>1. TypeOK /\ SessionTypeOK /\ PlatformAgrees /\ UNCHANGED session_vars
      /\ UNCHANGED <<clock, zone, ticks, sets>>
  BY DEF Inv, TypeOK, CommitAsync
<1>2. lib' \in Lib /\ asked' \in Asked /\ AskedIsHeld'
  BY BuiltHeld DEF CommitAsync
<1>3. sent' = Null \/ sent' \in Message
  BY <1>1, MessageType DEF CommitAsync
<1>4. SessionTypeOK' /\ PlatformAgrees'
  BY <1>1, SessionRests
<1>5. TypeOK'
  BY <1>1, <1>2, <1>3, <1>4 DEF TypeOK, Lib
<1> QED BY <1>2, <1>4, <1>5 DEF Inv

LEMMA HandleStep ==
    ASSUME Inv, NEW end, Handle(end)
    PROVE  Inv'
<1>1. TypeOK /\ AskedIsHeld /\ SessionTypeOK /\ PlatformAgrees /\ UNCHANGED session_vars
      /\ UNCHANGED <<lib, ticks, sets, asked>> /\ sent' = Null
  BY DEF Inv, TypeOK, Handle
<1>2. clock' \in Times /\ zone' \in Zones
  <2>1. sent \in Message
    BY <1>1 DEF Handle, TypeOK
  <2>2. CASE end = "Reply"
    <3>1. Obeyed(sent)
      BY <2>2 DEF Handle
    <3> QED BY <1>1, <2>1, <3>1, ObeyedType
  <2>3. CASE end # "Reply"
    BY <1>1, <2>3 DEF Handle, TypeOK
  <2> QED BY <2>2, <2>3
<1>3. AskedIsHeld'
  BY <1>1 DEF AskedIsHeld
<1>4. SessionTypeOK' /\ PlatformAgrees'
  BY <1>1, SessionRests
<1>5. TypeOK'
  BY <1>1, <1>2, <1>4 DEF TypeOK
<1> QED BY <1>3, <1>4, <1>5 DEF Inv

LEMMA TickStep ==
    ASSUME Inv, Tick
    PROVE  Inv'
<1>1. TypeOK /\ AskedIsHeld /\ SessionTypeOK /\ PlatformAgrees /\ UNCHANGED session_vars
      /\ UNCHANGED <<zone, lib, sent, sets, asked>>
  BY DEF Inv, TypeOK, Tick
<1>2. clock' \in Times /\ ticks' \in 0..MaxTicks
  BY <1>1, TimeBounds DEF Tick, TypeOK, Times
<1>3. AskedIsHeld'
  BY <1>1 DEF AskedIsHeld
<1>4. SessionTypeOK' /\ PlatformAgrees'
  BY <1>1, SessionRests
<1>5. TypeOK'
  BY <1>1, <1>2, <1>4 DEF TypeOK
<1> QED BY <1>3, <1>4, <1>5 DEF Inv

LEMMA OtherStep ==
    ASSUME Inv, SessionTypeOK', PlatformAgrees', UNCHANGED time_vars
    PROVE  Inv'
<1>1. TypeOK /\ AskedIsHeld /\ UNCHANGED <<clock, zone, lib, sent, ticks, sets, asked>>
  BY DEF Inv, time_vars
<1>2. AskedIsHeld'
  BY <1>1 DEF AskedIsHeld
<1>3. TypeOK'
  BY <1>1 DEF TypeOK
<1> QED BY <1>2, <1>3 DEF Inv

LEMMA Step ==
    ASSUME Inv, [Next]_vars
    PROVE  Inv'
<1>1. TypeOK /\ SessionTypeOK /\ PlatformAgrees
  BY DEF Inv, TypeOK
<1>2. CASE SessionNext /\ UNCHANGED time_vars
  BY <1>1, <1>2, SessionStep, OtherStep
<1>3. CASE \E d \in Date, kind \in {"utc", "local"} : SetTime(d, kind)
  BY <1>3, SetTimeStep
<1>4. CASE SetNow
  BY <1>4, SetNowStep
<1>5. CASE \E z \in Zones : SetTimezone(z)
  BY <1>5, SetTimezoneStep
<1>6. CASE Update
  BY <1>6, UpdateStep
<1>7. CASE CommitAsync
  BY <1>7, CommitAsyncStep
<1>8. CASE \E end \in {"Reply", "AccessDenied"} : Commit(end) \/ Handle(end)
  BY <1>8, CommitStep, HandleStep
<1>9. CASE Tick
  BY <1>9, TickStep
<1>10. CASE UNCHANGED vars
  <2>1. UNCHANGED session_vars /\ UNCHANGED time_vars
    BY <1>10 DEF vars
  <2> QED BY <1>1, <2>1, SessionRests, OtherStep
<1> QED BY <1>2, <1>3, <1>4, <1>5, <1>6, <1>7, <1>8, <1>9, <1>10 DEF Next

-----------------------------------------------------------------------------
(* Theorems *)

\* The invariant holds for all dates, sane or not, all zones and any number of steps.
THEOREM Invariance == Spec => []Inv
  BY Start, Step, PTL DEF Spec

\* The state has its type; in particular the message of a commit always has a time
\* since 1970, whatever oobs_time_config_commit makes of the time and takes back.
THEOREM TypeCorrect == Spec => []TypeOK
<1>1. Inv => TypeOK
  BY DEF Inv
<1> QED BY <1>1, Invariance, PTL

\* oobs_time_config_get_time and oobs_time_config_get_utc_time return the date that
\* was set with oobs_time_config_set_time or _set_utc_time, for every date, every
\* time zone whose winter time is a number of quarters of an hour, from 12 hours behind
\* UTC to 14 ahead of it, and every order of calls, apart from the local dates that
\* summer time skipped; date_is_sane refuses all the other dates.
THEOREM DatesKept == Spec => []DatesSurvive
<1>1. Inv => DatesSurvive
  BY HeldDateBack DEF Inv
<1> QED BY <1>1, Invariance, PTL

\* After a success of oobs_session_get_platform or oobs_session_set_platform, the
\* library and the backends agree about the platform, until another program sets it.
THEOREM PlatformsAgree == Spec => []PlatformAgrees
<1>1. Inv => PlatformAgrees
  BY DEF Inv
<1> QED BY <1>1, Invariance, PTL
================================================================================
