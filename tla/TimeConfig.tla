----------------------------- MODULE TimeConfig ------------------------------
(***************************************************************************)
(* OobsTimeConfig: the clock and the time zone of the system, over the     *)
(* connection of the session.  The clock is not read from the backends but *)
(* from the local system, until the application sets a time; from then on  *)
(* it is that time, which stands still, until the message of a commit is   *)
(* built.                                                                  *)
(*                                                                         *)
(* Times are quarters of an hour since 1970-01-01T00:00Z, which is what    *)
(* the offsets of time zones are counted in; minutes and seconds are       *)
(* checked and converted as the hours are.  The local time zone has winter *)
(* and summer time.  Calls of mktime, gmtime and localtime are modelled by *)
(* what POSIX says of them.                                                *)
(***************************************************************************)
EXTENDS Session, Integers

CONSTANTS
    Years, Months, Days, Quarters, \* What the application sets, sane or not
    Zones,       \* The names of time zones
    Winter,      \* The quarters of an hour local time is ahead of UTC, in winter
    Boot,        \* The year that starts when the model does, in UTC
    MaxTicks,    \* Bound: how often the clock moves on
    MaxSets      \* Bound: how often the application sets a time

ASSUME DatesAssumption ==
    Years \subseteq Int /\ Months \subseteq Int /\ Days \subseteq Int /\ Quarters \subseteq Int
ASSUME ZonesAssumption == Zones # {} /\ Null \notin Zones /\ Winter \in -48..56
ASSUME TimeBounds == Boot \in Nat /\ Boot >= 1970 /\ MaxTicks \in Nat /\ MaxSets \in Nat

Date == [year : Years, month : Months, day : Days, quarter : Quarters]

VARIABLES
    clock,   \* The clock of the system
    zone,    \* Its time zone
    lib,     \* priv->time_is_set, priv->time and priv->timezone
    sent,    \* The message of an asynchronous commit, until it is handled
    ticks,   \* Bound
    sets,    \* Bound
    asked    \* History: the time or date the application has set, as long as it counts

time_vars == <<clock, zone, lib, sent, ticks, sets, asked>>
vars == <<session_vars, time_vars>>

-----------------------------------------------------------------------------
(* The calendar: mktime, gmtime and localtime of the C library *)

LeapDays(y) == y \div 4 - y \div 100 + y \div 400
DaysBefore == <<0, 31, 59, 90, 120, 151, 181, 212, 243, 273, 304, 334>>

\* The days from 1970-01-01 to a date, whose day may be out of range.
DayNumber(y, m, d) ==
    LET leap == LeapDays(y) - LeapDays(y - 1) IN
    365 * (y - 1970) + LeapDays(y - 1) - LeapDays(1969) + DaysBefore[m + 1]
        + (IF m > 1 THEN leap ELSE 0) + d - 1

QuarterNumber(d) == DayNumber(d.year, d.month, d.day) * 96 + d.quarter

\* gmtime
Gmtime(t) ==
    LET n == t \div 96
        y == CHOOSE y \in 1970 + n \div 366 .. 1970 + n \div 365 :
                 DayNumber(y, 0, 1) <= n /\ n < DayNumber(y + 1, 0, 1)
        m == CHOOSE m \in 0..11 :
                 /\ DayNumber(y, m, 1) <= n
                 /\ m = 11 \/ n < DayNumber(y, m + 1, 1)
    IN [year |-> y, month |-> m, day |-> n - DayNumber(y, m, 1) + 1, quarter |-> t % 96]

\* Summer time begins and ends at 01:00 UTC, as in the European Union in 2024.
SummerTime == DayNumber(2024, 2, 31) * 96 + 4 .. DayNumber(2024, 9, 27) * 96 + 3
Offset(t) == IF t \in SummerTime THEN Winter + 4 ELSE Winter

\* localtime
Localtime(t) == Gmtime(t + Offset(t))

\* mktime with tm_isdst = -1: a local time that was skipped is taken as winter
\* or as summer time, and one that came twice as either.
Mktime(d) ==
    LET t == QuarterNumber(d)
        both == {t - Winter, t - Winter - 4}
        right == {u \in both : u + Offset(u) = t}
    IN IF right = {} THEN both ELSE right

\* Whether a date is one of the calendar, in the range of "unix-time".
OnCalendar(d) ==
    /\ d.year >= 1 /\ d.month \in 0..11 /\ d.quarter \in 0..95 /\ d.day >= 1
    /\ \/ d.month = 11 /\ d.day <= 31
       \/ d.month < 11 /\ DayNumber(d.year, d.month, d.day) < DayNumber(d.year, d.month + 1, 1)

-----------------------------------------------------------------------------
(* State *)

Times == Nat
Asked == {[kind |-> "nothing"]}
         \cup [kind : {"unix"}, time : Times]
         \cup [kind : {"utc", "local"}, date : Date]
Nothing == [kind |-> "nothing"]

Message == [time : Times, zone : Zones \cup {Null}]

TypeOK ==
    /\ SessionTypeOK
    /\ clock \in Times
    /\ zone \in Zones
    /\ lib \in [time_is_set : BOOLEAN, time : Times, timezone : Zones \cup {Null}]
    /\ sent = Null \/ sent \in Message
    /\ ticks \in 0..MaxTicks /\ sets \in 0..MaxSets
    /\ asked \in Asked

Init ==
    /\ SessionInit
    /\ clock = DayNumber(Boot, 0, 1) * 96
    /\ zone \in Zones
    /\ lib = [time_is_set |-> FALSE, time |-> 0, timezone |-> Null]
    /\ sent = Null
    /\ ticks = 0 /\ sets = 0
    /\ asked = Nothing

-----------------------------------------------------------------------------
(* Operations *)

\* Mutant: every fourth year is a leap year.
IsLeapJulian(year) == year % 4 = 0

IsLeapYear(year) == (year % 4 = 0 /\ year % 100 # 0) \/ year % 400 = 0

MonthLengths == <<31, 28, 31, 30, 31, 30, 31, 31, 30, 31, 30, 31>>

\* date_is_sane
DateIsSane(d) ==
    /\ d.year >= 1
    /\ d.month \in 0..11
    /\ d.day \in 1..(IF d.month = 1 /\ IsLeapYear(d.year) THEN 29 ELSE MonthLengths[d.month + 1])
    /\ d.quarter \in 0..95

\* Mutant: a time before 1970 is taken.
SetAnyTime(s, t) == [s EXCEPT !.time_is_set = TRUE, !.time = t]

\* oobs_time_config_set_unix_time: the property takes no time before 1970.
SetUnixTime(s, t) ==
    IF t < 0 THEN s ELSE [s EXCEPT !.time_is_set = TRUE, !.time = t]

\* oobs_time_config_get_unix_time
GetUnixTime(s, now) == IF s.time_is_set THEN s.time ELSE now

\* real_get_time
RealGetTime(s, now, kind) ==
    LET t == GetUnixTime(s, now) IN IF kind = "utc" THEN Gmtime(t) ELSE Localtime(t)

\* get_utc_unix_time and mktime, as real_set_time uses them
UnixTimes(d, kind) == IF kind = "utc" THEN {QuarterNumber(d)} ELSE Mktime(d)

\* The message of oobs_time_config_commit, which always sets the clock.
TimeMessage(s, now) == [time |-> QuarterNumber(RealGetTime(s, now, "utc")), zone |-> s.timezone]

\* Mutant: the time that was set is remembered until the next one.
BuiltKeeping(s) == s

\* What the building of the message leaves.
Built(s) == [s EXCEPT !.time_is_set = FALSE]

\* The backend obeys: an empty time zone says nothing.
Obeyed(m) ==
    /\ clock' = m.time
    /\ zone' = IF m.zone = Null THEN zone ELSE m.zone

-----------------------------------------------------------------------------
(* Actions *)

\* real_set_time
SetTime(d, kind) ==
    /\ sets < MaxSets /\ sets' = sets + 1
    /\ IF ~DateIsSane(d) THEN UNCHANGED lib
       ELSE \E t \in UnixTimes(d, kind) : lib' = SetUnixTime(lib, t)
    /\ asked' = IF OnCalendar(d) /\ \A t \in UnixTimes(d, kind) : t >= 0
                THEN [kind |-> kind, date |-> d] ELSE asked
    /\ UNCHANGED <<session_vars, clock, zone, sent, ticks>>

\* oobs_time_config_set_unix_time, here with the current time
SetNow ==
    /\ sets < MaxSets /\ sets' = sets + 1
    /\ lib' = SetUnixTime(lib, clock)
    /\ asked' = [kind |-> "unix", time |-> clock]
    /\ UNCHANGED <<session_vars, clock, zone, sent, ticks>>

\* oobs_time_config_set_timezone
SetTimezone(z) ==
    /\ lib' = [lib EXCEPT !.timezone = z]
    /\ UNCHANGED <<session_vars, clock, zone, sent, ticks, sets, asked>>

\* oobs_object_update: only the time zone is read of the reply.
Update ==
    /\ connected
    /\ lib' = [lib EXCEPT !.timezone = zone]
    /\ UNCHANGED <<session_vars, clock, zone, sent, ticks, sets, asked>>

\* oobs_object_commit.  Without a connection, or when the call fails, the message
\* has been built all the same.  Bound: no other commit is on its way.
Commit(end) ==
    /\ sent = Null
    /\ lib' = Built(lib)
    /\ asked' = Nothing
    /\ IF connected /\ end = "Reply"
       THEN Obeyed(TimeMessage(lib, clock))
       ELSE UNCHANGED <<clock, zone>>
    /\ UNCHANGED <<session_vars, sent, ticks, sets>>

\* oobs_object_commit_async.  The session may have no connection to send it on.
CommitAsync ==
    /\ sent = Null
    /\ sent' = IF connected THEN TimeMessage(lib, clock) ELSE Null
    /\ lib' = Built(lib)
    /\ asked' = Nothing
    /\ UNCHANGED <<session_vars, clock, zone, ticks, sets>>

\* The message comes to the backend, which may refuse it.
Handle(end) ==
    /\ sent # Null
    /\ sent' = Null
    /\ IF end = "Reply"
       THEN Obeyed(sent)
       ELSE UNCHANGED <<clock, zone>>
    /\ UNCHANGED <<session_vars, lib, ticks, sets, asked>>

Tick ==
    /\ ticks < MaxTicks
    /\ ticks' = ticks + 1
    /\ clock' = clock + 1
    /\ UNCHANGED <<session_vars, zone, lib, sent, sets, asked>>

Next ==
    \/ SessionNext /\ UNCHANGED time_vars
    \/ \E d \in Date, kind \in {"utc", "local"} : SetTime(d, kind)
    \/ SetNow
    \/ \E z \in Zones : SetTimezone(z)
    \/ Update
    \/ CommitAsync
    \/ \E end \in {"Reply", "AccessDenied"} : Commit(end) \/ Handle(end)
    \/ Tick

Spec == Init /\ [][Next]_vars

-----------------------------------------------------------------------------
(* Properties *)

\* A local time that no clock showed, because summer time began.
Skipped(d) == \A u \in Mktime(d) : Localtime(u) # d

\* The date that oobs_time_config_get_time or _get_utc_time returns is the last
\* one the application set by the same calendar, if there is such a date since
\* 1970, and the clock once a commit has taken it; any other date was refused
\* as a whole (date_is_sane), and mktime never had a date to put right.
DatesSurvive ==
    CASE asked.kind = "nothing" -> ~lib.time_is_set
      [] asked.kind = "unix" -> GetUnixTime(lib, clock) = asked.time
      [] OTHER -> \/ RealGetTime(lib, clock, asked.kind) = asked.date
                  \/ asked.kind = "local" /\ Skipped(asked.date)

\* A time that was set is forgotten because "we've just synchronized with the
\* system date" (oobs-timeconfig.c:260): the clock has it, or the message that is
\* on its way.  The code (oobs_time_config_commit) forgets it in any case.
Synchronized ==
    [][lib.time_is_set /\ ~lib'.time_is_set =>
           clock' = lib.time \/ (sent' # Null /\ sent'.time = lib.time)]_vars

=============================================================================
