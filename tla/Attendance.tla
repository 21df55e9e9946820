------------------------------ MODULE Attendance ------------------------------
(***************************************************************************)
(* The colour of an intern on Home (InternList.build in views/home/        *)
(* fragments/intern_fragment/components/intern_list): green for who is at  *)
(* work, red for who should be, nothing else is shown.  It is computed     *)
(* anew on every snapshot and every 15 seconds from the intern's schedule  *)
(* of the weekday, the last clock-in and clock-out of that weekday, which  *)
(* the interns' own application writes, and the time of the day.           *)
(***************************************************************************)
EXTENDS Naturals, SequencesExt

CONSTANTS
  Days,        \* dates that fall on the weekday, 1 .. n in their order
  Looks,       \* Looks[d]: the year and the day of the month of d
  Hours,       \* hours at which anything happens
  MaxRows,     \* bound on the half-days of the schedule
  Blank        \* an empty field

ASSUME HoursAssumption == Hours \subseteq 0 .. 23 /\ Blank \notin Hours
ASSUME LooksAssumption == DOMAIN Looks = Days /\ Days \subseteq Nat

VARIABLES
  schedule,    \* intern.schedules[day]
  clockIn,     \* intern.clocks[day]['clock_in']
  clockOut,    \* intern.clocks[day]['clock_out']
  today, now   \* the date and the hour

attendanceVars == <<schedule, clockIn, clockOut, today, now>>

Row == [in : Hours \cup {Blank}, out : Hours \cup {Blank}]
Stamp == [day : Days, hour : Hours]

ASSUME StampAssumption == Blank \notin Stamp

AttendanceTypeOK ==
  /\ schedule \in Seq(Row)
  /\ clockIn \in Stamp \cup {Blank}
  /\ clockOut \in Stamp \cup {Blank}
  /\ clockOut # Blank => clockIn # Blank /\ clockOut.day <= clockIn.day
  /\ today \in Days
  /\ now \in Hours

\* Any schedule that Schedule lets through, reversed half-days included.
AttendanceInit ==
  /\ schedule \in BoundedSeq(Row, MaxRows)
  /\ clockIn = Blank
  /\ clockOut = Blank
  /\ today \in Days
  /\ now \in Hours
-----------------------------------------------------------------------------
\* The world.

Passes ==
  /\ \E h \in Hours : h > now /\ now' = h
  /\ UNCHANGED <<schedule, clockIn, clockOut, today>>

\* Some later date of the same weekday.
NextDay ==
  /\ \E d \in Days : d > today /\ today' = d
  /\ now' \in Hours
  /\ UNCHANGED <<schedule, clockIn, clockOut>>

\* The old clock-out may be kept in the document.
ClockIn ==
  /\ clockIn' = [day |-> today, hour |-> now]
  /\ clockOut' \in {clockOut, Blank}
  /\ UNCHANGED <<schedule, today, now>>

ClockOut ==
  /\ clockIn # Blank /\ clockIn.day = today
  /\ clockOut' = [day |-> today, hour |-> now]
  /\ UNCHANGED <<schedule, clockIn, today, now>>

AttendanceNext == Passes \/ NextDay \/ ClockIn \/ ClockOut

AttendanceSpec == AttendanceInit /\ [][AttendanceNext]_attendanceVars
-----------------------------------------------------------------------------
\* InternList.build.

\* Mutant: midnight and noon are left at 0.
DialZero(h) == h % 12

\* A time goes through DateFormat.jm(), "5:30 PM", and back through "HH:mm",
\* which stops before the "PM".
Dial(h) == IF h % 12 = 0 THEN 12 ELSE h % 12

\* The month is not compared.
IsToday(t) == t # Blank /\ Looks[t.day] = Looks[today]

\* Before the schedule is looked at.
ByClocks == IF IsToday(clockIn) /\ ~IsToday(clockOut) THEN "green" ELSE "none"

\* Mutant: who clocked in during the half-day counts as missing all the same.
ByRowTimes(row) ==
  IF IsToday(clockOut)
  THEN IF Dial(clockOut.hour) < Dial(row.out) THEN "red" ELSE "none"
  ELSE IF Dial(row.in) < Dial(now) /\ Dial(now) < Dial(row.out)
       THEN "red" ELSE "none"

\* A half-day with both times decides again, whatever was decided before it.
ByRow(row) ==
  IF IsToday(clockOut)
  THEN IF Dial(clockOut.hour) < Dial(row.out) THEN "red" ELSE "none"
  ELSE IF IsToday(clockIn) THEN "green"
  ELSE IF Dial(row.in) < Dial(now) /\ Dial(now) < Dial(row.out)
       THEN "red" ELSE "none"

Complete == {i \in DOMAIN schedule : schedule[i].in # Blank /\ schedule[i].out # Blank}

\* inTimeSt after the loop: the last complete half-day has the word.
Status == IF Complete = {} THEN ByClocks ELSE ByRow(schedule[Max(Complete)])
-----------------------------------------------------------------------------
\* Properties.

On(t) == t # Blank /\ t.day = today

\* An intern who clocked in today and has no clock-out that could be taken for
\* one of today is green, whatever the schedule.
PresentIsGreen ==
  On(clockIn) /\ ~IsToday(clockOut) => Status = "green"

\* What the colours mean: green from the clock-in of the day to its clock-out,
\* red within a half-day without a clock-in, or after a clock-out before its end.
Expected(row) ==
  IF On(clockOut) THEN IF clockOut.hour < row.out THEN "red" ELSE "none"
  ELSE IF On(clockIn) THEN "green"
  ELSE IF row.in < now /\ now < row.out THEN "red" ELSE "none"

Used == {now} \cup {t.hour : t \in {clockIn, clockOut} \ {Blank}}
              \cup UNION {{schedule[i].in, schedule[i].out} : i \in Complete}

\* The conversion to the dial and the date without its month are harmless when
\* the day has one half-day, all times lie between one o'clock and noon, or
\* all between 13 and 23 o'clock, and no clock is of a date that looks like
\* today's.
PlainIsRight ==
  /\ Cardinality(Complete) = 1
  /\ Used \subseteq 1 .. 12 \/ Used \subseteq 13 .. 23
  /\ \A t \in {clockIn, clockOut} \ {Blank} : IsToday(t) => On(t)
  => Status = Expected(schedule[Max(Complete)])

\* "Check in on these interns" (assets/langs/en.json): whoever has not clocked
\* in and should be at work is listed.
AbsentIsRed ==
  /\ ~On(clockIn) /\ ~On(clockOut)
  /\ \E i \in Complete : schedule[i].in < now /\ now < schedule[i].out
  => Status = "red"

\* "check if any users clocked in today" (intern_list): who is shown as checked
\* in has clocked in today.
GreenIsToday == Status = "green" => On(clockIn)
=============================================================================
