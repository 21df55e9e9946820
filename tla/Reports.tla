-------------------------------- MODULE Reports --------------------------------
(***************************************************************************)
(* The reports of view_models/export_view_model: of the working week, the  *)
(* month or the year, about every company, one company or one intern.  A   *)
(* report reads the companies, the interns of each and the clock history   *)
(* of each intern in one query after the other, while the interns clock in *)
(* and another administrator moves and deletes; a query that is refused    *)
(* answers null, like one that finds nothing.  Each intern's row has the   *)
(* hours worked by columns, their total, and the hours that the schedule   *)
(* plans for the period.                                                   *)
(***************************************************************************)
EXTENDS Integers, FiniteSetsExt, SequencesExt

CONSTANTS
  Companies, Interns,
  Home,        \* Home[i]: the company of i at the start
  Schedules,   \* Schedules[i][w]: the half-days planned for weekday w, Monday is 0
  HalfDays,    \* what an intern clocks: in and out, in hours
  Requests,    \* the reports that may be asked for, each with the calendar then
  MaxChanges,  \* bound on what happens to the documents
  None         \* nobody, or not clocked

ASSUME HomeAssumption == Home \in [Interns -> Companies] /\ None \notin Companies
ASSUME FiniteAssumption == IsFiniteSet(Interns) /\ IsFiniteSet(Companies)
ASSUME ChangesAssumption == MaxChanges \in Nat
ASSUME HalfDaysAssumption == HalfDays \subseteq [in : Nat, out : Nat \cup {None}]
ASSUME SchedulesAssumption ==
  Schedules \in [Interns -> [0 .. 6 -> Seq([in : Nat \cup {None}, out : Nat \cup {None}])]]

\* A report is about everyone, a company or an intern.  The dates of a period are
\* weekdays, days of a month or months; `length' and `first' say how many days it
\* has and on which weekday it begins; an hour is repeated on a Sunday only.
ASSUME RequestsAssumption ==
  \A r \in Requests :
    /\ r.scope \in {"all", "company", "intern"}
    /\ r.scope = "company" => r.of \in Companies
    /\ r.scope = "intern" => r.of \in Interns
    /\ r.weekday \in 1 .. 7 /\ r.hour \in 0 .. 23 /\ r.first \in 0 .. 6
    /\ r.long => r.weekday = 7
    /\ \/ r.period = "week" /\ r.length = 7 /\ r.first = 0 /\ r.days \subseteq 0 .. 6
       \/ r.period = "month" /\ r.length \in 28 .. 31 /\ r.days \subseteq 1 .. r.length
       \/ r.period = "year" /\ r.length \in {365, 366} /\ r.days \subseteq 1 .. 12

VARIABLES
  company,     \* company[i]: company_id of the document, None if deleted
  open,        \* the companies that are not deleted
  history,     \* history[i][d]: the clocks in the document of date d
  request,     \* the report, its period and the calendar
  at,          \* what it waits for
  todo,        \* the companies still to be read
  people,      \* the interns of the present company still to be read
  rows,        \* the rows written
  changes,     \* what has happened to the documents so far
  touched,     \* the interns and companies changed since the report was begun
  refused      \* the interns and companies whose query was refused

documents == <<company, open, history>>
report == <<at, todo, people, rows>>
vars == <<documents, report, request, changes, touched, refused>>

Weekdays == 0 .. 6
SchoolDays == 0 .. 4   \* Monday to Friday
-----------------------------------------------------------------------------
\* The calendar.  A date is the weekday, the day of the month or the month.

\* The hours since Monday, 0:00; a Sunday on which summer time ends has 25.
Now(r) == 24 * (r.weekday - 1) + r.hour + IF r.long /\ r.hour >= 2 THEN 1 ELSE 0

\* Mutant: Sunday is weekday 0.
FirstDaySunday(r) == (Now(r) - 24 * ((r.weekday % 7) - 1)) \div 24

\* Now less so many times 24 hours, and the date that the clock shows then.
FirstDay(r) == (Now(r) - 24 * (r.weekday - 1)) \div 24
LastDay(r) == (Now(r) - 24 * (r.weekday - 5)) \div 24

\* The dates between startDate and endDate.
Asked(r) ==
  CASE r.period = "week" -> FirstDay(r) .. LastDay(r)
    [] r.period = "month" -> 1 .. r.length
    [] r.period = "year" -> 1 .. 12

\* Mutant: the eighth starts no week.
ColumnsGap(r, d) ==
  CASE r.period = "week" -> {d} \cap SchoolDays
    [] r.period = "month" -> {w \in 1 .. 5 : d > 7 * w - 6 /\ d <= 7 * w}
    [] r.period = "year" -> {d}

\* The columns in which a date is counted.  The 28th belongs to two weeks.
Columns(r, d) ==
  CASE r.period = "week" -> {d} \cap SchoolDays
    [] r.period = "month" -> {w \in 1 .. 4 : d \in 7 * w - 6 .. 7 * w}
                             \cup (IF d >= 28 THEN {5} ELSE {})
    [] r.period = "year" -> {d}

\* Mutant: one weekday more.
OccurrenceDaysInMonthMore(n, first) ==
  [w \in Weekdays |-> IF \E i \in first .. first + n - 28 : i % 7 = w THEN 5 ELSE 4]

OccurrenceDaysInMonth(n, first) ==
  [w \in Weekdays |-> IF \E i \in first .. first + n - 29 : i % 7 = w THEN 5 ELSE 4]

OccurrenceDaysInYear(n, first) ==
  [w \in Weekdays |->
     IF w - first = 0 \/ (n = 366 /\ w - first = 1) THEN 53 ELSE 52]

\* How often the schedule of a weekday counts.
Weight(r) ==
  CASE r.period = "week" -> [w \in Weekdays |-> 1]
    [] r.period = "month" -> OccurrenceDaysInMonth(r.length, r.first)
    [] r.period = "year" -> OccurrenceDaysInYear(r.length, r.first)
-----------------------------------------------------------------------------
\* A row.

\* getTotal and getScheduleTotal: half-days that are not complete do not count.
Hours(clocks) ==
  SumFunction([h \in DOMAIN clocks |->
    IF None \in {clocks[h].in, clocks[h].out} THEN 0 ELSE clocks[h].out - clocks[h].in])

Planned(r, i) ==
  SumFunction([w \in SchoolDays |-> Weight(r)[w] * Hours(Schedules[i][w])])

\* The documents that the query finds.
Found(r, i) == {d \in Asked(r) \cap DOMAIN history[i] : history[i][d] # <<>>}

Total(i, dates) ==
  SumFunction([d \in dates |-> Hours(history[i][d])])

\* The last clock-in and the last clock-out of a day.
Shown(clocks, side) ==
  LET stamped == {h \in DOMAIN clocks : clocks[h][side] # None}
  IN  IF stamped = {} THEN None ELSE clocks[Max(stamped)][side]

\* A week's columns have the times of the day, the others the hours worked.
Column(r, i, dates, k) ==
  LET counted == {d \in dates : k \in Columns(r, d)}
  IN  CASE r.period # "week" -> Total(i, counted)
        [] r.period = "week" /\ counted = {} -> <<None, None>>
        [] r.period = "week" /\ counted # {} ->
             <<Shown(history[i][k], "in"), Shown(history[i][k], "out")>>

Width(r) == CASE r.period = "week" -> SchoolDays
              [] r.period = "month" -> 1 .. 5
              [] r.period = "year" -> 1 .. 12

\* A history that was refused is like one without documents.
Row(r, i, dates) ==
  [of |-> i, columns |-> [k \in Width(r) |-> Column(r, i, dates, k)],
   total |-> Total(i, dates), planned |-> Planned(r, i)]
-----------------------------------------------------------------------------
Stages == {"idle", "companies", "interns", "history", "file", "made", "failed"}
Idle == at \in {"idle", "made", "failed"}

TypeOK ==
  /\ company \in [Interns -> Companies \cup {None}]
  /\ open \subseteq Companies
  /\ history \in [Interns -> [request.days -> Seq(HalfDays)]]
  /\ request \in Requests
  /\ at \in Stages
  /\ todo \in Seq(Companies)
  /\ people \in Seq(Interns)
  /\ at = "interns" => todo # <<>>
  /\ at = "history" => people # <<>>
  /\ \A n \in DOMAIN rows :
       /\ rows[n].of \in Interns
       /\ DOMAIN rows[n].columns = Width(request)
       /\ rows[n].total \in Int /\ rows[n].planned \in Int
  /\ changes \in 0 .. MaxChanges
  /\ touched \cup refused \subseteq Interns \cup Companies

Init ==
  /\ company = Home
  /\ open = Companies
  /\ request \in Requests
  /\ history = [i \in Interns |-> [d \in request.days |-> <<>>]]
  /\ at = "idle"
  /\ todo = <<>> /\ people = <<>> /\ rows = <<>>
  /\ changes = 0
  /\ touched = {} /\ refused = {}
-----------------------------------------------------------------------------
\* The world.

Change(x) ==
  /\ changes < MaxChanges
  /\ changes' = changes + 1
  /\ touched' = touched \cup {x}
  /\ UNCHANGED <<report, request, refused>>

Clock(i, d) ==
  /\ Change(i)
  /\ \E h \in HalfDays : history' = [history EXCEPT ![i][d] = Append(@, h)]
  /\ UNCHANGED <<company, open>>

\* To another company, or deleted.
Move(i, c) ==
  /\ Change(i)
  /\ company[i] \notin {c, None}
  /\ company' = [company EXCEPT ![i] = c]
  /\ UNCHANGED <<open, history>>

DeleteCompany(c) ==
  /\ Change(c)
  /\ c \in open
  /\ open' = open \ {c}
  /\ UNCHANGED <<company, history>>
-----------------------------------------------------------------------------
\* The report.

\* What is read after the present query: the next intern or company, or nothing.
Onwards(companies, interns) ==
  /\ todo' = companies
  /\ people' = interns
  /\ at' = IF interns # <<>> THEN "history"
           ELSE IF companies # <<>> THEN "interns" ELSE "file"

\* A tap in ExportDialog.  One report at a time: the LoadingDialog is modal.
Ask ==
  /\ Idle
  /\ rows' = <<>>
  /\ touched' = {} /\ refused' = {}
  /\ CASE request.scope = "all" -> at' = "companies" /\ todo' = <<>> /\ people' = <<>>
       [] request.scope = "company" -> Onwards(<<request.of>>, <<>>)
       [] request.scope = "intern" -> Onwards(<<>>, <<request.of>>)
  /\ UNCHANGED <<documents, request, changes>>

Fails ==
  /\ at' = "failed"
  /\ todo' = <<>> /\ people' = <<>>
  /\ UNCHANGED rows

\* getCompanies; null has no map, also when there are no companies.
CompaniesReturn ==
  /\ at = "companies"
  /\ \E found \in {open, {}} :
       IF found = {} THEN Fails ELSE Onwards(SetToSeq(found), <<>>) /\ UNCHANGED rows
  /\ UNCHANGED <<documents, request, changes, touched, refused>>

Of(c) == {i \in Interns : company[i] = c}

\* Mutant: a company without interns ends the report.
InternsReturnStop ==
  /\ at = "interns"
  /\ \E found \in {Of(Head(todo)), {}} :
       /\ IF found = {} THEN Onwards(<<>>, <<>>) ELSE Onwards(Tail(todo), SetToSeq(found))
       /\ refused' = IF found = Of(Head(todo)) THEN refused ELSE refused \cup {Head(todo)}
  /\ UNCHANGED <<documents, rows, request, changes, touched>>

\* getInternsByCompanyID: null, refused or none there, leaves the company
\* without rows.
InternsReturn ==
  /\ at = "interns"
  /\ \E found \in {Of(Head(todo)), {}} :
       /\ Onwards(Tail(todo), SetToSeq(found))
       /\ refused' = IF found = Of(Head(todo)) THEN refused ELSE refused \cup {Head(todo)}
  /\ UNCHANGED <<documents, rows, request, changes, touched>>

\* getUserClockHistoryByDateRange.
HistoryReturns ==
  /\ at = "history"
  /\ LET i == Head(people)
     IN  \E dates \in {Found(request, i), {}} :
           /\ rows' = Append(rows, Row(request, i, dates))
           /\ refused' = IF dates = Found(request, i) THEN refused ELSE refused \cup {i}
  /\ Onwards(todo, Tail(people))
  /\ UNCHANGED <<documents, request, changes, touched>>

\* The file is written, or the disk is full.
FileReturns ==
  /\ at = "file"
  /\ at' \in {"made", "failed"}
  /\ UNCHANGED <<documents, todo, people, rows, request, changes, touched, refused>>
-----------------------------------------------------------------------------
Next ==
  \/ \E i \in Interns : \/ \E d \in request.days : Clock(i, d)
                        \/ \E c \in Companies \cup {None} : Move(i, c)
  \/ \E c \in Companies : DeleteCompany(c)
  \/ Ask \/ CompaniesReturn \/ InternsReturn \/ HistoryReturns \/ FileReturns

Spec == Init /\ [][Next]_vars
-----------------------------------------------------------------------------
\* Properties.

RowsOf(i) == {n \in DOMAIN rows : rows[n].of = i}

\* Who belongs into the report as the documents are now.
Covers(r, i) ==
  CASE r.scope = "all" -> company[i] \in open
    [] r.scope = "company" -> company[i] = r.of
    [] r.scope = "intern" -> i = r.of

\* Whatever moves and is deleted meanwhile, an intern who does not has one row
\* in a report that was made if he belongs there, and none otherwise, unless his
\* company was deleted meanwhile or its interns could not be read.
ListedOnce ==
  at = "made" => \A i \in Interns :
    {i, company[i]} \cap touched = {} /\ company[i] \notin refused
      => Cardinality(RowsOf(i)) = IF Covers(request, i) THEN 1 ELSE 0

\* The rows that were read and of which nothing has changed since.
Current == {n \in DOMAIN rows : rows[n].of \notin touched \cup refused}

\* The total of a row, date by date, as the calendar on the wall has them.
TotalRight(n) ==
  LET i == rows[n].of
  IN  rows[n].total = Total(i, DOMAIN history[i] \cap
        IF request.period = "week" THEN SchoolDays ELSE request.days)

\* The total is that of the period: nothing of another week gets in, nothing is
\* left out, except in the 25th hour of a Sunday, when the week is another one.
TotalOfPeriod == Now(request) < 24 * 7 => \A n \in Current : TotalRight(n)

\* The columns of a month or a year add up to the total, but for the hours of
\* the 28th, which are in two of them.
ColumnsAddUp ==
  \A n \in Current :
    \/ request.period = "week"
    \/ request.period = "month" /\ history[rows[n].of][28] # <<>>
    \/ rows[n].total = SumFunction(rows[n].columns)

\* The hours planned in a row, date by date.
PlannedRight(n) ==
  LET comes(w) == {d \in 0 .. request.length - 1 : (request.first + d) % 7 = w}
  IN  rows[n].planned = SumFunction(
        [w \in SchoolDays |-> Cardinality(comes(w)) * Hours(Schedules[rows[n].of][w])])

LeapSunday(r) == r.period = "year" /\ r.length = 366 /\ r.first = 6

\* The hours planned are those of the school days in the period, except in a
\* leap year that begins on a Sunday, one of whose Mondays is missed.
PlannedByCalendar ==
  ~LeapSunday(request) => \A n \in DOMAIN rows : PlannedRight(n)

\* "${date.month}/29-${date.month}/${lastDayOfMonth.day}"
\* (view_models/export_view_model.dart): the fifth column begins on the 29th.
FifthWeekFrom29 ==
  request.period = "month" => \A n \in Current :
    LET i == rows[n].of
    IN  rows[n].columns[5] = Total(i, {d \in DOMAIN history[i] : d >= 29})

\* "Unable to create the CSV file, please try again later" (views/home/home.dart):
\* a report that could not be read is not shared.
MadeIsRead == at = "made" => refused = {}

\* No year misses a Monday.
PlannedEveryYear == \A n \in DOMAIN rows : PlannedRight(n)

\* A week's report is of that week, at whatever hour it is asked for.
WeekOfAnyHour == \A n \in Current : TotalRight(n)
=============================================================================
