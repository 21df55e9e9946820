------------------------------- MODULE MCReports -------------------------------
(***************************************************************************)
(* Two interns of two companies.  Every calendar is met by the report on   *)
(* one intern; the reports that walk through companies have one month.     *)
(***************************************************************************)
EXTENDS Reports, TLC

CONSTANTS c1, c2, i1, i2

MCHome == i1 :> c1 @@ i2 :> c2

Complete == [in |-> 8, out |-> 12]
Begun == [in |-> 13, out |-> None]
MCHalfDays == {Complete, Begun}

\* Hours that tell the weekdays apart: one too many or too few shows in the plan.
MCSchedules ==
  [i \in Interns |-> [w \in Weekdays |->
     <<[in |-> 0, out |-> 3^w], Begun>>]]

Weeks == [period : {"week"}, length : {7}, first : {0},
          weekday : 1 .. 7, hour : {0, 23}, long : {FALSE}, days : {0 .. 6}]
LongSunday == [period : {"week"}, length : {7}, first : {0},
               weekday : {7}, hour : {1, 2, 23}, long : {TRUE}, days : {0 .. 6}]
Months == UNION {[period : {"month"}, length : {n}, first : Weekdays,
                  weekday : {1}, hour : {0}, long : {FALSE},
                  days : {{7, 8, 22, 28, 29} \cap 1 .. n}] : n \in 28 .. 31}
Years == [period : {"year"}, length : {365, 366}, first : Weekdays,
          weekday : {1}, hour : {0}, long : {FALSE}, days : {{1, 2, 12}}]
OneMonth == [period : {"month"}, length : {30}, first : {2},
             weekday : {1}, hour : {0}, long : {FALSE}, days : {{28}}]

For(s, x, calendars) == {[scope |-> s, of |-> x] @@ c : c \in calendars}

MCRequests ==
  For("intern", i1, Weeks \cup LongSunday \cup Months \cup Years)
    \cup For("company", c1, OneMonth) \cup For("all", None, OneMonth)
=============================================================================
