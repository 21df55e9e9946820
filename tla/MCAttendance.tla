----------------------------- MODULE MCAttendance -----------------------------
(***************************************************************************)
(* Attendance over three dates of one weekday, the first and the last of   *)
(* which have the same day of the month, as the 5th of February and of     *)
(* March of one year, with hours on both sides of noon.                    *)
(***************************************************************************)
EXTENDS Attendance, TLC

DaysDef == 1 .. 3
LooksDef == <<"5th", "12th", "5th">>
=============================================================================
