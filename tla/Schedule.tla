------------------------------- MODULE Schedule -------------------------------
(***************************************************************************)
(* The schedule of one weekday in views/intern_form: the list of models    *)
(* that is saved, beside what its fields show.  A time passes two checks:  *)
(* TimePickerField compares a clock-out with the clock-in of its own row,  *)
(* and InternForm.onSelect compares every time with the whole day.  A row  *)
(* keeps its own labels until the form rebuilds it from the list.  A time  *)
(* is stored with the date on which the form was opened; checks and fields *)
(* look at the time of the day alone, reports take differences.            *)
(***************************************************************************)
EXTENDS Naturals, SequencesExt

CONSTANTS
  Times,      \* times of the day the picker offers
  Dates,      \* dates on which the form is opened
  NoTime,     \* an empty field
  MaxRows     \* bound on the rows of the day

Moments == [date : Dates, time : Times]

ASSUME TimesAssumption == Times \subseteq Nat /\ NoTime \notin Times \cup Moments
ASSUME DatesAssumption == Dates \subseteq Nat /\ Dates # {}

VARIABLES
  doc,        \* the schedule in the intern's document, <<>> without one
  object,     \* the schedule in the UserModel that the lists hold, if any
  models,     \* the modelList of the day
  label,      \* what the fields of each row show
  mode,       \* the form is closed, adds or edits the intern, or saves
  now         \* the date on which the form was opened last

scheduleVars == <<doc, object, models, label, mode, now>>

Sides == {"in", "out"}
Model == [in : Moments \cup {NoTime}, out : Moments \cup {NoTime}]
Fields == [in : Times \cup {NoTime}, out : Times \cup {NoTime}]
Empty == [in |-> NoTime, out |-> NoTime]

ScheduleTypeOK ==
  /\ doc \in Seq(Model)
  /\ object \in Seq(Model)
  /\ models \in Seq(Model)
  /\ label \in Seq(Fields)
  /\ Len(label) = Len(models)
  /\ mode \in {"closed", "new", "edit", "creating", "updating"}
  /\ now \in Dates

ScheduleInit ==
  /\ doc = <<>>
  /\ object = <<>>
  /\ models = <<>>
  /\ label = <<>>
  /\ mode = "closed"
  /\ now \in Dates

Editing == mode \in {"new", "edit"}

\* setState of the form: the rows have a UniqueKey, so all of them are built
\* anew and show what is in the list, its times without their dates.
LabelOf(m) == IF m = NoTime THEN NoTime ELSE m.time
Rebuilt(r) ==
  /\ models' = r
  /\ label' = [i \in DOMAIN r |-> [in |-> LabelOf(r[i].in), out |-> LabelOf(r[i].out)]]

\* The form takes the date when it is made.
Today == now' \in {d \in Dates : d >= now}
-----------------------------------------------------------------------------
OpenNew ==
  /\ mode = "closed" /\ doc = <<>>
  /\ mode' = "new"
  /\ Rebuilt(<<Empty>>)
  /\ Today
  /\ UNCHANGED <<doc, object>>

OpenEdit ==
  /\ mode = "closed" /\ object # <<>>
  /\ mode' = "edit"
  /\ Rebuilt(object)
  /\ Today
  /\ UNCHANGED <<doc, object>>

\* The interns are read (again); the next form gets a new object.
Reload ==
  /\ mode = "closed"
  /\ object # doc
  /\ object' = doc
  /\ UNCHANGED <<doc, models, label, mode, now>>

Earlier(t) ==
  \E r \in Range(models) : \E s \in Sides : r[s] # NoTime /\ t < r[s].time
At(t) == [date |-> now, time |-> t]

\* Mutant: a refused time is not taken out of the list, nor is the row rebuilt.
SelectKeeps(i, s, t) ==
  IF Earlier(t)
  THEN label' = [label EXCEPT ![i][s] = t] /\ UNCHANGED models
  ELSE Rebuilt([models EXCEPT ![i][s] = At(t)])

\* onSelect: a time before any other time of the day empties the field, its
\* own old value included in the comparison.
Select(i, s, t) ==
  Rebuilt([models EXCEPT ![i][s] = IF Earlier(t) THEN NoTime ELSE At(t)])

PickIn(i, t) ==
  /\ Editing
  /\ Select(i, "in", t)
  /\ UNCHANGED <<doc, object, mode, now>>

\* Mutant: a clock-out is checked by the day only.
PickOutUnchecked(i, t) ==
  /\ Editing
  /\ models[i].in # NoTime
  /\ Select(i, "out", t)
  /\ UNCHANGED <<doc, object, mode, now>>

\* The picker of a clock-out opens only in a row with a clock-in; a time that
\* is not after it blanks the label and leaves the list as it is.
PickOut(i, t) ==
  /\ Editing
  /\ models[i].in # NoTime
  /\ IF t <= models[i].in.time
     THEN label' = [label EXCEPT ![i].out = NoTime] /\ UNCHANGED models
     ELSE Select(i, "out", t)
  /\ UNCHANGED <<doc, object, mode, now>>

\* A long press empties the field; the form is not rebuilt.
Clear(i, s) ==
  /\ Editing
  /\ models' = [models EXCEPT ![i][s] = NoTime]
  /\ label' = [label EXCEPT ![i][s] = NoTime]
  /\ UNCHANGED <<doc, object, mode, now>>

AddRow ==
  /\ Editing
  /\ Len(models) \in 1 .. MaxRows - 1
  /\ Rebuilt(Append(models, Empty))
  /\ UNCHANGED <<doc, object, mode, now>>

\* The first row has a button to add, the others one to remove.
RemoveRow(i) ==
  /\ Editing /\ i > 1
  /\ Rebuilt(RemoveAt(models, i))
  /\ UNCHANGED <<doc, object, mode, now>>

\* createProfile makes an object of its own; updateProfile writes into the one
\* the lists hold.
Save ==
  /\ \/ mode = "new" /\ mode' = "creating" /\ UNCHANGED object
     \/ mode = "edit" /\ mode' = "updating" /\ object' = models
  /\ Rebuilt(models)
  /\ UNCHANGED <<doc, now>>

Saving == mode \in {"creating", "updating"}

\* The form closes after the write; a refused creation is not noticed.
SaveReturns ==
  /\ Saving
  /\ mode' = "closed"
  /\ doc' \in {models} \cup (IF mode = "creating" THEN {doc} ELSE {})
  /\ Rebuilt(<<>>)
  /\ UNCHANGED <<object, now>>

\* An account that is not created, or a refused update, gives the form back.
SaveFails ==
  /\ Saving
  /\ mode' = IF mode = "creating" THEN "new" ELSE "edit"
  /\ UNCHANGED <<doc, object, models, label, now>>

\* The administrator leaves the form; what was sent may or may not arrive.
Leave ==
  /\ mode # "closed"
  /\ mode' = "closed"
  /\ doc' \in {doc} \cup (IF Saving THEN {models} ELSE {})
  /\ Rebuilt(<<>>)
  /\ UNCHANGED <<object, now>>
-----------------------------------------------------------------------------
ScheduleNext ==
  \/ OpenNew \/ OpenEdit \/ Reload \/ AddRow
  \/ Save \/ SaveReturns \/ SaveFails \/ Leave
  \/ \E i \in DOMAIN models :
       \/ RemoveRow(i)
       \/ \E t \in Times : PickIn(i, t) \/ PickOut(i, t)
       \/ \E s \in Sides : Clear(i, s)

ScheduleSpec == ScheduleInit /\ [][ScheduleNext]_scheduleVars
-----------------------------------------------------------------------------
\* Properties.

\* A field that shows a time shows the one that will be saved, and only a
\* clock-out can be saved without being shown (after a refused attempt to
\* change it), whatever is picked, refused, cleared, added and removed.
ShownIsSaved ==
  \A i \in DOMAIN models :
    /\ label[i].in = LabelOf(models[i].in)
    /\ label[i].out \in {NoTime, LabelOf(models[i].out)}

\* A clock-out gets into the list only after the clock-in of its row, also
\* when the clock-in was changed, cleared or removed before.
AcceptedOutIsLater ==
  [][\A i \in DOMAIN models :
       /\ i \in DOMAIN models' /\ Len(models') = Len(models)
       /\ models'[i].out \notin {NoTime, models[i].out}
       => models[i].in # NoTime /\ models[i].in.time < models'[i].out.time]_scheduleVars

\* "Clock out time shouldn't before or equal clock in time"
\* (views/intern_form/components/time_picker_field.dart).
SavedOutIsLater ==
  \A i \in DOMAIN doc :
    doc[i].in # NoTime /\ doc[i].out # NoTime
    => doc[i].in.time < doc[i].out.time

\* "Please set clock in time first"
\* (views/intern_form/components/time_picker_field.dart).
SavedOutHasIn ==
  \A i \in DOMAIN doc : doc[i].out # NoTime => doc[i].in # NoTime

\* The reports take a half-day for the time from its clock-in to its clock-out
\* (view_models/export_view_model.dart, getScheduleTotal): then both should be
\* of one date.
PlannedIsShown ==
  \A i \in DOMAIN doc :
    doc[i].in # NoTime /\ doc[i].out # NoTime => doc[i].in.date = doc[i].out.date
=============================================================================
