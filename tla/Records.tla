-------------------------------- MODULE Records --------------------------------
(***************************************************************************)
(* One intern's document and the two forms that edit it: InternForm writes *)
(* the profile, ContactForm the contact data.  A form loads its fields     *)
(* from the UserModel object of the list when it is opened; saving writes  *)
(* all of them into the object and hands them to Firestore, whose client   *)
(* keeps the writes of this device in order, over a crash as well.  Other  *)
(* devices of the same account do the same to the document.                *)
(***************************************************************************)
EXTENDS Naturals, Sequences, FiniteSetsExt

CONSTANTS
  Profile,     \* fields that updateInternProfile writes
  Contact,     \* fields that updateContactInfo writes
  Values,      \* what a field may hold
  NoDoc,       \* no document
  MaxQueue     \* bound on the writes of this device under way

ASSUME GroupsAssumption == Profile \cap Contact = {}
ASSUME NoDocAssumption == NoDoc \notin [Profile \cup Contact -> Values]
ASSUME QueueAssumption == MaxQueue \in Nat

VARIABLES
  doc,         \* the document
  object,      \* the UserModel object of this device
  form,        \* the form that is open
  queue,       \* writes that Firestore's client still has to bring to the server
  drift        \* the object may differ from what the document will be

recordsVars == <<doc, object, form, queue, drift>>

Fields == Profile \cup Contact
Records == [Fields -> Values]
Kinds == {"profile", "contact"}
Written(k) == IF k = "profile" THEN Profile ELSE Contact

\* touched: what the administrator changed; sound: nothing happened since the
\* form was opened that could make its other fields old.
NoForm == [at |-> "none"]
Forms == [at : {"editing", "saving", "applied", "refused"}, kind : Kinds,
          draft : Records, touched : SUBSET Fields, sound : BOOLEAN]
Updates == [kind : Kinds, draft : Records, touched : SUBSET Fields,
            sound : BOOLEAN]
Deletion == [kind |-> "delete"]

RecordsTypeOK ==
  /\ doc \in Records \cup {NoDoc}
  /\ object \in Records
  /\ form \in Forms \cup {NoForm}
  /\ queue \in Seq(Updates \cup {Deletion})
  /\ drift \in BOOLEAN

\* What a write makes of the document: update() needs one and leaves the
\* fields it does not name, delete() takes it away.
Merged(r, k, draft) ==
  [f \in Fields |-> IF f \in Written(k) THEN draft[f] ELSE r[f]]
Applied(d, w) == IF w = Deletion \/ d = NoDoc THEN NoDoc
                 ELSE Merged(d, w.kind, w.draft)

\* What the first n writes of q make of d, as the client shows it: a field is what
\* the last write of its form says.
Writers(q, f, n) == {i \in 1 .. n : f \in Written(q[i].kind)}
Overlay(d, q, n) ==
  IF d = NoDoc \/ \E i \in 1 .. n : q[i] = Deletion THEN NoDoc
  ELSE [f \in Fields |-> IF Writers(q, f, n) = {} THEN d[f]
                          ELSE q[Max(Writers(q, f, n))].draft[f]]

\* The document with the writes that are under way.
Seen == Overlay(doc, queue, Len(queue))

RecordsInit ==
  /\ doc \in Records
  /\ object = doc
  /\ form = NoForm
  /\ queue = <<>>
  /\ drift = FALSE
-----------------------------------------------------------------------------
\* The forms of this device.

\* Mutant: the form does not load one of its fields.
OpenHalf(k) ==
  /\ form = NoForm
  /\ \E f \in Fields, v \in Values :
       form' = [at |-> "editing", kind |-> k, touched |-> {}, sound |-> ~drift,
                draft |-> [object EXCEPT ![f] = v]]
  /\ UNCHANGED <<doc, object, queue, drift>>

OpenForm(k) ==
  /\ form = NoForm
  /\ form' = [at |-> "editing", kind |-> k, draft |-> object, touched |-> {},
              sound |-> ~drift]
  /\ UNCHANGED <<doc, object, queue, drift>>

Edit(f, v) ==
  /\ form.at = "editing"
  /\ f \in Written(form.kind)
  /\ form' = [form EXCEPT !.draft[f] = v, !.touched = @ \cup {f}]
  /\ UNCHANGED <<doc, object, queue, drift>>

Write == [kind |-> form.kind, draft |-> form.draft, touched |-> form.touched,
          sound |-> form.sound]

\* Mutant: the edits are not written into the object of the list.
SaveStale ==
  /\ form.at = "editing" /\ Len(queue) < MaxQueue
  /\ queue' = Append(queue, Write)
  /\ form' = [form EXCEPT !.at = "saving"]
  /\ UNCHANGED <<doc, object, drift>>

\* The object is written before Firestore is asked.
Save ==
  /\ form.at = "editing" /\ Len(queue) < MaxQueue
  /\ object' = Merged(object, form.kind, form.draft)
  /\ queue' = Append(queue, Write)
  /\ form' = [form EXCEPT !.at = "saving"]
  /\ UNCHANGED <<doc, drift>>

\* The form closes, or is given back with what was typed.
SaveReturns ==
  /\ \/ form.at = "applied" /\ form' = NoForm
     \/ form.at = "refused" /\ form' = [form EXCEPT !.at = "editing"]
  /\ UNCHANGED <<doc, object, queue, drift>>

Leave ==
  /\ form # NoForm
  /\ form' = NoForm
  /\ UNCHANGED <<doc, object, queue, drift>>

\* The page of the intern may still be there after its own deletion.
Delete ==
  /\ form = NoForm /\ Len(queue) < MaxQueue
  /\ queue' = Append(queue, Deletion)
  /\ drift' = TRUE
  /\ UNCHANGED <<doc, object, form>>

\* The interns are fetched (again), or the application was restarted: the form
\* is gone, the writes are not.
Reload ==
  /\ Seen # NoDoc
  /\ object' = Seen
  /\ form' = NoForm
  /\ drift' = FALSE
  /\ UNCHANGED <<doc, queue>>
-----------------------------------------------------------------------------
\* Firestore and the other devices.

\* The answer is for the form if it waits and its write is the last one.
Answered(l) ==
  IF form.at = "saving" /\ Len(queue) = 1 THEN [form EXCEPT !.at = l] ELSE form

\* What others do makes old what is loaded or under way.
Unsound(ws) ==
  [i \in DOMAIN ws |-> IF ws[i] = Deletion THEN Deletion
                       ELSE [ws[i] EXCEPT !.sound = FALSE]]
Aged(fm) == IF fm = NoForm THEN fm ELSE [fm EXCEPT !.sound = FALSE]

ServerApplies ==
  /\ queue # <<>>
  /\ Head(queue) = Deletion \/ doc # NoDoc
  /\ doc' = Applied(doc, Head(queue))
  /\ queue' = Tail(queue)
  /\ form' = Answered("applied")
  /\ UNCHANGED <<object, drift>>

\* No document to update, or no permission.  The object keeps the edit, and a
\* form opened since has loaded it.
ServerRefuses ==
  /\ queue # <<>>
  /\ queue' = Unsound(Tail(queue))
  /\ form' = IF form.at = "saving" /\ Len(queue) = 1 THEN Answered("refused")
             ELSE Aged(form)
  /\ drift' = TRUE
  /\ UNCHANGED <<doc, object>>

\* Another device saves one of the forms, with whatever it had loaded.
Elsewhere(k, r) ==
  /\ doc # NoDoc
  /\ doc' = Merged(doc, k, r)
  /\ form' = Aged(form)
  /\ queue' = Unsound(queue)
  /\ drift' = TRUE
  /\ UNCHANGED object

DeletedElsewhere ==
  /\ doc # NoDoc
  /\ doc' = NoDoc
  /\ form' = Aged(form)
  /\ queue' = Unsound(queue)
  /\ drift' = TRUE
  /\ UNCHANGED object
-----------------------------------------------------------------------------
RecordsNext ==
  \/ \E k \in Kinds : OpenForm(k) \/ \E r \in Records : Elsewhere(k, r)
  \/ \E f \in Fields, v \in Values : Edit(f, v)
  \/ Save \/ SaveReturns \/ Leave \/ Delete \/ Reload
  \/ ServerApplies \/ ServerRefuses \/ DeletedElsewhere

RecordsSpec == RecordsInit /\ [][RecordsNext]_recordsVars
-----------------------------------------------------------------------------
\* Properties.

\* The object of the list is what the document is or will be, through edits
\* that are typed, saved, left and under way, unless another device wrote, a
\* write was refused or the intern was deleted since it was loaded.
ObjectCurrent == ~drift => object = Seen

\* A save changes what its administrator changed and nothing else, although it
\* writes every field of its form, unless one of these things happened since
\* the form was opened or before, when the object was already old.
UntouchedKept ==
  [][\A f \in Fields :
       /\ doc # NoDoc /\ doc' # NoDoc /\ Len(queue') < Len(queue)
       /\ Head(queue) # Deletion /\ Head(queue).sound
       /\ f \notin Head(queue).touched
       => doc'[f] = doc[f]]_recordsVars

\* "The intern updated successfully" (assets/langs/en.json): an update changes
\* what its administrator changed and leaves the work of others alone.
NothingLost ==
  [][\A f \in Fields :
       /\ doc # NoDoc /\ doc' # NoDoc /\ Len(queue') < Len(queue)
       /\ Head(queue) # Deletion
       /\ f \notin Head(queue).touched
       => doc'[f] = doc[f]]_recordsVars
=============================================================================
