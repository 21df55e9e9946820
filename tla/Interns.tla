------------------------------- MODULE Interns --------------------------------
(***************************************************************************)
(* The interns of one company.  InternsViewModel keeps one list for        *)
(* whichever company's page is open: the page (views/company_detail) clears *)
(* it and fetches, and it draws the list only when its own state is set,   *)
(* since nobody listens to the view model.  A page that was left still has *)
(* its answer put into the list.  An intern is opened from this page, or   *)
(* from the live list of Home (views/home/fragments/intern_fragment), and  *)
(* then edited, which may move it to another company, or deleted.          *)
(***************************************************************************)
EXTENDS Naturals, FiniteSetsExt

CONSTANTS
  People,      \* uids of interns
  Companies,   \* uids of companies
  Targets,     \* companies the form moves an intern to
  None,        \* no company, no page, no document
  Fetches,     \* calls of getInternsByCompanyID that may overlap
  Tags         \* names for the UserModel objects of one intern

ASSUME NoneAssumption == None \notin Companies /\ Targets \subseteq Companies

\* There is a name for one more object of an intern beside those in the list,
\* behind the tiles and on the view.
ASSUME TagsAssumption ==
  /\ Tags \subseteq Nat
  /\ \A S \in SUBSET Tags : IsFiniteSet(S) /\ Cardinality(S) <= 3 => S # Tags

VARIABLES
  docs,        \* docs[w]: the company in w's document
  list,        \* InternsViewModel._internList
  page,        \* the company whose page is open, None on Home
  loading,     \* loadingSt of the page
  drawn,       \* the objects behind the tiles of the page
  fetch,       \* fetch[f]: a query under way
  person,      \* widget.intern of views/intern_view_select
  mounted,     \* that view is on the navigator
  op           \* the server call of that view or of its form

vars == <<docs, list, page, loading, drawn, fetch, person, mounted, op>>

Objects == [who : People, tag : Tags, firm : Companies]
NoPerson == [who |-> None]

\* mine: the page that asked is still there.
NoFetch == [at |-> "idle"]
Queries == [at : {"sent"}, firm : Companies, mine : BOOLEAN]
Answers == [at : {"answered"}, mine : BOOLEAN, firm : Companies,
            got : SUBSET People]
NoOp == [at |-> "none"]
Calls == {"update", "updated", "delete", "deleted", "failed", "stuck"}

TypeOK ==
  /\ docs \in [People -> Companies \cup {None}]
  /\ list \subseteq Objects
  /\ page \in Companies \cup {None}
  /\ loading \in BOOLEAN
  /\ drawn \subseteq Objects
  /\ fetch \in [Fetches -> {NoFetch} \cup Queries \cup Answers]
  /\ person \in Objects \cup {NoPerson}
  /\ mounted \in BOOLEAN
  /\ op = NoOp \/ op \in [at : Calls, to : Companies \cup {None}]

\* Splash shows Home; no company's page has been opened yet.
Init ==
  /\ docs \in [People -> Companies]
  /\ list = {}
  /\ page = None
  /\ loading = FALSE
  /\ drawn = {}
  /\ fetch = [f \in Fetches |-> NoFetch]
  /\ person = NoPerson
  /\ mounted = FALSE
  /\ op = NoOp

\* UserModel.fromJson makes an object nobody refers to.
FreshTag(w) == Min({t \in Tags :
                 \A o \in list \cup drawn \cup {person} : o.who = w => o.tag # t})
Decode(ws, c) == {[who |-> w, tag |-> FreshTag(w), firm |-> c] : w \in ws}

Same(o1, o2) == o1.who = o2.who /\ o1.tag = o2.tag
-----------------------------------------------------------------------------
\* The page of a company.

Ask(f, c) ==
  /\ fetch[f] = NoFetch
  /\ fetch' = [fetch EXCEPT ![f] = [at |-> "sent", firm |-> c, mine |-> TRUE]]

\* Mutant: the list is not cleared before the query.
OpenDetailKeeps(f, c) ==
  /\ page = None /\ ~mounted
  /\ Ask(f, c)
  /\ page' = c
  /\ loading' = TRUE
  /\ UNCHANGED <<docs, list, drawn, person, mounted, op>>

\* initState runs getData, which clears the shared list first.
OpenDetail(f, c) ==
  /\ page = None /\ ~mounted
  /\ Ask(f, c)
  /\ page' = c
  /\ loading' = TRUE
  /\ list' = {}
  /\ UNCHANGED <<docs, drawn, person, mounted, op>>

\* Pulling runs getData too; the tiles stay until the answer.
Refresh(f) ==
  /\ page # None /\ ~mounted
  /\ Ask(f, page)
  /\ list' = {}
  /\ UNCHANGED <<docs, page, loading, drawn, person, mounted, op>>

\* Firestore runs the query, or it fails; both without documents are null.
Answer(f) ==
  /\ fetch[f].at = "sent"
  /\ \E got \in {{w \in People : docs[w] = fetch[f].firm}, {}} :
       fetch' = [fetch EXCEPT ![f] =
         [at |-> "answered", mine |-> @.mine, firm |-> @.firm, got |-> got]]
  /\ UNCHANGED <<docs, list, page, loading, drawn, person, mounted, op>>

\* Mutant: an answer without documents is taken for an error that is thrown.
FetchReturnsThrows(f) ==
  /\ fetch[f].at = "answered"
  /\ fetch' = [fetch EXCEPT ![f] = NoFetch]
  /\ IF fetch[f].got = {}
     THEN UNCHANGED <<list, loading, drawn>>
     ELSE /\ list' = Decode(fetch[f].got, fetch[f].firm)
          /\ IF fetch[f].mine THEN loading' = FALSE /\ drawn' = list'
                              ELSE UNCHANGED <<loading, drawn>>
  /\ UNCHANGED <<docs, page, person, mounted, op>>

\* fetchData replaces the list by an answer, whoever asked, and keeps it when
\* there is none; setState draws it if the page is still there.
FetchReturns(f) ==
  /\ fetch[f].at = "answered"
  /\ fetch' = [fetch EXCEPT ![f] = NoFetch]
  /\ list' = IF fetch[f].got = {} THEN list
             ELSE Decode(fetch[f].got, fetch[f].firm)
  /\ IF fetch[f].mine THEN loading' = FALSE /\ drawn' = list'
                      ELSE UNCHANGED <<loading, drawn>>
  /\ UNCHANGED <<docs, page, person, mounted, op>>

\* Flutter builds the page again for a reason of its own.
Rebuild ==
  /\ page # None /\ ~loading
  /\ drawn' = list
  /\ UNCHANGED <<docs, list, page, loading, fetch, person, mounted, op>>

LeaveDetail ==
  /\ page # None /\ ~mounted
  /\ page' = None
  /\ loading' = FALSE
  /\ drawn' = {}
  /\ fetch' = [f \in Fetches |-> IF fetch[f] = NoFetch THEN NoFetch
                                 ELSE [fetch[f] EXCEPT !.mine = FALSE]]
  /\ UNCHANGED <<docs, list, person, mounted, op>>
-----------------------------------------------------------------------------
\* One intern.

Open(o) ==
  /\ ~mounted /\ op = NoOp
  /\ person' = o
  /\ mounted' = TRUE
  /\ UNCHANGED <<docs, list, page, loading, drawn, fetch, op>>

\* A tile of the company's page.
OpenTile(o) == o \in drawn /\ Open(o)

\* A tile of Home: an object of the live query, not of the list.
OpenLive(w) ==
  /\ page = None /\ docs[w] # None
  /\ Open([who |-> w, tag |-> FreshTag(w), firm |-> docs[w]])

\* Back, also in the moment before a dialog blocks the view; the form of an
\* edit counts as part of it.  No other call is begun until this one is over.
LeavePerson ==
  /\ mounted /\ op.at # "stuck"
  /\ mounted' = FALSE
  /\ person' = IF op = NoOp THEN NoPerson ELSE person
  /\ UNCHANGED <<docs, list, page, loading, drawn, fetch, op>>

\* Assigning to a field of the object shows wherever the object is.
Moved(o, c) == IF Same(o, person) THEN [o EXCEPT !.firm = c] ELSE o
MovedAll(os, c) == {Moved(o, c) : o \in os}

\* updateProfile writes the company into the object before it asks Firestore.
StartUpdate(c) ==
  /\ mounted /\ op = NoOp
  /\ person' = [person EXCEPT !.firm = c]
  /\ list' = MovedAll(list, c)
  /\ drawn' = MovedAll(drawn, c)
  /\ op' = [at |-> "update", to |-> c]
  /\ UNCHANGED <<docs, page, loading, fetch, mounted>>

StartDelete ==
  /\ mounted /\ op = NoOp
  /\ op' = [at |-> "delete", to |-> None]
  /\ UNCHANGED <<docs, list, page, loading, drawn, fetch, person, mounted>>

\* What the call does to the documents: update() needs one, delete() does not.
Effect ==
  LET w == person.who
  IN  IF op.at = "update" /\ docs[w] = None THEN docs
      ELSE [docs EXCEPT ![w] = op.to]

OpAnswer ==
  /\ \/ /\ op.at = "update" /\ docs[person.who] # None
        /\ docs' = Effect
        /\ op' = [op EXCEPT !.at = "updated"]
     \/ /\ op.at = "delete"
        /\ docs' = Effect
        /\ op' = [op EXCEPT !.at = "deleted"]
     \/ /\ op.at \in {"update", "delete"}
        /\ op' = [op EXCEPT !.at = "failed"]
        /\ UNCHANGED docs
  /\ UNCHANGED <<list, page, loading, drawn, fetch, person, mounted>>

\* Mutant: updateList adds the object without taking the old one out.
UpdateReturnsTwice ==
  /\ mounted /\ op.at = "updated"
  /\ list' = list \cup {person}
  /\ op' = NoOp
  /\ UNCHANGED <<docs, page, loading, drawn, fetch, person, mounted>>

\* updateList takes out what has the uid and adds the object.
UpdateReturns ==
  /\ mounted /\ op.at = "updated"
  /\ list' = {o \in list : o.who # person.who} \cup {person}
  /\ op' = NoOp
  /\ UNCHANGED <<docs, page, loading, drawn, fetch, person, mounted>>

\* A message; the object keeps the edit.
OpFails ==
  /\ mounted /\ op.at = "failed"
  /\ op' = NoOp
  /\ UNCHANGED <<docs, list, page, loading, drawn, fetch, person, mounted>>

\* Mutant: the tiles are not drawn again after a deletion.
DeleteReturnsUndrawn ==
  /\ mounted /\ op.at = "deleted" /\ page # None
  /\ list' = {o \in list : ~Same(o, person)}
  /\ mounted' = FALSE
  /\ person' = NoPerson
  /\ op' = NoOp
  /\ UNCHANGED <<docs, page, loading, drawn, fetch>>

\* Mutant: onDelete is missing on the company's page as well.
DeleteReturnsThrows ==
  /\ mounted /\ op.at = "deleted" /\ page # None
  /\ list' = {o \in list : ~Same(o, person)}
  /\ op' = [op EXCEPT !.at = "stuck"]
  /\ UNCHANGED <<docs, page, loading, drawn, fetch, person, mounted>>

\* removeFromList takes out the object itself; onDelete draws the company's
\* page again, and the view closes.
DeleteReturns ==
  /\ mounted /\ op.at = "deleted" /\ page # None
  /\ list' = {o \in list : ~Same(o, person)}
  /\ drawn' = IF loading THEN drawn ELSE list'
  /\ mounted' = FALSE
  /\ person' = NoPerson
  /\ op' = NoOp
  /\ UNCHANGED <<docs, page, loading, fetch>>

\* Home gives no onDelete: calling it throws, and what takes the loading
\* dialog away is never reached.
DeleteReturnsHome ==
  /\ mounted /\ op.at = "deleted" /\ page = None
  /\ list' = {o \in list : ~Same(o, person)}
  /\ op' = [op EXCEPT !.at = "stuck"]
  /\ UNCHANGED <<docs, page, loading, drawn, fetch, person, mounted>>

\* A view that was left cannot reach the view model any more.
ReturnsTooLate ==
  /\ ~mounted /\ op.at \in {"updated", "deleted", "failed"}
  /\ person' = NoPerson
  /\ op' = NoOp
  /\ UNCHANGED <<docs, list, page, loading, drawn, fetch, mounted>>

\* The application is started again; a write that was sent may still arrive.
Restart ==
  /\ docs' \in {docs} \cup (IF op.at \in {"update", "delete"} THEN {Effect}
                            ELSE {})
  /\ list' = {} /\ drawn' = {}
  /\ page' = None
  /\ loading' = FALSE
  /\ fetch' = [f \in Fetches |-> NoFetch]
  /\ person' = NoPerson
  /\ mounted' = FALSE
  /\ op' = NoOp
-----------------------------------------------------------------------------
Next ==
  \/ \E f \in Fetches :
       \/ \E c \in Companies : OpenDetail(f, c)
       \/ Refresh(f) \/ Answer(f) \/ FetchReturns(f)
  \/ Rebuild \/ LeaveDetail
  \/ \E o \in drawn : OpenTile(o)
  \/ \E w \in People : OpenLive(w)
  \/ \E c \in Targets : StartUpdate(c)
  \/ LeavePerson \/ StartDelete \/ OpAnswer
  \/ UpdateReturns \/ OpFails \/ DeleteReturns \/ DeleteReturnsHome
  \/ ReturnsTooLate \/ Restart

Spec == Init /\ [][Next]_vars

\* Calls return and their continuations run; the administrator owes nothing.
Fairness ==
  /\ \A f \in Fetches : WF_vars(Answer(f)) /\ WF_vars(FetchReturns(f))
  /\ WF_vars(OpAnswer)
  /\ WF_vars(UpdateReturns) /\ WF_vars(OpFails) /\ WF_vars(ReturnsTooLate)
  /\ WF_vars(DeleteReturns) /\ WF_vars(DeleteReturnsHome)

FairSpec == Spec /\ Fairness
-----------------------------------------------------------------------------
\* Properties.

\* However the answers of several pages and the updates of objects old and new
\* are mixed, an intern is in the list once (two tiles of one uid are two Hero
\* widgets of one tag, which Flutter refuses).
OneEntry == \A o1, o2 \in list : o1.who = o2.who => o1 = o2

\* While a company's page is open, an intern of another company gets into its
\* list only with the answer to a page that was left, or by being moved there
\* from here; in particular never from the page before.
ForeignOnlyLate ==
  [][page' # None =>
       \A o \in list' : \/ o.firm = page'
                        \/ o \in list /\ page = page'
                        \/ \E f \in Fetches : fetch[f].at = "answered"
                             /\ ~fetch[f].mine /\ fetch'[f] = NoFetch
                        \/ op # op']_vars

\* A deletion leaves no tile of the intern if the list still holds the object
\* it was opened with.
DeletedIsUndrawn ==
  [][/\ mounted /\ op.at = "deleted" /\ op' = NoOp /\ page' # None
     /\ ~loading /\ \E o \in list : Same(o, person)
     => \A o \in drawn' : o.who # person.who]_vars

\* The page does not load forever: its own query ends, with or without an
\* answer, or it is left.
LoadingEnds == loading ~> ~loading

\* An edit or a deletion begun on a company's page is over some day, and its
\* loading dialog with it.
CallEnds == (op # NoOp /\ page # None) ~> (op = NoOp)

\* "${widget.company.companyName} Interns" (views/company_detail): the tiles of
\* the page are the company's interns.
TilesOfCompany == page # None /\ ~loading => \A o \in drawn : o.firm = page

\* "The intern deleted successfully" (assets/langs/en.json): a deletion that
\* Firestore has made gets to its message.
DeletionTold == (op.at = "deleted" /\ mounted) ~> (op = NoOp)
=============================================================================
