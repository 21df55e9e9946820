------------------------------ MODULE Directory ------------------------------
(***************************************************************************)
(* The list of companies (view_models/companies_view_model.dart) beside    *)
(* the documents it mirrors.  Three things write the list: pull-to-refresh *)
(* replaces it by an answer that may be old, CompanyForm and ContactForm   *)
(* edit the UserModel object the list shares with the detail page and then *)
(* call updateList, the detail page deletes and calls removeFromList.      *)
(* UserModel has no operator ==, so removeFromList looks for the object    *)
(* itself; an entry therefore carries a tag that names the object.         *)
(***************************************************************************)
EXTENDS Naturals, SequencesExt, FiniteSetsExt

CONSTANTS
  Companies,     \* ids, numbered in the order of created_at
  Names,         \* what the form edits, the contact data included
  NoDoc,         \* no document
  Pages,         \* instances of the detail page
  Tags,          \* names for the objects of one company
  MaxCalls       \* bound on the calls under way at one time

ASSUME CompaniesAssumption == Companies \subseteq Nat \ {0} /\ IsFiniteSet(Companies)
ASSUME NamesAssumption == NoDoc \notin Names
ASSUME CallsAssumption == MaxCalls \in Nat

\* There is a name for one more object beside those on the pages and in the list.
ASSUME TagsAssumption ==
  /\ IsFiniteSet(Pages)
  /\ \A S \in SUBSET Tags :
       IsFiniteSet(S) /\ Cardinality(S) <= Cardinality(Pages) + 1 => S # Tags

VARIABLES
  docs,          \* docs[c]: the company's document in Firestore
  list,          \* CompaniesViewModel._companyList
  fetch,         \* the refresh under way
  adder,         \* the createProfile of CompanyForm under way
  shown,         \* shown[p]: the object widget.company of detail page p
  mounted,       \* mounted[p]: the page is on the navigator
  op,            \* op[p]: the server call the page waits for
  suspect        \* companies on which the list may differ from Firestore

vars == <<docs, list, fetch, adder, shown, mounted, op, suspect>>

Entries == [id : Companies, tag : Tags, name : Names]
NoEntry == [id |-> 0]

\* A refresh is unused, waits for Firestore, or carries its answer, which was
\* taken when Firestore answered: the documents, or nothing when there are
\* none or the query failed (FirestoreService returns null for both).
NoFetch == [at |-> "idle"]
Waiting == [at |-> "sent"]
Answered(d) == [at |-> "answered", docs |-> d]
Nothing == [c \in Companies |-> NoDoc]

NoAdder == [at |-> "none"]
NoOp == [at |-> "none", name |-> NoDoc]

Listed(c) == {i \in DOMAIN list : list[i].id = c}

\* An operation of the page that leaves the server behind or ahead of the list.
Idle(c) ==
  /\ \A p \in Pages : shown[p].id = c => op[p].at = "none"
  /\ adder.at # "none" => adder.id # c

TypeOK ==
  /\ docs \in [Companies -> Names \cup {NoDoc}]
  /\ list \in Seq(Entries)
  /\ \/ fetch \in {NoFetch, Waiting}
     \/ fetch \in [at : {"answered"}, docs : [Companies -> Names \cup {NoDoc}]]
  /\ \/ adder = NoAdder
     \/ adder \in [at : {"sent", "applied", "refused"}, id : Companies,
                   name : Names]
  /\ shown \in [Pages -> Entries \cup {NoEntry}]
  /\ mounted \in [Pages -> BOOLEAN]
  /\ op \in [Pages -> [at : {"none", "update", "updated", "delete", "deleted",
                             "failed"}, name : Names \cup {NoDoc}]]
  /\ suspect \subseteq Companies

\* Room for one more call.
Room ==
  LET calls == {p \in Pages : op[p].at # "none"}
                 \cup {f \in {"fetch"} : fetch # NoFetch}
                 \cup {a \in {"adder"} : adder # NoAdder}
  IN  Cardinality(calls) < MaxCalls

\* The entries s[k], k \in K, in some order; as they follow each other in s; and
\* sorted by created_at, newest first, where List.sort leaves open how entries
\* of the same company follow each other.
InOrder(s, K, R(_, _)) ==
  {[i \in DOMAIN f |-> s[f[i]]] :
     f \in {g \in SetToSeqs(K) : \A i, j \in DOMAIN g : i < j => R(g[i], g[j])}}
Kept(s, K) == InOrder(s, K, LAMBDA k, l : k < l)
Sorted(s, K) == InOrder(s, K, LAMBDA k, l : s[k].id >= s[l].id)

\* An object's tag is new when neither the list nor a page refers to it.
FreshTag(c, entries) ==
  CHOOSE t \in Tags : \A e \in entries : e.id = c => e.tag # t

OnPages == {shown[p] : p \in Pages}

\* UserModel.fromJson on every document of an answer, newest first.
Decode(d) ==
  Sorted([c \in Companies |-> [id |-> c, tag |-> FreshTag(c, OnPages), name |-> d[c]]],
         {c \in Companies : d[c] # NoDoc})

\* Splash fetches the companies before Home is shown.
Init ==
  /\ docs \in [Companies -> Names \cup {NoDoc}]
  /\ shown = [p \in Pages |-> NoEntry]
  /\ list \in Decode(docs)
  /\ fetch = NoFetch
  /\ adder = NoAdder
  /\ mounted = [p \in Pages |-> FALSE]
  /\ op = [p \in Pages |-> NoOp]
  /\ suspect = {}
-----------------------------------------------------------------------------
\* Refresh.

OnHome == \A p \in Pages : ~mounted[p]

Refresh ==
  /\ OnHome
  /\ fetch = NoFetch /\ Room
  /\ fetch' = Waiting
  /\ UNCHANGED <<docs, list, adder, shown, mounted, op, suspect>>

\* Firestore runs the query, or it fails.
Answer ==
  /\ fetch = Waiting
  /\ fetch' \in {Answered(docs), Answered(Nothing)}
  /\ UNCHANGED <<docs, list, adder, shown, mounted, op, suspect>>

\* Mutant: a refresh that brings nothing leaves the list as it was.
FetchReturnsKeep ==
  /\ fetch.at = "answered"
  /\ list' \in IF fetch.docs = Nothing THEN {list} ELSE Decode(fetch.docs)
  /\ suspect' = {c \in Companies : docs[c] # fetch.docs[c] \/ ~Idle(c)}
  /\ fetch' = NoFetch
  /\ UNCHANGED <<docs, adder, shown, mounted, op>>

\* Mutant: the answer is added to the list instead of replacing it.
FetchReturnsAdd ==
  /\ fetch.at = "answered"
  /\ \E new \in Decode(fetch.docs) :
       list' \in Sorted(list \o new, DOMAIN (list \o new))
  /\ suspect' = {c \in Companies : docs[c] # fetch.docs[c] \/ ~Idle(c)}
  /\ fetch' = NoFetch
  /\ UNCHANGED <<docs, adder, shown, mounted, op>>

\* fetchData clears the list after the await; on null, map throws next and the
\* list stays empty, else it becomes the decoded documents.  What happened to
\* a company since the answer, or is still happening, is not in it.
FetchReturns ==
  /\ fetch.at = "answered"
  /\ list' \in Decode(fetch.docs)
  /\ suspect' = {c \in Companies : docs[c] # fetch.docs[c] \/ ~Idle(c)}
  /\ fetch' = NoFetch
  /\ UNCHANGED <<docs, adder, shown, mounted, op>>
-----------------------------------------------------------------------------
\* Adding.

\* The chain of Provisioning as far as the list sees it.
StartAdd(c, n) ==
  /\ OnHome
  /\ adder = NoAdder /\ Room
  /\ docs[c] = NoDoc /\ Listed(c) = {} /\ c \notin suspect
  /\ \A d \in Companies : d > c => docs[d] = NoDoc /\ Listed(d) = {}
  /\ adder' = [at |-> "sent", id |-> c, name |-> n]
  /\ UNCHANGED <<docs, list, fetch, shown, mounted, op, suspect>>

AddAnswer ==
  /\ adder.at = "sent"
  /\ \/ /\ docs' = [docs EXCEPT ![adder.id] = adder.name]
        /\ adder' = [adder EXCEPT !.at = "applied"]
     \/ /\ adder' = [adder EXCEPT !.at = "refused"]
        /\ UNCHANGED docs
  /\ UNCHANGED <<list, fetch, shown, mounted, op, suspect>>

\* addToList, after the mails: whether or not the write was applied, and
\* whether or not a refresh has brought the company in the meantime.
AddReturns ==
  /\ adder.at \in {"applied", "refused"}
  /\ LET object == [id |-> adder.id, name |-> adder.name,
                    tag |-> FreshTag(adder.id, OnPages \cup Range(list))]
         longer == Append(list, object)
     IN  list' \in Sorted(longer, DOMAIN longer)
  /\ suspect' = suspect \cup (IF adder.at = "refused" \/ Listed(adder.id) # {}
                              THEN {adder.id} ELSE {})
  /\ adder' = NoAdder
  /\ UNCHANGED <<docs, fetch, shown, mounted, op>>

\* The form was left before the write was answered.
AddDies ==
  /\ adder.at \in {"applied", "refused"}
  /\ suspect' = suspect \cup {adder.id}
  /\ adder' = NoAdder
  /\ UNCHANGED <<docs, list, fetch, shown, mounted, op>>
-----------------------------------------------------------------------------
\* The detail page.

\* Tapping a company hands its object to the page.
OpenDetail(p, i) ==
  /\ OnHome
  /\ op[p].at = "none"
  /\ adder = NoAdder
  /\ shown' = [shown EXCEPT ![p] = list[i]]
  /\ mounted' = [mounted EXCEPT ![p] = TRUE]
  /\ UNCHANGED <<docs, list, fetch, adder, op, suspect>>

\* Back, also in the moment before a dialog blocks the page.  A call that is
\* under way keeps the page's state object alive.
LeaveDetail(p) ==
  /\ mounted[p]
  /\ mounted' = [mounted EXCEPT ![p] = FALSE]
  /\ shown' = [shown EXCEPT ![p] = IF op[p].at = "none" THEN NoEntry ELSE @]
  /\ UNCHANGED <<docs, list, fetch, adder, op, suspect>>

Same(e1, e2) == e1.id = e2.id /\ e1.tag = e2.tag

\* Assigning to a field of the object shows wherever the object is.
Renamed(e, p, n) == IF Same(e, shown[p]) THEN [e EXCEPT !.name = n] ELSE e

\* updateProfile of CompanyForm, or of ContactForm, writes the edits into the
\* object before it asks Firestore.
StartUpdate(p, n) ==
  /\ mounted[p]
  /\ op[p].at = "none" /\ Room
  /\ list' = [i \in DOMAIN list |-> Renamed(list[i], p, n)]
  /\ shown' = [q \in Pages |-> IF shown[q] = NoEntry THEN NoEntry
                                ELSE Renamed(shown[q], p, n)]
  /\ op' = [op EXCEPT ![p] = [at |-> "update", name |-> n]]
  /\ UNCHANGED <<docs, fetch, adder, mounted, suspect>>

\* Mutant: the company is taken out of the list before Firestore is asked.
StartDeleteEarly(p) ==
  /\ mounted[p]
  /\ op[p].at = "none" /\ Room
  /\ op' = [op EXCEPT ![p].at = "delete"]
  /\ list' \in Kept(list, {i \in DOMAIN list : ~Same(list[i], shown[p])})
  /\ UNCHANGED <<docs, fetch, adder, shown, mounted, suspect>>

StartDelete(p) ==
  /\ mounted[p]
  /\ op[p].at = "none" /\ Room
  /\ op' = [op EXCEPT ![p].at = "delete"]
  /\ UNCHANGED <<docs, list, fetch, adder, shown, mounted, suspect>>

\* update() needs the document; delete() of a missing one succeeds.
OpAnswer(p) ==
  LET c == shown[p].id
  IN  /\ \/ /\ op[p].at = "update" /\ docs[c] # NoDoc
            /\ docs' = [docs EXCEPT ![c] = op[p].name]
            /\ op' = [op EXCEPT ![p].at = "updated"]
         \/ /\ op[p].at = "delete"
            /\ docs' = [docs EXCEPT ![c] = NoDoc]
            /\ op' = [op EXCEPT ![p].at = "deleted"]
         \/ /\ op[p].at \in {"update", "delete"}
            /\ op' = [op EXCEPT ![p].at = "failed"]
            /\ UNCHANGED docs
      /\ UNCHANGED <<list, fetch, adder, shown, mounted, suspect>>

\* The call is over; a page that was left is gone with it.
Done(p) ==
  /\ op' = [op EXCEPT ![p] = NoOp]
  /\ shown' = [shown EXCEPT ![p] = IF mounted[p] THEN @ ELSE NoEntry]

\* A page that was left cannot reach the view model any more: the list is not
\* told what the call did.
ReturnsTooLate(p) ==
  /\ op[p].at \in {"updated", "deleted", "failed"}
  /\ ~mounted[p]
  /\ suspect' = suspect \cup {shown[p].id}
  /\ Done(p)
  /\ UNCHANGED <<docs, list, fetch, adder, mounted>>

\* Mutant: updateList removes the object instead of every entry with its uid.
UpdateReturnsByIdentity(p) ==
  /\ op[p].at = "updated"
  /\ mounted[p]
  /\ LET longer == Append(list, shown[p])
     IN  list' \in Sorted(longer, {i \in DOMAIN longer : i > Len(list)
                                     \/ ~Same(longer[i], shown[p])})
  /\ Done(p)
  /\ UNCHANGED <<docs, fetch, adder, mounted, suspect>>

\* updateList: every entry with the uid goes, the page's object is added.
UpdateReturns(p) ==
  /\ op[p].at = "updated"
  /\ mounted[p]
  /\ LET longer == Append(list, shown[p])
     IN  list' \in Sorted(longer, {i \in DOMAIN longer : i > Len(list)
                                     \/ longer[i].id # shown[p].id})
  /\ Done(p)
  /\ UNCHANGED <<docs, fetch, adder, mounted, suspect>>

\* The edits stay in the object, and in the list if it holds the object.
OpFails(p) ==
  /\ op[p].at = "failed"
  /\ mounted[p]
  /\ suspect' = suspect \cup {shown[p].id}
  /\ Done(p)
  /\ UNCHANGED <<docs, list, fetch, adder, mounted>>

\* removeFromList looks for the object itself; then the page closes.
DeleteReturns(p) ==
  LET kept == {i \in DOMAIN list : ~Same(list[i], shown[p])}
  IN  /\ op[p].at = "deleted"
      /\ mounted[p]
      /\ list' \in Kept(list, kept)
      /\ suspect' = suspect \cup ({shown[p].id} \cap {list[i].id : i \in kept})
      /\ mounted' = [mounted EXCEPT ![p] = FALSE]
      /\ shown' = [shown EXCEPT ![p] = NoEntry]
      /\ op' = [op EXCEPT ![p] = NoOp]
      /\ UNCHANGED <<docs, fetch, adder>>
-----------------------------------------------------------------------------
Next ==
  \/ Refresh \/ Answer \/ FetchReturns
  \/ \E c \in Companies, n \in Names : StartAdd(c, n)
  \/ AddAnswer \/ AddReturns \/ AddDies
  \/ \E p \in Pages : \E i \in DOMAIN list : OpenDetail(p, i)
  \/ \E p \in Pages, n \in Names : StartUpdate(p, n)
  \/ \E p \in Pages :
       \/ LeaveDetail(p) \/ StartDelete(p) \/ OpAnswer(p)
       \/ ReturnsTooLate(p) \/ UpdateReturns(p) \/ OpFails(p)
       \/ DeleteReturns(p)

Spec == Init /\ [][Next]_vars
-----------------------------------------------------------------------------
\* Properties.

Agrees(c) ==
  IF docs[c] = NoDoc THEN Listed(c) = {}
  ELSE \E i \in DOMAIN list : Listed(c) = {i} /\ list[i].name = docs[c]

\* The list differs from Firestore only for a known cause: a change while the
\* refresh was under way, a failed save, a refused write that was added all
\* the same, a page that was left during its call, or a removal that did not
\* find its object.  Everywhere else the entry, its number and its content
\* agree with the document, whatever the order of calls and answers.
ListTrusted ==
  \A c \in Companies : Idle(c) /\ c \notin suspect => Agrees(c)

\* ContactInfo of an intern looks its company up in the list with firstWhere,
\* which throws without one; deleting a company leaves its interns.
CompanyOf(c) == IF Listed(c) = {} THEN NoEntry ELSE list[Min(Listed(c))]

\* The lookup finds the company of an intern also while an edit, a deletion or
\* a refresh is under way: it throws only when the company was deleted, is
\* just being added, or for one of the known causes.
ContactFound ==
  \A c \in Companies :
    docs[c] # NoDoc /\ c \notin suspect /\ (adder.at # "none" => adder.id # c)
      => CompanyOf(c) # NoEntry

\* A refresh repairs all of that: when it returns and nothing has happened
\* since Firestore answered, no company is left wrong.
RefreshRepairs ==
  [][fetch.at = "answered" /\ fetch' = NoFetch /\ fetch.docs = docs
     => \A c \in Companies : Agrees(c)']_vars

\* A successful update leaves exactly one entry, with what was saved, even if
\* the list was refreshed or held the company twice when the answer came.
UpdateLeavesOne ==
  [][\A p \in Pages, c \in Companies :
       op[p].at = "updated" /\ mounted[p] /\ shown[p].id = c /\ op'[p] = NoOp
       => \E i \in DOMAIN list' :
            Listed(c)' = {i} /\ list'[i].name = op[p].name]_vars

\* "The company deleted successfully" (assets/langs/en.json): it is not in the
\* list any more.
DeletedIsGone ==
  [][\A p \in Pages, c \in Companies :
       op[p].at = "deleted" /\ mounted[p] /\ shown[p].id = c /\ op'[p] = NoOp
       => Listed(c)' = {}]_vars

\* "Unable to update company" (assets/langs/en.json): the list goes on showing
\* what Firestore holds, as before the attempt.
FailedUpdateNotShown ==
  [][\A p \in Pages, c \in Companies :
       /\ op[p].at = "failed" /\ op[p].name # NoDoc
       /\ mounted[p] /\ shown[p].id = c /\ op'[p] = NoOp
       /\ c \notin suspect
       => Agrees(c)']_vars
=============================================================================
