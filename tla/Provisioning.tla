---------------------------- MODULE Provisioning ----------------------------
(***************************************************************************)
(* Adding a company or an intern (views/company_form, views/intern_form).  *)
(*                                                                         *)
(* One tap on Save starts a chain of remote calls: create an account with  *)
(* a secondary Firebase app, upload a picture if there is one, write the   *)
(* profile document, mail the invitation, mail a copy to the administrator,*)
(* add the company to the list on screen, dismiss the loading dialog,      *)
(* announce success and close the page.  Nothing ties the calls together:  *)
(* each can fail, the user can leave the page and the application can die  *)
(* between any two of them.  config/app_config.dart sets isPublished, so   *)
(* FirestoreService and UserViewModel.sendEmail swallow their errors.      *)
(*                                                                         *)
(* A form is one instance of the page with the asynchronous chain it       *)
(* started; a chain whose page is gone goes on until it next touches the   *)
(* page's BuildContext, which throws and ends it.                          *)
(***************************************************************************)
EXTENDS Naturals

CONSTANTS
  Forms,          \* instances of the "add" page that may exist
  CompanyForms,   \* those that are CompanyForm; the others are InternForm
  Emails,         \* e-mail addresses; an account's uid stands for its address
  NoEmail         \* nothing has been submitted on the form yet

ASSUME FormsAssumption == CompanyForms \subseteq Forms
ASSUME EmailsAssumption == NoEmail \notin Emails

Kinds == {"company", "intern"}
NoDoc == "none"
DocKinds == Kinds \cup {NoDoc}

VARIABLES
  accounts,       \* Firebase Auth: the addresses that have an account
  profiles,       \* Firestore users collection: the role of the document
  outbox,         \* profile writes Firestore has accepted but not answered
  invites,        \* invites[e]: invitations the mail function has sent to e
  listed,         \* CompaniesViewModel.companyList, as a set of addresses
  announced,      \* addresses whose "... added successfully" was shown
  secondApp,      \* the secondary Firebase app 'secondpunch' exists
  page,           \* page[f]: the form's page
  submitSt,       \* submitSt[f]: the Save button is enabled
  dialog,         \* dialog[f]: the LoadingDialog of the submission
  email,          \* email[f]: the address that was submitted
  pc              \* pc[f]: what the submission is waiting for

remote == <<accounts, profiles, outbox, invites>>
form == <<page, submitSt, dialog, email, pc>>
vars == <<remote, listed, announced, secondApp, form>>

Pages == {"closed", "open", "closing"}
Dialogs == {"none", "due", "up"}
PCs == {"idle", "register", "registered", "upload", "save", "invite",
        "invited", "notify", "dismiss", "tell", "close", "failing"}

Kind(f) == IF f \in CompanyForms THEN "company" ELSE "intern"

\* A closing page stays mounted until its 300 ms transition has ended.
Mounted(f) == page[f] # "closed"

\* The loading dialog is modal and swallows the back button.
InputBlocked == \E f \in Forms : dialog[f] = "up"

TypeOK ==
  /\ accounts \subseteq Emails
  /\ profiles \in [Emails -> DocKinds]
  /\ outbox \in [Emails -> DocKinds]
  /\ invites \in [Emails -> Nat]
  /\ listed \subseteq Emails
  /\ announced \subseteq Emails
  /\ secondApp \in BOOLEAN
  /\ page \in [Forms -> Pages]
  /\ submitSt \in [Forms -> BOOLEAN]
  /\ dialog \in [Forms -> Dialogs]
  /\ email \in [Forms -> Emails \cup {NoEmail}]
  /\ pc \in [Forms -> PCs]

\* The back end may hold people added earlier, and accounts with no profile.
Init ==
  /\ accounts \in SUBSET Emails
  /\ profiles \in [Emails -> DocKinds]
  /\ \A e \in Emails : profiles[e] # NoDoc => e \in accounts
  /\ outbox = [e \in Emails |-> NoDoc]
  /\ invites = [e \in Emails |-> 0]
  /\ listed = {e \in Emails : profiles[e] = "company"}
  /\ announced = {}
  /\ secondApp = FALSE
  /\ page = [f \in Forms |-> "closed"]
  /\ submitSt = [f \in Forms |-> TRUE]
  /\ dialog = [f \in Forms |-> "none"]
  /\ email = [f \in Forms |-> NoEmail]
  /\ pc = [f \in Forms |-> "idle"]
-----------------------------------------------------------------------------
\* Helpers of the chain.

GoTo(f, l) == pc' = [pc EXCEPT ![f] = l]

\* The code after an await uses the page's context: on a page that is gone it
\* throws, the catch clause calls setState, which throws again.
Dies(f) ==
  /\ ~Mounted(f)
  /\ GoTo(f, "idle")
  /\ UNCHANGED <<page, submitSt, dialog, email>>

Continues(f, l) ==
  /\ Mounted(f)
  /\ GoTo(f, l)
  /\ UNCHANGED <<page, submitSt, dialog, email>>

\* Mutant: a failure leaves the Save button disabled.
FailsDisabled(f) ==
  \/ Dies(f)
  \/ Mounted(f) /\ GoTo(f, "failing") /\ UNCHANGED <<page, submitSt, dialog, email>>

\* The failure branches re-enable Save and schedule the dialog's dismissal.
Fails(f) ==
  \/ Dies(f)
  \/ /\ Mounted(f)
     /\ submitSt' = [submitSt EXCEPT ![f] = TRUE]
     /\ GoTo(f, "failing")
     /\ UNCHANGED <<page, dialog, email>>

\* createProfile hands the document to Firestore, which answers later.
HandOver(f) == outbox' = [outbox EXCEPT ![email[f]] = Kind(f)]
-----------------------------------------------------------------------------
\* The user.

\* Home's floating button pushes a fresh form on top of everything.
OpenForm(f) ==
  /\ ~InputBlocked
  /\ \A g \in Forms : page[g] = "closed"
  /\ pc[f] = "idle" /\ dialog[f] = "none"
  /\ page' = [page EXCEPT ![f] = "open"]
  /\ submitSt' = [submitSt EXCEPT ![f] = TRUE]
  /\ email' = [email EXCEPT ![f] = NoEmail]
  /\ UNCHANGED <<remote, listed, announced, secondApp, dialog, pc>>

\* Save with a valid form.  initializeApp may throw at once when an earlier
\* attempt has left the secondary app behind; otherwise it is there from now.
Submit(f, e) ==
  /\ ~InputBlocked
  /\ page[f] = "open"
  /\ submitSt[f]
  /\ pc[f] = "idle"
  /\ email' = [email EXCEPT ![f] = e]
  /\ dialog' = [dialog EXCEPT ![f] = "due"]
  /\ \/ /\ submitSt' = [submitSt EXCEPT ![f] = FALSE]
        /\ secondApp' = TRUE
        /\ GoTo(f, "register")
     \/ /\ secondApp
        /\ GoTo(f, "failing")
        /\ UNCHANGED <<submitSt, secondApp>>
  /\ UNCHANGED <<remote, listed, announced, page>>

\* The back button: before the dialog is up, or after it was dismissed.
Leave(f) ==
  /\ ~InputBlocked
  /\ page[f] = "open"
  /\ page' = [page EXCEPT ![f] = "closing"]
  /\ UNCHANGED <<remote, listed, announced, secondApp,
                 submitSt, dialog, email, pc>>

\* The detail page of this application, or of another device of the same
\* administrator, deletes the profile; only the former updates this list.
DeleteProfile(e) ==
  /\ profiles[e] # NoDoc
  /\ profiles' = [profiles EXCEPT ![e] = NoDoc]
  /\ listed' \in {listed, listed \ {e}}
  /\ UNCHANGED <<accounts, outbox, invites, announced, secondApp, form>>

\* The list of companies is fetched again.
Refresh ==
  /\ listed' = {e \in Emails : profiles[e] = "company"}
  /\ UNCHANGED <<remote, announced, secondApp, form>>

\* The application is killed.  Firestore keeps accepted writes on disk and
\* sends them when it runs again; everything else is in memory.
Crash ==
  /\ listed' = {}
  /\ secondApp' = FALSE
  /\ page' = [f \in Forms |-> "closed"]
  /\ submitSt' = [f \in Forms |-> TRUE]
  /\ dialog' = [f \in Forms |-> "none"]
  /\ email' = [f \in Forms |-> NoEmail]
  /\ pc' = [f \in Forms |-> "idle"]
  /\ UNCHANGED <<remote, announced>>
-----------------------------------------------------------------------------
\* The page and its dialog.

\* 250 ms after Save: shown on the navigator of a mounted page, else it throws.
ShowDialog(f) ==
  /\ dialog[f] = "due"
  /\ dialog' = [dialog EXCEPT ![f] = IF Mounted(f) THEN "up" ELSE "none"]
  /\ UNCHANGED <<remote, listed, announced, secondApp,
                 page, submitSt, email, pc>>

\* The transition of a page that was left ends and its state is disposed.
Dispose(f) ==
  /\ page[f] = "closing"
  /\ page' = [page EXCEPT ![f] = "closed"]
  /\ UNCHANGED <<remote, listed, announced, secondApp,
                 submitSt, dialog, email, pc>>
-----------------------------------------------------------------------------
\* registerWithoutAuth.

\* Mutant: an address that has an account is registered again.
CreateAccountAgain(f) ==
  /\ pc[f] = "register"
  /\ accounts' = accounts \cup {email[f]}
  /\ GoTo(f, "registered")
  /\ UNCHANGED <<profiles, outbox, invites, listed, announced, secondApp,
                 page, submitSt, dialog, email>>

\* Firebase Auth creates the account if the address is free.
CreateAccount(f) ==
  /\ pc[f] = "register"
  /\ email[f] \notin accounts
  /\ accounts' = accounts \cup {email[f]}
  /\ GoTo(f, "registered")
  /\ UNCHANGED <<profiles, outbox, invites, listed, announced, secondApp,
                 page, submitSt, dialog, email>>

\* A FirebaseAuthException (address in use, no network, also after the account
\* was created) returns a message: the secondary app is deleted.
RegisterRefused(f) ==
  /\ pc[f] \in {"register", "registered"}
  /\ secondApp' = FALSE
  /\ Fails(f)
  /\ UNCHANGED <<remote, listed, announced>>

\* Any other exception leaves the secondary app behind.
RegisterThrows(f) ==
  /\ pc[f] \in {"register", "registered"}
  /\ Fails(f)
  /\ UNCHANGED <<remote, listed, announced, secondApp>>

\* Mutant: an attempt on an address in use carries on with its account.
RegisterReturnsInUse(f) ==
  /\ \/ pc[f] = "registered"
     \/ pc[f] = "register" /\ email[f] \in accounts
  /\ secondApp' = FALSE
  /\ \/ Dies(f) /\ UNCHANGED outbox
     \/ Continues(f, "upload") /\ UNCHANGED outbox
     \/ Continues(f, "save") /\ HandOver(f)
  /\ UNCHANGED <<accounts, profiles, invites, listed, announced>>

\* The account is reported; with a picture it is uploaded first.
RegisterReturns(f) ==
  /\ pc[f] = "registered"
  /\ secondApp' = FALSE
  /\ \/ Dies(f) /\ UNCHANGED outbox
     \/ Continues(f, "upload") /\ UNCHANGED outbox
     \/ Continues(f, "save") /\ HandOver(f)
  /\ UNCHANGED <<accounts, profiles, invites, listed, announced>>
-----------------------------------------------------------------------------
\* The picture and the profile.

UploadReturns(f) ==
  /\ pc[f] = "upload"
  /\ \/ Dies(f) /\ UNCHANGED outbox
     \/ Continues(f, "save") /\ HandOver(f)
  /\ UNCHANGED <<accounts, profiles, invites, listed, announced, secondApp>>

\* FirebaseStorage returns the error object, which Uri.tryParse rejects.
UploadFails(f) ==
  /\ pc[f] = "upload"
  /\ Fails(f)
  /\ UNCHANGED <<remote, listed, announced, secondApp>>

\* Firestore applies an accepted write, or refuses it.
ApplyWrite(e) ==
  /\ outbox[e] # NoDoc
  /\ profiles' = [profiles EXCEPT ![e] = outbox[e]]
  /\ outbox' = [outbox EXCEPT ![e] = NoDoc]
  /\ UNCHANGED <<accounts, invites, listed, announced, secondApp, form>>

RefuseWrite(e) ==
  /\ outbox[e] # NoDoc
  /\ outbox' = [outbox EXCEPT ![e] = NoDoc]
  /\ UNCHANGED <<accounts, profiles, invites, listed, announced, secondApp,
                 form>>

\* Mutant: createProfile is not awaited.
SaveReturnsEarly(f) ==
  /\ pc[f] = "save"
  /\ Dies(f) \/ Continues(f, "invite")
  /\ UNCHANGED <<remote, listed, announced, secondApp>>

\* Mutant: a refused write is awaited for ever.
SaveReturnsApplied(f) ==
  /\ pc[f] = "save"
  /\ profiles[email[f]] # NoDoc
  /\ Dies(f) \/ Continues(f, "invite")
  /\ UNCHANGED <<remote, listed, announced, secondApp>>

\* createProfile returns null whether the write was applied or refused.
SaveReturns(f) ==
  /\ pc[f] = "save"
  /\ outbox[email[f]] = NoDoc
  /\ Dies(f) \/ Continues(f, "invite")
  /\ UNCHANGED <<remote, listed, announced, secondApp>>
-----------------------------------------------------------------------------
\* The mails.

\* The cloud function sends the invitation ...
SendInvite(f) ==
  /\ pc[f] = "invite"
  /\ invites' = [invites EXCEPT ![email[f]] = @ + 1]
  /\ GoTo(f, "invited")
  /\ UNCHANGED <<accounts, profiles, outbox, listed, announced, secondApp,
                 page, submitSt, dialog, email>>

\* Mutant: a failed call of the mail function is repeated.
InviteReturnsRetry(f) ==
  /\ pc[f] \in {"invite", "invited"}
  /\ Dies(f) \/ Continues(f, "notify") \/ Continues(f, "invite")
  /\ UNCHANGED <<remote, listed, announced, secondApp>>

\* ... and answers; an error of the call, sent or not, is swallowed.
InviteReturns(f) ==
  /\ pc[f] \in {"invite", "invited"}
  /\ Dies(f) \/ Continues(f, "notify")
  /\ UNCHANGED <<remote, listed, announced, secondApp>>

\* After the administrator's copy, CompanyForm adds the company to the list.
NotifyReturns(f) ==
  /\ pc[f] = "notify"
  /\ \/ Dies(f) /\ UNCHANGED listed
     \/ /\ Continues(f, "dismiss")
        /\ listed' = IF f \in CompanyForms THEN listed \cup {email[f]}
                                           ELSE listed
  /\ UNCHANGED <<remote, announced, secondApp>>
-----------------------------------------------------------------------------
\* The timers at the end.  The 1500 ms ones run out after the 250 ms dialog
\* timer and after the 300 ms transition that were started before them.

Settled(f) == dialog[f] # "due" /\ page[f] # "closing"

\* Navigator.pop takes the dialog away; without its page it throws.
Dismiss(f) ==
  /\ pc[f] = "dismiss"
  /\ Settled(f)
  /\ \/ Dies(f)
     \/ /\ Mounted(f)
        /\ dialog' = [dialog EXCEPT ![f] = "none"]
        /\ GoTo(f, "tell")
        /\ UNCHANGED <<page, submitSt, email>>
  /\ UNCHANGED <<remote, listed, announced, secondApp>>

\* "The company (intern) added successfully".
Announce(f) ==
  /\ pc[f] = "tell"
  /\ \/ Dies(f) /\ UNCHANGED announced
     \/ Continues(f, "close") /\ announced' = announced \cup {email[f]}
  /\ UNCHANGED <<remote, listed, secondApp>>

\* The page closes itself, unless the user already has.
ClosePage(f) ==
  /\ pc[f] = "close"
  /\ Settled(f)
  /\ page' = [page EXCEPT ![f] = IF @ = "open" THEN "closing" ELSE @]
  /\ GoTo(f, "idle")
  /\ UNCHANGED <<remote, listed, announced, secondApp, submitSt, dialog, email>>

\* Mutant: the failure branch shows its message without popping the dialog.
DismissFailureNoPop(f) ==
  /\ pc[f] = "failing"
  /\ Settled(f)
  /\ GoTo(f, "idle")
  /\ UNCHANGED <<remote, listed, announced, secondApp, page, submitSt, dialog,
                 email>>

\* The failure branch pops the dialog (its message is not modelled).
DismissFailure(f) ==
  /\ pc[f] = "failing"
  /\ Settled(f)
  /\ dialog' = [dialog EXCEPT ![f] = IF Mounted(f) THEN "none" ELSE @]
  /\ GoTo(f, "idle")
  /\ UNCHANGED <<remote, listed, announced, secondApp, page, submitSt, email>>
-----------------------------------------------------------------------------
User ==
  \/ \E f \in Forms : OpenForm(f) \/ Leave(f)
  \/ \E f \in Forms, e \in Emails : Submit(f, e)
  \/ \E e \in Emails : DeleteProfile(e)
  \/ Refresh
  \/ Crash

\* What the runtime and the services do for a form without the user.
Step(f) ==
  \/ ShowDialog(f) \/ Dispose(f)
  \/ CreateAccount(f) \/ RegisterRefused(f) \/ RegisterThrows(f)
  \/ RegisterReturns(f)
  \/ UploadReturns(f) \/ UploadFails(f) \/ SaveReturns(f)
  \/ SendInvite(f) \/ InviteReturns(f) \/ NotifyReturns(f)
  \/ Dismiss(f) \/ Announce(f) \/ ClosePage(f) \/ DismissFailure(f)

Answer(e) == ApplyWrite(e) \/ RefuseWrite(e)

Next ==
  \/ User
  \/ \E f \in Forms : Step(f)
  \/ \E e \in Emails : Answer(e)

\* Timers run out and the services answer in the end; the user owes nothing.
Fairness ==
  /\ \A f \in Forms : WF_vars(Step(f))
  /\ \A e \in Emails : WF_vars(Answer(e))

Spec == Init /\ [][Next]_vars
FairSpec == Spec /\ Fairness
-----------------------------------------------------------------------------
\* Properties.

\* From the answer of Firebase Auth to the end of the chain.
Owner(f) == pc[f] \in {"registered", "upload", "save", "invite", "invited",
                       "notify", "dismiss", "tell", "close"}

\* The account exists and this chain will still write the profile.
PreSave(f) == pc[f] \in {"registered", "upload"}

\* Two chains never work on the same address: a retry, or a second form of a
\* page that was left, is refused by registerWithoutAuth before it gets there.
OneRegistrant ==
  \A f, g \in Forms :
    f # g /\ Owner(f) /\ Owner(g) => email[f] # email[g]

\* createProfile calls set() on a document id that may exist: no accepted
\* write ever replaces a document, whatever was retried, left or restarted.
WritesAreFresh ==
  \A e \in Emails : outbox[e] # NoDoc => profiles[e] = NoDoc /\ e \in accounts

\* Nobody is invited twice, and nobody without an account is.
InvitedAtMostOnce ==
  \A e \in Emails : invites[e] <= 1 /\ (invites[e] = 1 => e \in accounts)

\* A person in the companies list is not an intern in Firestore, although
\* addToList runs on an answer that does not tell whether the write succeeded.
ListedIsCompany ==
  \A e \in listed : profiles[e] # "intern" /\ outbox[e] # "intern"

\* A page that is open and waits for nothing has its Save button enabled and
\* no dialog over it: every failure branch has undone what submitForm did.
IdlePageUsable ==
  \A f \in Forms :
    page[f] = "open" /\ pc[f] = "idle" => submitSt[f] /\ dialog[f] = "none"

\* The facts that make those invariants inductive.
SubmittedEmail == \A f \in Forms : pc[f] # "idle" => email[f] \in Emails
OwnerHasAccount == \A f \in Forms : Owner(f) => email[f] \in accounts
DocHasAccount == \A e \in Emails : profiles[e] # NoDoc => e \in accounts
InviteHasAccount ==
  \A e \in Emails : invites[e] > 0 \/ e \in listed => e \in accounts
OwnerBeforeSave ==
  \A f \in Forms : PreSave(f) =>
    /\ profiles[email[f]] = NoDoc
    /\ outbox[email[f]] = NoDoc
    /\ email[f] \notin listed
OwnerBeforeInvite ==
  \A f \in Forms :
    /\ PreSave(f) \/ pc[f] \in {"save", "invite"} => invites[email[f]] = 0
    /\ pc[f] \in {"invite", "invited", "notify"} => outbox[email[f]] = NoDoc
OwnerKind ==
  \A f \in Forms : Owner(f) =>
    /\ profiles[email[f]] \in {NoDoc, Kind(f)}
    /\ outbox[email[f]] \in {NoDoc, Kind(f)}

\* The inductive invariant: what each chain relies on at each of its awaits,
\* and that everything the back end holds belongs to an account.
IInv ==
  /\ TypeOK
  /\ SubmittedEmail /\ OwnerHasAccount /\ DocHasAccount /\ InviteHasAccount
  /\ OneRegistrant
  /\ OwnerBeforeSave /\ OwnerBeforeInvite /\ OwnerKind
  /\ WritesAreFresh /\ InvitedAtMostOnce /\ ListedIsCompany

\* The profile of e is still to come.
OnItsWay(e) ==
  outbox[e] # NoDoc \/ \E f \in Forms : PreSave(f) /\ email[f] = e

Status ==
  [e \in Emails |->
     IF e \notin accounts THEN "absent"
     ELSE IF profiles[e] # NoDoc THEN "enrolled"
     ELSE IF OnItsWay(e) THEN "pending" ELSE "stranded"]

\* An account that has no profile and none on its way never gets one: saving
\* the same person again cannot repair a chain that broke after registration.
StrandedStays ==
  [][\A e \in Emails : Status[e] = "stranded" => Status'[e] = "stranded"]_vars

\* What the chains do to the back end is what Enrolment allows.
Enrolled == INSTANCE Enrolment
  WITH status <- Status, mailed <- {e \in Emails : invites[e] > 0}
ImplementsEnrolment == Enrolled!Spec

\* Every submission comes to an end, whichever call failed and wherever the
\* user went, if the services answer at all.
SubmissionEnds == \A f \in Forms : pc[f] # "idle" ~> pc[f] = "idle"

\* The modal dialog over a page that is still there is taken away again.
DialogDismissed ==
  \A f \in Forms : dialog[f] = "up" /\ page[f] = "open" ~> dialog[f] = "none"

\* "The company added successfully" (assets/langs/en.json): what is
\* announced as added has a profile document.
AnnouncedIsSaved ==
  [][\A e \in announced' \ announced : profiles[e] # NoDoc]_vars

\* "... they receive their invitation the moment you add them"
\* (views/verify/fragments/success_fragment.dart).
AnnouncedIsInvited == \A e \in announced : invites[e] > 0
=============================================================================
