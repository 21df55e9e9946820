-------------------------- MODULE ProvisioningProofs --------------------------
(***************************************************************************)
(* Theorems about Provisioning, for every set of forms and of addresses.   *)
(***************************************************************************)
EXTENDS Provisioning, TLAPS

\* What a step needs to know to keep the types: a chain that is under way has
\* an address.  (TypeOK alone is not inductive: CreateAccount adds email[f].)
TInv == TypeOK /\ SubmittedEmail

\* The initial states have the types.
LEMMA TypeInit == Init => TInv
<1> SUFFICES ASSUME Init PROVE TInv
  OBVIOUS
<1> USE DEF Init
<1>1. /\ accounts \subseteq Emails
      /\ profiles \in [Emails -> DocKinds]
      /\ listed \subseteq Emails
      /\ announced \subseteq Emails
      /\ secondApp \in BOOLEAN
  OBVIOUS
<1>2. outbox \in [Emails -> DocKinds] /\ invites \in [Emails -> Nat]
  BY DEF DocKinds
<1>3. /\ page \in [Forms -> Pages]
      /\ submitSt \in [Forms -> BOOLEAN]
      /\ dialog \in [Forms -> Dialogs]
  BY DEF Pages, Dialogs
<1>4. email \in [Forms -> Emails \cup {NoEmail}] /\ pc \in [Forms -> PCs]
  BY DEF PCs
<1>5. SubmittedEmail
  BY DEF SubmittedEmail
<1>6. QED
  BY <1>1, <1>2, <1>3, <1>4, <1>5 DEF TInv, TypeOK

\* What the administrator and a crash do keeps the types.
LEMMA TypeUser == TInv /\ User => TInv'
<1> SUFFICES ASSUME TInv, User PROVE TInv'
  OBVIOUS
<1> USE EmailsAssumption DEF TInv, TypeOK, SubmittedEmail, form, remote
<1>1. ASSUME NEW f \in Forms, OpenForm(f) PROVE TInv'
  BY <1>1 DEF OpenForm, Pages
<1>2. ASSUME NEW f \in Forms, Leave(f) PROVE TInv'
  BY <1>2 DEF Leave, Pages
<1>3. ASSUME NEW f \in Forms, NEW e \in Emails, Submit(f, e) PROVE TInv'
  BY <1>3 DEF Submit, Dialogs, PCs, GoTo
<1>4. ASSUME NEW e \in Emails, DeleteProfile(e) PROVE TInv'
  BY <1>4 DEF DeleteProfile, DocKinds, NoDoc
<1>5. CASE Refresh
  BY <1>5 DEF Refresh
<1>6. CASE Crash
  BY <1>6 DEF Crash, Pages, Dialogs, PCs
<1>7. QED
  BY <1>1, <1>2, <1>3, <1>4, <1>5, <1>6 DEF User

\* Every step of a chain keeps the types, one case per step.
LEMMA TypeStep == ASSUME NEW f \in Forms PROVE TInv /\ Step(f) => TInv'
<1> SUFFICES ASSUME TInv, Step(f) PROVE TInv'
  OBVIOUS
<1> USE EmailsAssumption DEF TInv, TypeOK, SubmittedEmail, form, remote,
        GoTo, PCs
<1>1. CASE ShowDialog(f)
  BY <1>1 DEF ShowDialog, Dialogs
<1>2. CASE Dispose(f)
  BY <1>2 DEF Dispose, Pages
<1>3. CASE CreateAccount(f)
  BY <1>3 DEF CreateAccount
<1>4. CASE RegisterRefused(f)
  BY <1>4 DEF RegisterRefused, Fails, Dies
<1>5. CASE RegisterThrows(f)
  BY <1>5 DEF RegisterThrows, Fails, Dies
<1>6. CASE RegisterReturns(f)
  BY <1>6 DEF RegisterReturns, Dies, Continues, HandOver, Kind, Kinds, DocKinds
<1>7. CASE UploadReturns(f)
  BY <1>7 DEF UploadReturns, Dies, Continues, HandOver, Kind, Kinds, DocKinds
<1>8. CASE UploadFails(f)
  BY <1>8 DEF UploadFails, Fails, Dies
<1>9. CASE SaveReturns(f)
  BY <1>9 DEF SaveReturns, Dies, Continues
<1>10. CASE SendInvite(f)
  BY <1>10 DEF SendInvite
<1>11. CASE InviteReturns(f)
  BY <1>11 DEF InviteReturns, Dies, Continues
<1>12. CASE NotifyReturns(f)
  BY <1>12 DEF NotifyReturns, Dies, Continues
<1>13. CASE Dismiss(f)
  BY <1>13 DEF Dismiss, Dies, Dialogs
<1>14. CASE Announce(f)
  BY <1>14 DEF Announce, Dies, Continues
<1>15. CASE ClosePage(f)
  BY <1>15 DEF ClosePage, Pages
<1>16. CASE DismissFailure(f)
  BY <1>16 DEF DismissFailure, Dialogs
<1>17. QED
  BY <1>1, <1>2, <1>3, <1>4, <1>5, <1>6, <1>7, <1>8, <1>9, <1>10, <1>11,
     <1>12, <1>13, <1>14, <1>15, <1>16 DEF Step

\* Firestore's answers keep the types.
LEMMA TypeAnswer == ASSUME NEW e \in Emails PROVE TInv /\ Answer(e) => TInv'
BY DEF TInv, TypeOK, SubmittedEmail, form, Answer, ApplyWrite, RefuseWrite,
       DocKinds, NoDoc

\* TInv is inductive.
LEMMA TypeNext == TInv /\ [Next]_vars => TInv'
<1>1. TInv /\ UNCHANGED vars => TInv'
  BY DEF TInv, TypeOK, SubmittedEmail, vars, remote, form
<1>2. QED
  BY <1>1, TypeUser, TypeStep, TypeAnswer DEF Next

\* Every variable keeps its type, and a chain under way has an address.
THEOREM TypeCorrect == Spec => []TypeOK
<1>1. TInv => TypeOK
  BY DEF TInv
<1>2. QED
  BY <1>1, TypeInit, TypeNext, PTL DEF Spec
-----------------------------------------------------------------------------
\* The parts of IInv beside TypeOK.
Facts ==
  /\ OwnerHasAccount /\ DocHasAccount /\ InviteHasAccount /\ OneRegistrant
  /\ OwnerBeforeSave /\ OwnerBeforeInvite /\ OwnerKind
  /\ WritesAreFresh /\ InvitedAtMostOnce /\ ListedIsCompany

\* The initial states satisfy the facts: no chain is under way yet.
LEMMA FactsInit == Init => Facts
<1> SUFFICES ASSUME Init, TypeOK PROVE Facts
  BY TypeInit DEF TInv
<1>1. \A f \in Forms : ~Owner(f) /\ ~PreSave(f) /\ pc[f] = "idle"
  BY DEF Init, Owner, PreSave
<1>2. WritesAreFresh /\ ListedIsCompany /\ InvitedAtMostOnce
  BY DEF Init, WritesAreFresh, ListedIsCompany, InvitedAtMostOnce, NoDoc
<1>3. DocHasAccount /\ InviteHasAccount
  BY DEF Init, DocHasAccount, InviteHasAccount, NoDoc
<1>4. QED
  BY <1>1, <1>2, <1>3 DEF Facts, OwnerHasAccount, OneRegistrant,
     OwnerBeforeSave, OwnerBeforeInvite, OwnerKind

\* A step that leaves the back end and the list alone and takes no form
\* further than it was, but for a save that has been answered.
LEMMA Quiet ==
  ASSUME Facts, UNCHANGED <<remote, listed>>,
         \A g \in Forms : Owner(g)' => Owner(g) /\ email'[g] = email[g],
         \A g \in Forms : PreSave(g)' => PreSave(g),
         \A g \in Forms : pc'[g] \in {"save", "invite"}
                            => pc[g] \in {"save", "invite"},
         \A g \in Forms : pc'[g] \in {"invite", "invited", "notify"}
                            => \/ pc[g] \in {"invite", "invited", "notify"}
                               \/ outbox[email[g]] = NoDoc
  PROVE  Facts'
<1> USE DEF Facts, remote
<1>1. OwnerHasAccount' /\ OneRegistrant' /\ OwnerKind'
  BY DEF OwnerHasAccount, OneRegistrant, OwnerKind
<1>2. DocHasAccount' /\ InviteHasAccount' /\ WritesAreFresh'
      /\ InvitedAtMostOnce' /\ ListedIsCompany'
  BY DEF DocHasAccount, InviteHasAccount, WritesAreFresh, InvitedAtMostOnce,
         ListedIsCompany
<1>3. \A g \in Forms : PreSave(g)' => Owner(g)'
  BY DEF PreSave, Owner
<1>4. OwnerBeforeSave'
  BY <1>3 DEF OwnerBeforeSave
<1>5. OwnerBeforeInvite'
  <2> SUFFICES ASSUME NEW g \in Forms
               PROVE /\ (PreSave(g) \/ pc[g] \in {"save", "invite"})'
                           => invites'[email'[g]] = 0
                     /\ pc'[g] \in {"invite", "invited", "notify"}
                           => outbox'[email'[g]] = NoDoc
    BY DEF OwnerBeforeInvite
  <2>1. pc'[g] \in {"save", "invite", "invited", "notify"} => Owner(g)'
    BY DEF Owner
  <2>2. QED
    BY <1>3, <2>1 DEF OwnerBeforeInvite
<1>6. QED
  BY <1>1, <1>2, <1>4, <1>5

\* The steps that move one form and touch neither the back end nor the list.
LEMMA QuietStep ==
  ASSUME NEW f \in Forms, TInv, Facts,
         \/ ShowDialog(f) \/ Dispose(f)
         \/ RegisterRefused(f) \/ RegisterThrows(f)
         \/ UploadFails(f) \/ SaveReturns(f) \/ InviteReturns(f)
         \/ Dismiss(f) \/ Announce(f) \/ ClosePage(f) \/ DismissFailure(f)
  PROVE  Facts'
<1> USE DEF TInv, TypeOK, GoTo, Owner, PreSave
<1>1. CASE ShowDialog(f) \/ Dispose(f)
  BY <1>1, Quiet DEF ShowDialog, Dispose
<1>2. CASE RegisterRefused(f) \/ RegisterThrows(f) \/ UploadFails(f)
  BY <1>2, Quiet DEF RegisterRefused, RegisterThrows, UploadFails, Fails, Dies
<1>3. CASE SaveReturns(f)
  BY <1>3, Quiet DEF SaveReturns, Dies, Continues
<1>4. CASE InviteReturns(f)
  <2>1. pc[f] \in {"invite", "invited"} => outbox[email[f]] = NoDoc
    BY DEF Facts, OwnerBeforeInvite
  <2>2. QED
    BY <1>4, <2>1, Quiet DEF InviteReturns, Dies, Continues
<1>5. CASE Dismiss(f) \/ Announce(f)
  BY <1>5, Quiet DEF Dismiss, Announce, Dies, Continues
<1>6. CASE ClosePage(f) \/ DismissFailure(f)
  BY <1>6, Quiet DEF ClosePage, DismissFailure
<1>7. QED
  BY <1>1, <1>2, <1>3, <1>4, <1>5, <1>6

\* A new account has no document, no invitation, no entry in the list and no
\* other chain working on it, because everything of that kind has an account.
LEMMA CreateStep ==
  ASSUME NEW f \in Forms, TInv, Facts, CreateAccount(f)
  PROVE  Facts'
<1> USE DEF TInv, TypeOK, CreateAccount, GoTo
<1>1. /\ email[f] \in Emails /\ email[f] \notin accounts
      /\ profiles[email[f]] = NoDoc /\ outbox[email[f]] = NoDoc
      /\ invites[email[f]] = 0 /\ email[f] \notin listed
  BY DEF SubmittedEmail, Facts, DocHasAccount, WritesAreFresh,
         InviteHasAccount
<1>2. \A g \in Forms : g # f /\ Owner(g)' =>
        /\ Owner(g) /\ email[g] \in accounts /\ email[g] # email[f]
        /\ pc'[g] = pc[g] /\ (PreSave(g)' <=> PreSave(g))
  BY <1>1 DEF Facts, OwnerHasAccount, Owner, PreSave
<1>3. OwnerHasAccount' /\ OneRegistrant' /\ OwnerKind'
  BY <1>1, <1>2 DEF Facts, OwnerHasAccount, OneRegistrant, OwnerKind
<1>4. DocHasAccount' /\ InviteHasAccount' /\ WritesAreFresh'
      /\ InvitedAtMostOnce' /\ ListedIsCompany'
  BY DEF Facts, DocHasAccount, InviteHasAccount, WritesAreFresh,
         InvitedAtMostOnce, ListedIsCompany
<1>5. OwnerBeforeSave' /\ OwnerBeforeInvite'
  BY <1>1 DEF Facts, OwnerBeforeSave, OwnerBeforeInvite, PreSave
<1>6. QED
  BY <1>3, <1>4, <1>5 DEF Facts

\* The write that is handed to Firestore is the first one for its address.
LEMMA SaveStep ==
  ASSUME NEW f \in Forms, TInv, Facts, RegisterReturns(f) \/ UploadReturns(f)
  PROVE  Facts'
<1> USE DEF TInv, TypeOK, RegisterReturns, UploadReturns, GoTo
<1>1. CASE (Dies(f) \/ Continues(f, "upload")) /\ UNCHANGED outbox
  BY <1>1, Quiet DEF Dies, Continues, Owner, PreSave, remote
<1>2. CASE Continues(f, "save") /\ HandOver(f)
  <2> USE <1>2 DEF Continues, HandOver
  <2>1. /\ PreSave(f) /\ Owner(f)
        /\ email[f] \in Emails /\ email[f] \in accounts
        /\ profiles[email[f]] = NoDoc /\ email[f] \notin listed
        /\ invites[email[f]] = 0
    BY DEF Facts, SubmittedEmail, PreSave, Owner, OwnerHasAccount,
           OwnerBeforeSave, OwnerBeforeInvite
  <2>2. \A g \in Forms : Owner(g)' => Owner(g) /\ email'[g] = email[g]
    BY <2>1 DEF Owner
  <2>3. \A g \in Forms : g # f /\ Owner(g) => email[g] # email[f]
    BY <2>1 DEF Facts, OneRegistrant
  <2>4. OwnerHasAccount' /\ OneRegistrant'
    BY <2>2 DEF Facts, OwnerHasAccount, OneRegistrant
  <2>5. OwnerKind'
    BY <2>1, <2>2, <2>3 DEF Facts, OwnerKind
  <2>6. DocHasAccount' /\ InviteHasAccount' /\ WritesAreFresh'
        /\ InvitedAtMostOnce' /\ ListedIsCompany'
    BY <2>1 DEF Facts, DocHasAccount, InviteHasAccount, WritesAreFresh,
           InvitedAtMostOnce, ListedIsCompany
  <2>7. OwnerBeforeSave' /\ OwnerBeforeInvite'
    <3>1. \A g \in Forms : g # f => pc'[g] = pc[g] /\ email'[g] = email[g]
      OBVIOUS
    <3>2. pc'[f] = "save" /\ email'[f] = email[f]
      OBVIOUS
    <3>3. \A g \in Forms : g # f /\ Owner(g) => outbox'[email[g]] = outbox[email[g]]
      BY <2>3
    <3>4. \A g \in Forms :
            PreSave(g) \/ pc[g] \in {"save", "invite", "invited", "notify"}
            => Owner(g)
      BY DEF PreSave, Owner
    <3>5. OwnerBeforeSave'
      BY <3>1, <3>2, <3>3, <3>4 DEF Facts, OwnerBeforeSave, PreSave
    <3>6. OwnerBeforeInvite'
      BY <2>1, <3>1, <3>2, <3>3, <3>4 DEF Facts, OwnerBeforeInvite, PreSave
    <3>7. QED
      BY <3>5, <3>6
  <2>8. QED
    BY <2>4, <2>5, <2>6, <2>7 DEF Facts
<1>3. QED
  BY <1>1, <1>2

\* The mail function sends the one invitation of the chain.
LEMMA InviteStep ==
  ASSUME NEW f \in Forms, TInv, Facts, SendInvite(f)
  PROVE  Facts'
<1> USE DEF TInv, TypeOK, SendInvite, GoTo
<1>1. /\ Owner(f) /\ email[f] \in Emails /\ email[f] \in accounts
      /\ invites[email[f]] = 0 /\ outbox[email[f]] = NoDoc
  BY DEF Facts, SubmittedEmail, Owner, OwnerHasAccount, OwnerBeforeInvite
<1>2. \A g \in Forms : Owner(g)' => Owner(g) /\ (PreSave(g)' => PreSave(g))
  BY <1>1 DEF Owner, PreSave
<1>3. OwnerHasAccount' /\ OneRegistrant' /\ OwnerKind' /\ OwnerBeforeSave'
  BY <1>2 DEF Facts, OwnerHasAccount, OneRegistrant, OwnerKind,
              OwnerBeforeSave, PreSave, Owner
<1>4. DocHasAccount' /\ InviteHasAccount' /\ WritesAreFresh'
      /\ InvitedAtMostOnce' /\ ListedIsCompany'
  BY <1>1 DEF Facts, DocHasAccount, InviteHasAccount, WritesAreFresh,
              InvitedAtMostOnce, ListedIsCompany
<1>5. OwnerBeforeInvite'
  <2>1. \A g \in Forms : g # f /\ Owner(g) => email[g] # email[f]
    BY <1>1 DEF Facts, OneRegistrant
  <2>2. \A g \in Forms :
          PreSave(g) \/ pc[g] \in {"save", "invite", "invited", "notify"}
          => Owner(g)
    BY DEF PreSave, Owner
  <2>3. QED
    BY <1>1, <2>1, <2>2 DEF Facts, OwnerBeforeInvite, PreSave
<1>6. QED
  BY <1>3, <1>4, <1>5 DEF Facts

\* addToList adds a person whose document, if there is one, is a company.
LEMMA ListStep ==
  ASSUME NEW f \in Forms, TInv, Facts, NotifyReturns(f)
  PROVE  Facts'
<1> USE DEF TInv, TypeOK, NotifyReturns, GoTo, Dies, Continues, remote
<1>1. CASE UNCHANGED listed
  BY <1>1, Quiet DEF Owner, PreSave
<1>2. CASE f \in CompanyForms /\ listed' = listed \cup {email[f]}
           /\ Continues(f, "dismiss")
  <2>1. /\ Owner(f) /\ email[f] \in Emails /\ email[f] \in accounts
        /\ outbox[email[f]] = NoDoc /\ profiles[email[f]] # "intern"
    BY <1>2 DEF Facts, SubmittedEmail, Owner, OwnerHasAccount,
                OwnerBeforeInvite, OwnerKind, Kind, NoDoc
  <2>2. \A g \in Forms : Owner(g)' => Owner(g) /\ (PreSave(g)' => PreSave(g))
    BY <2>1 DEF Owner, PreSave
  <2>3. OwnerHasAccount' /\ OneRegistrant' /\ OwnerKind'
    BY <2>2 DEF Facts, OwnerHasAccount, OneRegistrant, OwnerKind
  <2>4. DocHasAccount' /\ InviteHasAccount' /\ WritesAreFresh'
        /\ InvitedAtMostOnce' /\ ListedIsCompany'
    BY <1>2, <2>1 DEF Facts, DocHasAccount, InviteHasAccount, WritesAreFresh,
                      InvitedAtMostOnce, ListedIsCompany, NoDoc
  <2>5. \A g \in Forms : PreSave(g)' =>
          g # f /\ PreSave(g) /\ email[g] # email[f]
    BY <1>2, <2>1 DEF Facts, OneRegistrant, PreSave, Owner
  <2>6. OwnerBeforeSave'
    BY <1>2, <2>5 DEF Facts, OwnerBeforeSave
  <2>7. OwnerBeforeInvite'
    BY <1>2 DEF Facts, OwnerBeforeInvite, PreSave
  <2>8. QED
    BY <2>3, <2>4, <2>6, <2>7 DEF Facts
<1>3. QED
  BY <1>1, <1>2

\* Every step of a chain keeps the facts, by the lemma for its kind.
LEMMA FactsStep ==
  ASSUME NEW f \in Forms, TInv, Facts, Step(f)
  PROVE  Facts'
BY QuietStep, CreateStep, SaveStep, InviteStep, ListStep DEF Step

\* The server applies or refuses the first write for its address.
LEMMA FactsAnswer ==
  ASSUME NEW e \in Emails, TInv, Facts, Answer(e)
  PROVE  Facts'
<1> USE DEF TInv, TypeOK, Answer, ApplyWrite, RefuseWrite, form
<1>1. e \in accounts /\ profiles[e] = NoDoc /\ outbox[e] # NoDoc
  BY DEF Facts, WritesAreFresh
<1>2. \A g \in Forms : /\ Owner(g)' <=> Owner(g)
                       /\ PreSave(g)' <=> PreSave(g)
                       /\ PreSave(g) \/ pc[g] \in {"save", "invite", "invited",
                                                  "notify"} => Owner(g)
                       /\ Owner(g) => email[g] \in Emails
  BY DEF Owner, PreSave, Facts, OwnerHasAccount
<1>3. OwnerHasAccount' /\ OneRegistrant'
  BY <1>2 DEF Facts, OwnerHasAccount, OneRegistrant
<1>4. OwnerKind'
  <2>1. ASSUME NEW g \in Forms, Owner(g)
        PROVE  /\ profiles'[email[g]] \in {profiles[email[g]], outbox[email[g]]}
               /\ outbox'[email[g]] \in {outbox[email[g]], NoDoc}
    BY <1>2, <2>1
  <2>2. QED
    BY <1>2, <2>1 DEF Facts, OwnerKind, Kind
<1>5. DocHasAccount' /\ InviteHasAccount' /\ WritesAreFresh'
      /\ InvitedAtMostOnce' /\ ListedIsCompany'
  BY <1>1 DEF Facts, DocHasAccount, InviteHasAccount, WritesAreFresh,
              InvitedAtMostOnce, ListedIsCompany, NoDoc
<1>6. \A g \in Forms : PreSave(g) => email[g] # e
  BY <1>1 DEF Facts, OwnerBeforeSave
<1>7. OwnerBeforeSave'
  BY <1>2, <1>6 DEF Facts, OwnerBeforeSave
<1>8. OwnerBeforeInvite'
  <2>1. \A x \in Emails : outbox[x] = NoDoc => outbox'[x] = NoDoc
    OBVIOUS
  <2>2. QED
    BY <1>2, <2>1 DEF Facts, OwnerBeforeInvite
<1>9. QED
  BY <1>3, <1>4, <1>5, <1>7, <1>8 DEF Facts

\* Opening, leaving and submitting a form, deleting a profile, refreshing
\* the list and a crash keep the facts.
LEMMA FactsUser ==
  ASSUME TInv, Facts, User
  PROVE  Facts'
<1> USE DEF TInv, TypeOK, remote
<1>1. ASSUME NEW f \in Forms, OpenForm(f) \/ Leave(f)
      PROVE  Facts'
  BY <1>1, Quiet DEF OpenForm, Leave, Owner, PreSave
<1>2. ASSUME NEW f \in Forms, NEW e \in Emails, Submit(f, e)
      PROVE  Facts'
  BY <1>2, Quiet DEF Submit, GoTo, Owner, PreSave
<1>3. ASSUME NEW e \in Emails, DeleteProfile(e)
      PROVE  Facts'
  <2> USE <1>3 DEF DeleteProfile, form
  <2>1. \A g \in Forms : Owner(g)' = Owner(g) /\ PreSave(g)' = PreSave(g)
    BY DEF Owner, PreSave
  <2>2. OwnerHasAccount' /\ OneRegistrant' /\ OwnerKind' /\ OwnerBeforeSave'
    BY <2>1 DEF Facts, OwnerHasAccount, OneRegistrant, OwnerKind,
                OwnerBeforeSave
  <2>3. DocHasAccount' /\ InviteHasAccount' /\ WritesAreFresh'
        /\ InvitedAtMostOnce' /\ ListedIsCompany'
    BY DEF Facts, DocHasAccount, InviteHasAccount, WritesAreFresh,
           InvitedAtMostOnce, ListedIsCompany, NoDoc
  <2>4. OwnerBeforeInvite'
    BY <2>1 DEF Facts, OwnerBeforeInvite, PreSave
  <2>5. QED
    BY <2>2, <2>3, <2>4 DEF Facts
<1>4. CASE Refresh
  <2> USE <1>4 DEF Refresh, form
  <2>1. \A g \in Forms : Owner(g)' = Owner(g) /\ PreSave(g)' = PreSave(g)
    BY DEF Owner, PreSave
  <2>2. OwnerHasAccount' /\ OneRegistrant' /\ OwnerKind'
    BY <2>1 DEF Facts, OwnerHasAccount, OneRegistrant, OwnerKind
  <2>3. DocHasAccount' /\ InviteHasAccount' /\ WritesAreFresh'
        /\ InvitedAtMostOnce' /\ ListedIsCompany'
    BY DEF Facts, DocHasAccount, InviteHasAccount, WritesAreFresh,
           InvitedAtMostOnce, ListedIsCompany, NoDoc
  <2>4. OwnerBeforeSave' /\ OwnerBeforeInvite'
    BY <2>1 DEF Facts, OwnerBeforeSave, OwnerBeforeInvite, PreSave, NoDoc
  <2>5. QED
    BY <2>2, <2>3, <2>4 DEF Facts
<1>5. CASE Crash
  <2> USE <1>5 DEF Crash
  <2>1. \A g \in Forms : ~Owner(g)' /\ ~PreSave(g)' /\ pc'[g] = "idle"
    BY DEF Owner, PreSave
  <2>2. OwnerHasAccount' /\ OneRegistrant' /\ OwnerKind' /\ OwnerBeforeSave'
        /\ OwnerBeforeInvite'
    BY <2>1 DEF OwnerHasAccount, OneRegistrant, OwnerKind, OwnerBeforeSave,
                OwnerBeforeInvite
  <2>3. DocHasAccount' /\ InviteHasAccount' /\ WritesAreFresh'
        /\ InvitedAtMostOnce' /\ ListedIsCompany'
    BY DEF Facts, DocHasAccount, InviteHasAccount, WritesAreFresh,
           InvitedAtMostOnce, ListedIsCompany
  <2>4. QED
    BY <2>2, <2>3 DEF Facts
<1>6. QED
  BY <1>1, <1>2, <1>3, <1>4, <1>5 DEF User
-----------------------------------------------------------------------------
\* The inductive invariant holds in every reachable state.
THEOREM Inductive == Spec => []IInv
<1>1. Init => TInv /\ Facts
  BY TypeInit, FactsInit
<1>2. TInv /\ Facts /\ [Next]_vars => TInv' /\ Facts'
  <2> SUFFICES ASSUME TInv, Facts, [Next]_vars PROVE Facts'
    BY TypeNext
  <2>1. CASE UNCHANGED vars
    BY <2>1, Quiet DEF vars, form, Owner, PreSave
  <2>2. QED
    BY <2>1, FactsUser, FactsStep, FactsAnswer DEF Next
<1>3. TInv /\ Facts => IInv
  BY DEF TInv, Facts, IInv
<1>4. QED
  BY <1>1, <1>2, <1>3, PTL DEF Spec

\* No two submissions ever work on the same address past its registration.
THEOREM Exclusive == Spec => []OneRegistrant
<1>1. IInv => OneRegistrant
  BY DEF IInv
<1>2. QED
  BY <1>1, Inductive, PTL

\* createProfile never replaces an existing document.
THEOREM FreshWrites == Spec => []WritesAreFresh
<1>1. IInv => WritesAreFresh
  BY DEF IInv
<1>2. QED
  BY <1>1, Inductive, PTL

\* However often a person is saved again, at most one invitation is sent.
THEOREM OneInvitation == Spec => []InvitedAtMostOnce
<1>1. IInv => InvitedAtMostOnce
  BY DEF IInv
<1>2. QED
  BY <1>1, Inductive, PTL

\* The list of companies never shows somebody who is an intern.
THEOREM ListOfCompanies == Spec => []ListedIsCompany
<1>1. IInv => ListedIsCompany
  BY DEF IInv
<1>2. QED
  BY <1>1, Inductive, PTL
-----------------------------------------------------------------------------
\* What each open page is owed: the chain that fails gives Save back, and the
\* one that ends takes its dialog with it.  A chain that succeeds closes its
\* page, and one that dies has none.
Usable(f) ==
  page[f] = "open" =>
    /\ pc[f] \in {"idle", "failing"} => submitSt[f]
    /\ pc[f] = "idle" => dialog[f] = "none"

\* The chain of one form says nothing of another.
LEMMA UsableOther ==
  ASSUME NEW f, Usable(f), UNCHANGED <<page[f], pc[f], submitSt[f], dialog[f]>>
  PROVE  Usable(f)'
BY DEF Usable

\* The steps of a chain keep its own page usable.
LEMMA UsableStep ==
  ASSUME TInv, NEW f \in Forms, NEW g \in Forms, Step(f), Usable(g)
  PROVE  Usable(g)'
<1> USE DEF TInv, TypeOK
<1>1. CASE g # f
  <2>1. UNCHANGED <<page[g], pc[g], submitSt[g], dialog[g]>>
    BY <1>1 DEF Step, ShowDialog, Dispose, CreateAccount, RegisterRefused,
       RegisterThrows, RegisterReturns, UploadReturns, UploadFails, SaveReturns,
       SendInvite, InviteReturns, NotifyReturns, Dismiss, Announce, ClosePage,
       DismissFailure, Fails, Dies, Continues, GoTo
  <2>2. QED
    BY <2>1, UsableOther
<1>2. CASE g = f
  <2>1. CASE ShowDialog(f)
    BY <1>2, <2>1 DEF ShowDialog, Usable
  <2>2. CASE Dispose(f)
    BY <1>2, <2>2 DEF Dispose, Usable
  <2>3. CASE \/ CreateAccount(f) \/ RegisterReturns(f) \/ UploadReturns(f)
             \/ SaveReturns(f) \/ SendInvite(f) \/ InviteReturns(f)
             \/ NotifyReturns(f) \/ Announce(f)
    BY <1>2, <2>3 DEF CreateAccount, RegisterReturns, UploadReturns, SaveReturns,
       SendInvite, InviteReturns, NotifyReturns, Announce, Dies, Continues,
       GoTo, Mounted, Usable
  <2>4. CASE RegisterRefused(f) \/ RegisterThrows(f) \/ UploadFails(f)
    BY <1>2, <2>4 DEF RegisterRefused, RegisterThrows, UploadFails, Fails, Dies,
       GoTo, Mounted, Usable
  <2>5. CASE Dismiss(f)
    BY <1>2, <2>5 DEF Dismiss, Dies, GoTo, Mounted, Usable
  <2>6. CASE ClosePage(f)
    BY <1>2, <2>6 DEF ClosePage, Settled, GoTo, Usable
  <2>7. CASE DismissFailure(f)
    BY <1>2, <2>7 DEF DismissFailure, Settled, GoTo, Mounted, Usable
  <2>8. QED
    BY <2>1, <2>2, <2>3, <2>4, <2>5, <2>6, <2>7 DEF Step
<1>3. QED
  BY <1>1, <1>2

\* What the administrator and a crash do keeps every page usable.
LEMMA UsableUser == ASSUME TInv, NEW g \in Forms, User, Usable(g) PROVE Usable(g)'
<1> USE DEF TInv, TypeOK, Usable
<1>1. ASSUME NEW f \in Forms, OpenForm(f) PROVE Usable(g)'
  BY <1>1 DEF OpenForm
<1>2. ASSUME NEW f \in Forms, Leave(f) PROVE Usable(g)'
  BY <1>2 DEF Leave
<1>3. ASSUME NEW f \in Forms, NEW e \in Emails, Submit(f, e) PROVE Usable(g)'
  BY <1>3 DEF Submit, GoTo
<1>4. CASE Refresh \/ \E e \in Emails : DeleteProfile(e)
  BY <1>4 DEF Refresh, DeleteProfile, form
<1>5. CASE Crash
  BY <1>5 DEF Crash
<1>6. QED
  BY <1>1, <1>2, <1>3, <1>4, <1>5 DEF User

\* A page that is open and waits for nothing can be used, whatever failed.
THEOREM IdleUsable == Spec => []IdlePageUsable
<1> DEFINE AllUsable == \A f \in Forms : Usable(f)
<1>1. Init => TInv /\ AllUsable
  BY TypeInit DEF Init, Usable
<1>2. TInv /\ AllUsable /\ [Next]_vars => TInv' /\ AllUsable'
  <2> SUFFICES ASSUME TInv, AllUsable, [Next]_vars, NEW g \in Forms PROVE Usable(g)'
    BY TypeNext
  <2>1. CASE UNCHANGED vars
    BY <2>1 DEF vars, form, Usable
  <2>2. ASSUME NEW e \in Emails, Answer(e) PROVE Usable(g)'
    BY <2>2 DEF Answer, ApplyWrite, RefuseWrite, form, Usable
  <2>3. QED
    BY <2>1, <2>2, UsableStep, UsableUser DEF Next
<1>3. AllUsable => IdlePageUsable
  BY DEF Usable, IdlePageUsable
<1>4. QED
  BY <1>1, <1>2, <1>3, PTL DEF Spec
-----------------------------------------------------------------------------
\* Provisioning implements Enrolment, step by step.

Mailed == {e \in Emails : invites[e] > 0}

\* What each value of Enrolment's status says of the chains and the stores.
LEMMA StatusOf ==
  \A e \in Emails :
    /\ Status[e] = "absent" <=> e \notin accounts
    /\ Status[e] = "enrolled" <=> e \in accounts /\ profiles[e] # NoDoc
    /\ Status[e] = "pending" <=>
         e \in accounts /\ profiles[e] = NoDoc /\ OnItsWay(e)
    /\ Status[e] = "stranded" <=>
         e \in accounts /\ profiles[e] = NoDoc /\ ~OnItsWay(e)
    /\ Status[e] \in Enrolled!Statuses
BY DEF Status, Enrolled!Statuses

\* The same in the next state.
LEMMA StatusOfNext ==
  \A e \in Emails :
    /\ Status'[e] = "absent" <=> e \notin accounts'
    /\ Status'[e] = "enrolled" <=> e \in accounts' /\ profiles'[e] # NoDoc
    /\ Status'[e] = "pending" <=>
         e \in accounts' /\ profiles'[e] = NoDoc /\ OnItsWay(e)'
    /\ Status'[e] = "stranded" <=>
         e \in accounts' /\ profiles'[e] = NoDoc /\ ~OnItsWay(e)'
    /\ Status'[e] \in Enrolled!Statuses
BY DEF Status, Enrolled!Statuses

\* A step that leaves the back end alone can only give up pending profiles.
LEMMA RefineQuiet ==
  ASSUME UNCHANGED remote,
         \A g \in Forms : PreSave(g)' => PreSave(g) /\ email'[g] = email[g]
  PROVE  \E S \in SUBSET Emails : Enrolled!Abandon(S)
<1> DEFINE S == {e \in Emails : Status[e] = "pending" /\ ~OnItsWay(e)'}
<1>1. ASSUME NEW e \in Emails
      PROVE  Status'[e] = IF e \in S THEN "stranded" ELSE Status[e]
  <2>1. OnItsWay(e)' => OnItsWay(e)
    BY DEF OnItsWay, remote
  <2>2. QED
    BY <2>1, StatusOf, StatusOfNext DEF remote, Enrolled!Statuses
<1>2. Status' = [e \in Emails |-> IF e \in S THEN "stranded" ELSE Status[e]]
  BY <1>1 DEF Status
<1>3. UNCHANGED Mailed
  BY DEF Mailed, remote
<1>4. Enrolled!Abandon(S)
  BY <1>2, <1>3 DEF Enrolled!Abandon, Mailed
<1>5. S \in SUBSET Emails
  OBVIOUS
<1> HIDE DEF S
<1>6. QED
  BY <1>4, <1>5

\* Creating an account makes it pending.
LEMMA RefineCreate ==
  ASSUME NEW f \in Forms, NEW a \in Emails, a = email[f],
         TInv, Facts, CreateAccount(f)
  PROVE  Enrolled!CreateAccount(a)
<1> USE DEF CreateAccount, GoTo, TInv, TypeOK
<1>1. a \in Emails /\ a \notin accounts /\ profiles[a] = NoDoc
  BY DEF SubmittedEmail, Facts, DocHasAccount
<1>2. PreSave(f)' /\ OnItsWay(a)'
  BY DEF PreSave, OnItsWay
<1>3. ASSUME NEW e \in Emails, e # a
      PROVE  /\ e \in accounts' <=> e \in accounts
             /\ OnItsWay(e)' <=> OnItsWay(e)
  <2>1. \A g \in Forms : g # f => (PreSave(g)' <=> PreSave(g))
    BY DEF PreSave
  <2>2. QED
    BY <2>1, <1>3 DEF OnItsWay
<1>4. Status' = [Status EXCEPT ![a] = "pending"]
  <2>1. \A e \in Emails : Status'[e] = IF e = a THEN "pending" ELSE Status[e]
    BY <1>1, <1>2, <1>3, StatusOf, StatusOfNext DEF Enrolled!Statuses
  <2>2. QED
    BY <2>1 DEF Status
<1>5. QED
  BY <1>1, <1>4, StatusOf DEF Enrolled!CreateAccount

\* Handing the write over keeps the profile on its way: a stuttering step.
LEMMA RefineSave ==
  ASSUME NEW f \in Forms, TInv, Facts, Continues(f, "save"), HandOver(f),
         PreSave(f), UNCHANGED <<accounts, profiles, invites>>
  PROVE  UNCHANGED Enrolled!vars
<1> USE DEF Continues, HandOver, GoTo, TInv, TypeOK
<1>1. email[f] \in Emails /\ Kind(f) # NoDoc
  BY DEF SubmittedEmail, PreSave, Kind, NoDoc
<1>2. ASSUME NEW e \in Emails
      PROVE  OnItsWay(e)' <=> OnItsWay(e)
  <2>1. \A g \in Forms : g # f => (PreSave(g)' <=> PreSave(g))
    BY DEF PreSave
  <2>2. ~PreSave(f)'
    BY DEF PreSave
  <2>3. CASE e = email[f]
    BY <2>3, <1>1 DEF OnItsWay
  <2>4. CASE e # email[f]
    BY <2>1, <2>2, <2>4 DEF OnItsWay
  <2>5. QED
    BY <2>3, <2>4
<1>3. Status' = Status
  <2>1. \A e \in Emails : Status'[e] = Status[e]
    BY <1>2, StatusOf, StatusOfNext DEF Enrolled!Statuses
  <2>2. QED
    BY <2>1 DEF Status
<1>4. QED
  BY <1>3 DEF Enrolled!vars

\* Applying the profile write enrols.
LEMMA RefineApply ==
  ASSUME NEW e \in Emails, TInv, Facts, ApplyWrite(e)
  PROVE  Enrolled!Enrol(e)
<1> USE DEF ApplyWrite, TInv, TypeOK, form
<1>1. e \in accounts /\ profiles[e] = NoDoc /\ OnItsWay(e)
  BY DEF Facts, WritesAreFresh, OnItsWay
<1>2. ASSUME NEW x \in Emails, x # e
      PROVE  profiles'[x] = profiles[x] /\ (OnItsWay(x)' <=> OnItsWay(x))
  BY <1>2 DEF OnItsWay, PreSave
<1>3. Status' = [Status EXCEPT ![e] = "enrolled"]
  <2>1. \A x \in Emails : Status'[x] = IF x = e THEN "enrolled" ELSE Status[x]
    BY <1>1, <1>2, StatusOf, StatusOfNext DEF Enrolled!Statuses
  <2>2. QED
    BY <2>1 DEF Status
<1>4. QED
  BY <1>1, <1>3, StatusOf DEF Enrolled!Enrol

\* After a refusal no chain will write the profile any more.
LEMMA RefineRefuse ==
  ASSUME NEW e \in Emails, TInv, Facts, RefuseWrite(e)
  PROVE  Enrolled!Abandon({e})
<1> USE DEF RefuseWrite, TInv, TypeOK, form
<1>1. /\ e \in accounts /\ profiles[e] = NoDoc /\ OnItsWay(e)
      /\ ~OnItsWay(e)'
  BY DEF Facts, WritesAreFresh, OnItsWay, OwnerBeforeSave, PreSave
<1>2. ASSUME NEW x \in Emails, x # e
      PROVE  OnItsWay(x)' <=> OnItsWay(x)
  BY <1>2 DEF OnItsWay, PreSave
<1>3. Status' = [x \in Emails |-> IF x \in {e} THEN "stranded" ELSE Status[x]]
  <2>1. \A x \in Emails : Status'[x] = IF x = e THEN "stranded" ELSE Status[x]
    BY <1>1, <1>2, StatusOf, StatusOfNext DEF Enrolled!Statuses
  <2>2. QED
    BY <2>1 DEF Status
<1>4. QED
  BY <1>1, <1>3, StatusOf DEF Enrolled!Abandon

\* Deleting a profile removes the person.
LEMMA RefineDelete ==
  ASSUME NEW e \in Emails, TInv, Facts, DeleteProfile(e)
  PROVE  Enrolled!Remove(e)
<1> USE DEF DeleteProfile, TInv, TypeOK, form
<1>1. e \in accounts /\ profiles[e] # NoDoc /\ ~OnItsWay(e)'
  BY DEF Facts, DocHasAccount, WritesAreFresh, OnItsWay, OwnerBeforeSave,
         PreSave
<1>2. ASSUME NEW x \in Emails, x # e
      PROVE  profiles'[x] = profiles[x] /\ (OnItsWay(x)' <=> OnItsWay(x))
  BY <1>2 DEF OnItsWay, PreSave
<1>3. Status' = [Status EXCEPT ![e] = "stranded"]
  <2>1. \A x \in Emails : Status'[x] = IF x = e THEN "stranded" ELSE Status[x]
    BY <1>1, <1>2, StatusOf, StatusOfNext DEF Enrolled!Statuses
  <2>2. QED
    BY <2>1 DEF Status
<1>4. QED
  BY <1>1, <1>3, StatusOf DEF Enrolled!Remove

\* Sending the invitation is the Invite of an enrolled person.
LEMMA RefineInvite ==
  ASSUME NEW f \in Forms, NEW a \in Emails, a = email[f],
         TInv, Facts, SendInvite(f)
  PROVE  Enrolled!Invite(a)
<1> USE DEF SendInvite, GoTo, TInv, TypeOK
<1>1. /\ a \in Emails /\ a \in accounts /\ Owner(f)
      /\ outbox[a] = NoDoc /\ invites[a] = 0
  BY DEF SubmittedEmail, Owner, Facts, OwnerHasAccount, OwnerBeforeInvite
<1>2. ~OnItsWay(a)
  BY <1>1 DEF OnItsWay, Facts, OneRegistrant, Owner, PreSave
<1>3. \A x \in Emails : OnItsWay(x)' <=> OnItsWay(x)
  BY DEF OnItsWay, PreSave
<1>4. Status' = Status
  <2>1. \A x \in Emails : Status'[x] = Status[x]
    BY <1>3, StatusOf, StatusOfNext DEF Enrolled!Statuses
  <2>2. QED
    BY <2>1 DEF Status
<1>5. Mailed' = Mailed \cup {a} /\ a \notin Mailed
  BY <1>1 DEF Mailed
<1>6. Status[a] \in {"enrolled", "stranded"}
  BY <1>1, <1>2, StatusOf
<1>7. QED
  BY <1>4, <1>5, <1>6 DEF Enrolled!Invite, Mailed

\* Every step of a chain is a step of Enrolment or a stutter.
LEMMA RefineStep ==
  ASSUME NEW f \in Forms, TInv, Facts, Step(f)
  PROVE  Enrolled!Next \/ UNCHANGED Enrolled!vars
<1> USE DEF Enrolled!Next
<1>1. CASE CreateAccount(f)
  <2>1. email[f] \in Emails
    BY <1>1 DEF CreateAccount, TInv, SubmittedEmail
  <2>2. PICK a \in Emails : a = email[f]
    BY <2>1
  <2>3. QED
    BY <1>1, <2>2, RefineCreate
<1>2. CASE RegisterReturns(f) \/ UploadReturns(f)
  <2>1. CASE (Dies(f) \/ Continues(f, "upload")) /\ UNCHANGED outbox
    BY <1>2, <2>1, RefineQuiet
       DEF RegisterReturns, UploadReturns, Dies, Continues, GoTo, remote,
           PreSave, TInv, TypeOK
  <2>2. CASE Continues(f, "save") /\ HandOver(f)
    BY <1>2, <2>2, RefineSave DEF RegisterReturns, UploadReturns, PreSave
  <2>3. QED
    BY <1>2, <2>1, <2>2 DEF RegisterReturns, UploadReturns
<1>3. CASE SendInvite(f)
  <2>1. email[f] \in Emails
    BY <1>3 DEF SendInvite, TInv, SubmittedEmail
  <2>2. PICK a \in Emails : a = email[f]
    BY <2>1
  <2>3. QED
    BY <1>3, <2>2, RefineInvite
<1>4. CASE \/ ShowDialog(f) \/ Dispose(f)
           \/ RegisterRefused(f) \/ RegisterThrows(f)
           \/ UploadFails(f) \/ SaveReturns(f) \/ InviteReturns(f)
           \/ NotifyReturns(f)
           \/ Dismiss(f) \/ Announce(f) \/ ClosePage(f) \/ DismissFailure(f)
  <2>1. UNCHANGED remote
    BY <1>4 DEF ShowDialog, Dispose, RegisterRefused, RegisterThrows,
       UploadFails, SaveReturns, InviteReturns, NotifyReturns, Dismiss,
       Announce, ClosePage, DismissFailure
  <2>2. email' = email /\ \A g \in Forms : PreSave(g)' => PreSave(g)
    <3> USE DEF PreSave, TInv, TypeOK, GoTo, Fails, Dies, Continues
    <3>1. CASE ShowDialog(f) \/ Dispose(f)
      BY <3>1 DEF ShowDialog, Dispose
    <3>2. CASE RegisterRefused(f) \/ RegisterThrows(f) \/ UploadFails(f)
      BY <3>2 DEF RegisterRefused, RegisterThrows, UploadFails
    <3>3. CASE SaveReturns(f) \/ InviteReturns(f) \/ NotifyReturns(f)
      BY <3>3 DEF SaveReturns, InviteReturns, NotifyReturns
    <3>4. CASE Dismiss(f) \/ Announce(f)
      BY <3>4 DEF Dismiss, Announce
    <3>5. CASE ClosePage(f) \/ DismissFailure(f)
      BY <3>5 DEF ClosePage, DismissFailure
    <3>6. QED
      BY <1>4, <3>1, <3>2, <3>3, <3>4, <3>5
  <2>3. QED
    BY <2>1, <2>2, RefineQuiet
<1>5. QED
  BY <1>1, <1>2, <1>3, <1>4 DEF Step

\* Firestore's answers enrol or abandon.
LEMMA RefineAnswer ==
  ASSUME NEW e \in Emails, TInv, Facts, Answer(e)
  PROVE  Enrolled!Next
<1>1. {e} \in SUBSET Emails
  OBVIOUS
<1>2. QED
  BY <1>1, RefineApply, RefineRefuse DEF Answer, Enrolled!Next

\* What the administrator does and a crash remove, abandon or stutter.
LEMMA RefineUser ==
  ASSUME TInv, Facts, User
  PROVE  Enrolled!Next
<1> USE DEF Enrolled!Next
<1>1. ASSUME NEW e \in Emails, DeleteProfile(e)
      PROVE  Enrolled!Next
  BY <1>1, RefineDelete
<1>2. ASSUME NEW f \in Forms, OpenForm(f) \/ Leave(f)
      PROVE  Enrolled!Next
  <2>1. \A g \in Forms : PreSave(g)' => PreSave(g) /\ email'[g] = email[g]
    BY <1>2 DEF OpenForm, Leave, PreSave, TInv, TypeOK
  <2>2. QED
    BY <1>2, <2>1, RefineQuiet DEF OpenForm, Leave
<1>3. ASSUME NEW f \in Forms, NEW e \in Emails, Submit(f, e)
      PROVE  Enrolled!Next
  <2>1. \A g \in Forms : PreSave(g)' => PreSave(g) /\ email'[g] = email[g]
    BY <1>3 DEF Submit, GoTo, PreSave, TInv, TypeOK
  <2>2. QED
    BY <1>3, <2>1, RefineQuiet DEF Submit
<1>4. CASE Refresh
  BY <1>4, RefineQuiet DEF Refresh, form, PreSave
<1>5. CASE Crash
  <2>1. \A g \in Forms : ~PreSave(g)'
    BY <1>5 DEF Crash, PreSave
  <2>2. QED
    BY <1>5, <2>1, RefineQuiet DEF Crash
<1>6. QED
  BY <1>1, <1>2, <1>3, <1>4, <1>5 DEF User

\* Initial states map to Enrolment's initial states.
LEMMA RefineInit == Init => Enrolled!Init
<1> SUFFICES ASSUME Init PROVE Enrolled!Init
  OBVIOUS
<1>1. \A e \in Emails : ~OnItsWay(e) /\ e \notin Mailed
  BY DEF Init, OnItsWay, PreSave, Mailed, NoDoc
<1>2. \A e \in Emails : Status[e] \in Enrolled!Statuses \ {"pending"}
  BY <1>1, StatusOf DEF Enrolled!Statuses
<1>3. Status \in [Emails -> Enrolled!Statuses \ {"pending"}]
  BY <1>2 DEF Status
<1>4. Mailed = {}
  BY <1>1 DEF Mailed
<1>5. QED
  BY <1>3, <1>4 DEF Enrolled!Init, Mailed

\* The chains of the two forms, with all their failures, do to the back end
\* only what Enrolment allows.
THEOREM Refinement == Spec => ImplementsEnrolment
<1>1. IInv <=> TInv /\ Facts
  BY DEF IInv, TInv, Facts
<1>2. IInv /\ [Next]_vars => [Enrolled!Next]_(Enrolled!vars)
  <2> SUFFICES ASSUME TInv, Facts, [Next]_vars
               PROVE  Enrolled!Next \/ UNCHANGED Enrolled!vars
    BY <1>1
  <2>1. CASE UNCHANGED vars
    BY <2>1, RefineQuiet DEF vars, form, PreSave, Enrolled!Next
  <2>2. QED
    BY <2>1, RefineUser, RefineStep, RefineAnswer DEF Next
<1>3. QED
  BY <1>2, RefineInit, Inductive, PTL DEF Spec, ImplementsEnrolment, Enrolled!Spec

\* A stranded account is stranded for good, whatever is tried again.
THEOREM StrandedForGood == Spec => StrandedStays
<1>1. IInv /\ [Next]_vars
      => [\A e \in Emails : Status[e] = "stranded" => Status'[e] = "stranded"]_vars
  <2> SUFFICES ASSUME IInv, Next, NEW e \in Emails, Status[e] = "stranded"
               PROVE  Status'[e] = "stranded"
    OBVIOUS
  <2>1. TInv /\ Facts
    BY DEF IInv, TInv, Facts
  <2>2. Enrolled!Next \/ UNCHANGED Enrolled!vars
    BY <2>1, RefineUser, RefineStep, RefineAnswer DEF Next
  <2>3. Status \in [Emails -> Enrolled!Statuses]
    BY StatusOf DEF Status
  <2>4. QED
    BY <2>2, <2>3 DEF Enrolled!Next, Enrolled!CreateAccount, Enrolled!Enrol,
       Enrolled!Remove, Enrolled!Invite, Enrolled!Abandon, Enrolled!vars
<1>2. QED
  BY <1>1, Inductive, PTL DEF Spec, StrandedStays
=============================================================================
