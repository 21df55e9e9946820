------------------------------- MODULE Session -------------------------------
(***************************************************************************)
(* How an administrator gets to Home and leaves it: views/splash, welcome, *)
(* login, register, verify and error, and the logout of views/home.        *)
(*                                                                         *)
(* Four records say who the administrator is and nothing keeps them in     *)
(* step: Firebase Auth's current user and the 'verified' preference, which *)
(* outlive the process, the model in UserViewModel and the companies in    *)
(* CompaniesViewModel, which outlive the pages.  A page is replaced, never *)
(* cancelled: the asynchronous chain it started goes on, changes what it   *)
(* changes without the page's context, and dies where it needs the context.*)
(***************************************************************************)
EXTENDS Naturals, FiniteSets

CONSTANTS
  Accounts,   \* accounts an administrator may sign in to or register
  NoOne,      \* no account
  Views,      \* instances of a page that exist at one time, orphans included
  MaxOrphans  \* bound on the chains under way whose page was left

ASSUME AccountsAssumption == NoOne \notin Accounts
ASSUME BoundAssumption == MaxOrphans \in Nat

VARIABLES
  accounts,   \* Firebase Auth: the accounts that exist
  users,      \* Firestore: what an account's document says of it
  signedIn,   \* Firebase Auth on this device: currentUser
  known,      \* authStateChanges has told the provider of it
  flag,       \* SharedPreferences: 'verified'
  user,       \* UserViewModel: whose model it holds
  companies,  \* CompaniesViewModel: whose companies it holds
  stray,      \* the records last written by a page that had been left
  view        \* the pages

remote == <<accounts, users>>
device == <<signedIn, known, flag>>
memory == <<user, companies>>
vars == <<remote, device, memory, stray, view>>

\* A document is of an administrator who has entered the code or not ("new"),
\* of a suspended user, or of an active employer or intern.  "none" stands for
\* no document; getUserData returns null for it and for a failed read.
Docs == {"none", "new", "verified", "suspended", "other"}
Flags == {"unset", "no", "yes"}
Pages == {"splash", "welcome", "login", "register", "code", "success", "home",
          "error"}
Steps == {"idle", "net", "wait", "data", "fetch", "dead", "signin", "create",
          "profile", "profiled", "mails", "check", "verify", "written",
          "refresh"}

\* shown: on top, in the 300 ms of the transition that replaces it, or gone;
\* arg: the "verified" handed to Welcome, Login, Register; enabled: submitSt;
\* at: what the page's chain waits for; who: the account the chain is about.
Blank == [page |-> "welcome", shown |-> "gone", arg |-> "unset",
          enabled |-> TRUE, at |-> "idle", who |-> NoOne]

Fresh(p, a) ==
  [Blank EXCEPT !.page = p, !.shown = "top", !.arg = a,
                !.at = IF p = "splash" THEN "net" ELSE "idle"]

IsTop(v) == view[v].shown = "top"
On(v, p) == IsTop(v) /\ view[v].page = p
Mounted(v) == view[v].shown # "gone"
Settled == \A v \in Views : view[v].shown # "leaving"
TopPage == {view[v].page : v \in {x \in Views : IsTop(x)}}

TypeOK ==
  /\ accounts \subseteq Accounts
  /\ users \in [Accounts -> Docs]
  /\ signedIn \in Accounts \cup {NoOne}
  /\ known \in BOOLEAN
  /\ flag \in Flags
  /\ user \in Accounts \cup {NoOne}
  /\ companies \in Accounts \cup {NoOne}
  /\ stray \subseteq {"signin", "fetch", "verify"}
  /\ view \in [Views -> [page : Pages, shown : {"top", "leaving", "gone"},
                         arg : Flags, enabled : BOOLEAN, at : Steps,
                         who : Accounts \cup {NoOne}]]
  /\ Cardinality({v \in Views : IsTop(v)}) = 1

\* The process starts with Splash; what is kept may be anything that fits.
Init ==
  /\ accounts \in SUBSET Accounts
  /\ users \in [Accounts -> Docs]
  /\ \A a \in Accounts : users[a] # "none" => a \in accounts
  /\ signedIn \in accounts \cup {NoOne}
  /\ flag \in Flags
  /\ known = FALSE
  /\ user = NoOne
  /\ companies = NoOne
  /\ stray = {}
  /\ \E v \in Views :
       view = [w \in Views |-> IF w = v THEN Fresh("splash", "unset")
                               ELSE Blank]
-----------------------------------------------------------------------------
\* Helpers.

\* Of a page that was left only its chain matters.
Kept(r) ==
  IF r.shown = "top" THEN r
  ELSE IF r.at = "idle" THEN [Blank EXCEPT !.shown = r.shown]
  ELSE [r EXCEPT !.arg = "unset", !.enabled = TRUE]

\* The chain of v goes on to step l, or ends and gives the input back.
After(v, l) == [view EXCEPT ![v] = Kept([@ EXCEPT !.at = l])]
Free(v) == [view EXCEPT ![v] = Kept([@ EXCEPT !.at = "idle", !.enabled = TRUE])]

Goes(v, l) == view' = After(v, l)
GivesBack(v) == view' = Free(v)

\* AppNavigator.pushReplace replaces the page on top, whoever calls it.
Replace(views, new) ==
  /\ \E w \in Views :
       /\ views[w] = Blank
       /\ view' = [x \in Views |->
                    IF x = w THEN new
                    ELSE IF views[x].shown = "top"
                         THEN Kept([views[x] EXCEPT !.shown = "leaving"])
                         ELSE views[x]]
  /\ Cardinality({x \in Views : ~IsTop(x)' /\ view'[x].at # "idle"}) <= MaxOrphans

Open(views, p, a) == Replace(views, Fresh(p, a))

\* Verify shows the code of the model that UserViewModel holds when it is
\* built; without a model the fragment cannot be built.
OpenCode(views, u) == Replace(views, [Fresh("code", "no") EXCEPT !.who = u])

\* What a chain writes after its page was left is stray, until it is rewritten.
Wrote(v, r) == stray' = IF IsTop(v) THEN stray \ {r} ELSE stray \cup {r}

SignedOut ==
  /\ signedIn' = NoOne
  /\ flag' = "unset"
  /\ user' = NoOne
  /\ stray' = stray \ {"signin"}
-----------------------------------------------------------------------------
\* Around the application.

\* The transition to the next page ends.
Dispose(v) ==
  /\ view[v].shown = "leaving"
  /\ view' = [view EXCEPT ![v] = Kept([@ EXCEPT !.shown = "gone"])]
  /\ UNCHANGED <<remote, device, memory, stray>>

AuthKnown ==
  /\ ~known
  /\ known' = TRUE
  /\ UNCHANGED <<remote, signedIn, flag, memory, stray, view>>

\* The application is left or killed, and started again.  A profile write that
\* Firestore has accepted is sent sooner or later.
Restart ==
  /\ \E S \in SUBSET {v \in Views : view[v].at = "profile"} :
       users' = [a \in Accounts |-> IF \E v \in S : view[v].who = a THEN "new"
                                    ELSE users[a]]
  /\ known' = FALSE
  /\ user' = NoOne
  /\ companies' = NoOne
  /\ stray' = {}
  /\ \E v \in Views :
       view' = [w \in Views |-> IF w = v THEN Fresh("splash", "unset")
                                ELSE Blank]
  /\ UNCHANGED <<accounts, signedIn, flag>>

\* Somebody else deletes, suspends, restores or verifies a user.
Elsewhere(a) ==
  /\ users[a] \in {"new", "verified", "suspended"}
  /\ users' \in {[users EXCEPT ![a] = s] : s \in {"none", "verified", "suspended"}}
  /\ UNCHANGED <<accounts, device, memory, stray, view>>

\* Firebase ends the session of this device.
Revoked ==
  /\ signedIn # NoOne
  /\ signedIn' = NoOne
  /\ UNCHANGED <<remote, known, flag, memory, stray, view>>
-----------------------------------------------------------------------------
\* Splash and the error page.

SplashNet(v) ==
  /\ view[v].at = "net"
  /\ Goes(v, "wait") \/ Goes(v, "dead")
  /\ UNCHANGED <<remote, device, memory, stray>>

\* Three seconds later.  Before the stream's first event the provider holds an
\* empty UserModel, for which there is no branch.
SplashRead(v) ==
  /\ view[v].at = "wait"
  /\ \/ ~known /\ Goes(v, "idle")
     \/ known /\ signedIn = NoOne /\ Open(After(v, "idle"), "welcome", flag)
     \/ /\ known /\ signedIn # NoOne
        /\ view' = [view EXCEPT ![v].at = "data", ![v].who = signedIn]
  /\ UNCHANGED <<remote, device, memory, stray>>

\* Mutant: the model is set for the registration code only.
SplashDataForgets(v) ==
  LET a == view[v].who
  IN  /\ view[v].at = "data" /\ view[v].page = "splash"
      /\ \/ /\ Open(After(v, "idle"), "welcome", "unset")
            /\ UNCHANGED <<device, memory, stray>>
         \/ /\ users[a] = "other" /\ SignedOut
            /\ Open(After(v, "idle"), "welcome", "unset")
            /\ UNCHANGED <<known, companies>>
         \/ /\ users[a] = "new" /\ user' = a /\ OpenCode(After(v, "idle"), a)
            /\ UNCHANGED <<device, companies, stray>>
         \/ /\ users[a] = "verified" /\ Goes(v, "fetch")
            /\ UNCHANGED <<device, memory, stray>>
      /\ UNCHANGED remote

\* Mutant: a suspended administrator stays on Splash.
SplashDataHangs(v) ==
  LET a == view[v].who
  IN  /\ view[v].at = "data" /\ view[v].page = "splash"
      /\ \/ /\ users[a] = "suspended" /\ Goes(v, "idle")
            /\ UNCHANGED <<device, memory, stray>>
         \/ /\ users[a] = "other" /\ SignedOut
            /\ Open(After(v, "idle"), "welcome", "unset")
            /\ UNCHANGED <<known, companies>>
         \/ /\ users[a] = "new" /\ user' = a /\ OpenCode(After(v, "idle"), a)
            /\ UNCHANGED <<device, companies, stray>>
         \/ /\ users[a] = "verified" /\ user' = a /\ Goes(v, "fetch")
            /\ UNCHANGED <<device, companies, stray>>
      /\ UNCHANGED remote

\* No document, a failed read and a suspended user all lead to Welcome.
SplashData(v) ==
  LET a == view[v].who
  IN  /\ view[v].at = "data" /\ view[v].page = "splash"
      /\ \/ /\ Open(After(v, "idle"), "welcome", "unset")
            /\ UNCHANGED <<device, memory, stray>>
         \/ /\ users[a] = "other" /\ SignedOut
            /\ Open(After(v, "idle"), "welcome", "unset")
            /\ UNCHANGED <<known, companies>>
         \/ /\ users[a] = "new" /\ user' = a /\ OpenCode(After(v, "idle"), a)
            /\ UNCHANGED <<device, companies, stray>>
         \/ /\ users[a] = "verified" /\ user' = a /\ Goes(v, "fetch")
            /\ UNCHANGED <<device, companies, stray>>
      /\ UNCHANGED remote

\* fetchData without refresh: nothing found, or a failure, keeps the list.
SplashFetch(v) ==
  /\ view[v].at = "fetch" /\ view[v].page = "splash"
  /\ \/ companies' = view[v].who /\ Wrote(v, "fetch")
     \/ UNCHANGED <<companies, stray>>
  /\ Open(After(v, "idle"), "home", "unset")
  /\ UNCHANGED <<remote, device, user>>

SplashThrows(v) ==
  /\ view[v].page = "splash" /\ view[v].at \in {"wait", "data"}
  /\ Goes(v, "dead")
  /\ UNCHANGED <<remote, device, memory, stray>>

SplashGivesUp(v) ==
  /\ view[v].at = "dead"
  /\ Open(After(v, "idle"), "error", "unset")
  /\ UNCHANGED <<remote, device, memory, stray>>

Retry(v) ==
  /\ On(v, "error")
  /\ Open(view, "splash", "unset")
  /\ UNCHANGED <<remote, device, memory, stray>>
-----------------------------------------------------------------------------
\* Welcome, and the way back to it.

Choose(v) ==
  /\ On(v, "welcome")
  /\ \/ Open(view, "login", view[v].arg)
     \/ Open(view, "register", view[v].arg)
     \/ view[v].arg = "no" /\ OpenCode(view, user)
  /\ UNCHANGED <<remote, device, memory, stray>>

Back(v) ==
  /\ \/ On(v, "login") \/ On(v, "register")
     \/ On(v, "code") \/ On(v, "success")
  /\ Open(view, "welcome", IF view[v].page \in {"code", "success"} THEN "no"
                           ELSE view[v].arg)
  /\ UNCHANGED <<remote, device, memory, stray>>

\* Nobody fills in a form within the 300 ms of a transition.
Submit(v, p, l, a) ==
  /\ On(v, p)
  /\ Settled
  /\ view[v].enabled /\ view[v].at = "idle"
  /\ view' = [view EXCEPT ![v].enabled = FALSE, ![v].at = l, ![v].who = a]
  /\ UNCHANGED <<remote, device, memory, stray>>
-----------------------------------------------------------------------------
\* Login.

SubmitLogin(v, a) == Submit(v, "login", "signin", a)

\* Mutant: a refusal is shown without giving the form back.
SignInRefusedDisabled(v) ==
  /\ view[v].at = "signin"
  /\ Goes(v, "idle")
  /\ UNCHANGED <<remote, device, memory, stray>>

SignInRefused(v) ==
  /\ view[v].at = "signin"
  /\ GivesBack(v)
  /\ UNCHANGED <<remote, device, memory, stray>>

SignInReturns(v) ==
  /\ view[v].at = "signin"
  /\ view[v].who \in accounts
  /\ signedIn' = view[v].who
  /\ Goes(v, IF Mounted(v) THEN "data" ELSE "idle")
  /\ Wrote(v, "signin")
  /\ UNCHANGED <<remote, known, flag, memory>>

\* A page that is gone cannot reach UserViewModel; its own performLogout fails
\* in the same way.
LoginDies(v) ==
  /\ view[v].at = "data" /\ view[v].page = "login"
  /\ ~Mounted(v)
  /\ Goes(v, "idle")
  /\ UNCHANGED <<remote, device, memory, stray>>

\* Mutant: the view models are found before the call, so no page is needed.
LoginDataDetached(v) ==
  LET a == view[v].who
  IN  /\ view[v].at = "data" /\ view[v].page = "login"
      /\ \/ GivesBack(v) /\ UNCHANGED <<device, memory, stray>>
         \/ /\ users[a] \in {"new", "verified"} /\ user' = a
            /\ IF users[a] = "new" THEN OpenCode(After(v, "idle"), a)
                                   ELSE Goes(v, "fetch")
            /\ UNCHANGED <<device, companies, stray>>
      /\ UNCHANGED remote

\* Mutant: only an answer with a document is waited for.
LoginDataWaits(v) ==
  LET a == view[v].who
  IN  /\ view[v].at = "data" /\ view[v].page = "login"
      /\ Mounted(v)
      /\ \/ /\ users[a] = "suspended" /\ GivesBack(v)
            /\ UNCHANGED <<device, memory, stray>>
         \/ /\ users[a] = "other" /\ SignedOut
            /\ GivesBack(v) /\ UNCHANGED <<known, companies>>
         \/ /\ users[a] = "new" /\ user' = a /\ OpenCode(After(v, "idle"), a)
            /\ UNCHANGED <<device, companies, stray>>
         \/ /\ users[a] = "verified" /\ user' = a /\ Goes(v, "fetch")
            /\ UNCHANGED <<device, companies, stray>>
      /\ UNCHANGED remote

\* No document, a failed read and a suspended user stay on Login, signed in.
LoginData(v) ==
  LET a == view[v].who
  IN  /\ view[v].at = "data" /\ view[v].page = "login"
      /\ Mounted(v)
      /\ \/ GivesBack(v) /\ UNCHANGED <<device, memory, stray>>
         \/ /\ users[a] = "other" /\ SignedOut
            /\ GivesBack(v) /\ UNCHANGED <<known, companies>>
         \/ /\ users[a] = "new" /\ user' = a /\ OpenCode(After(v, "idle"), a)
            /\ UNCHANGED <<device, companies, stray>>
         \/ /\ users[a] = "verified" /\ user' = a /\ Goes(v, "fetch")
            /\ UNCHANGED <<device, companies, stray>>
      /\ UNCHANGED remote

\* The list is changed whether or not the page is still there.
LoginFetch(v) ==
  /\ view[v].at = "fetch" /\ view[v].page = "login"
  /\ \/ companies' = view[v].who /\ Wrote(v, "fetch")
     \/ UNCHANGED <<companies, stray>>
  /\ IF Mounted(v) THEN Open(After(v, "idle"), "home", "unset")
                   ELSE Goes(v, "idle")
  /\ UNCHANGED <<remote, device, user>>
-----------------------------------------------------------------------------
\* Register.

SubmitRegister(v, a) == Submit(v, "register", "create", a)

\* A refusal returns a message, for which submitForm has no branch: the form
\* stays disabled.  Any other exception gives it back.
CreateRefused(v) ==
  /\ view[v].at = "create"
  /\ Goes(v, "idle")
  /\ UNCHANGED <<remote, device, memory, stray>>

CreateThrows(v) ==
  /\ view[v].at = "create"
  /\ GivesBack(v)
  /\ UNCHANGED <<remote, device, memory, stray>>

CreateReturns(v) ==
  /\ view[v].at = "create"
  /\ view[v].who \notin accounts
  /\ accounts' = accounts \cup {view[v].who}
  /\ signedIn' = view[v].who
  /\ flag' = "no"
  /\ Goes(v, IF Mounted(v) THEN "profile" ELSE "idle")
  /\ Wrote(v, "signin")
  /\ UNCHANGED <<users, known, memory>>

ProfileWritten(v) ==
  /\ view[v].at = "profile"
  /\ users' = [users EXCEPT ![view[v].who] = "new"]
  /\ view' = [view EXCEPT ![v].at = "profiled"]
  /\ UNCHANGED <<accounts, device, memory, stray>>

\* createProfile returns null whether the write was applied or refused.
ProfileReturns(v) ==
  /\ view[v].at \in {"profile", "profiled"}
  /\ user' = IF Mounted(v) THEN view[v].who ELSE user
  /\ Goes(v, IF Mounted(v) THEN "mails" ELSE "idle")
  /\ UNCHANGED <<remote, device, companies, stray>>

\* Three mails, whose failures are swallowed.
MailsReturn(v) ==
  /\ view[v].at = "mails"
  /\ IF Mounted(v) THEN OpenCode(After(v, "idle"), user) ELSE Goes(v, "idle")
  /\ UNCHANGED <<remote, device, memory, stray>>
-----------------------------------------------------------------------------
\* Verify.

SubmitCode(v) ==
  /\ view[v].who # NoOne
  /\ Submit(v, "code", "check", view[v].who)

\* The fragment is gone with its page, or when the page shows the next one.
Fragment(v) == Mounted(v) /\ view[v].page = "code"

\* 2.5 s later: a wrong code, a fragment that is gone, or no model any more.
CodeWrong(v) ==
  /\ view[v].at = "check"
  /\ IF Fragment(v) THEN GivesBack(v) ELSE Goes(v, "idle")
  /\ UNCHANGED <<remote, device, memory, stray>>

\* updateVerified is asked for the account the model is of by now.
CodeRight(v) ==
  /\ view[v].at = "check"
  /\ Fragment(v) /\ user # NoOne
  /\ view' = [view EXCEPT ![v].at = "verify", ![v].who = user]
  /\ UNCHANGED <<remote, device, memory, stray>>

VerifyWritten(v) ==
  /\ view[v].at = "verify"
  /\ users[view[v].who] # "none"
  /\ users' = [users EXCEPT ![view[v].who] = IF @ = "new" THEN "verified" ELSE @]
  /\ view' = [view EXCEPT ![v].at = "written"]
  /\ UNCHANGED <<accounts, device, memory, stray>>

\* updateVerified returns null when the write was refused, and nobody looks.
\* The PageController is static: every Verify page moves to its second part.
VerifyReturns(v) ==
  /\ view[v].at \in {"verify", "written"}
  /\ flag' = "yes"
  /\ view' = [x \in Views |->
       LET r == IF x = v THEN [view[x] EXCEPT !.at = "idle"] ELSE view[x]
       IN  IF Fragment(x) THEN [r EXCEPT !.page = "success"] ELSE Kept(r)]
  /\ stray' = IF Fragment(v) THEN stray ELSE stray \cup {"verify"}
  /\ UNCHANGED <<remote, signedIn, known, memory>>

\* Home is opened without fetching the companies.
Continue(v) ==
  /\ On(v, "success")
  /\ Open(view, "home", "unset")
  /\ UNCHANGED <<remote, device, memory, stray>>
-----------------------------------------------------------------------------
\* Home.

Refresh(v) ==
  /\ On(v, "home")
  /\ view[v].at = "idle" /\ user # NoOne
  /\ view' = [view EXCEPT ![v].at = "refresh", ![v].who = user]
  /\ UNCHANGED <<remote, device, memory, stray>>

\* fetchData with refresh clears the list when it finds nothing or fails.
RefreshReturns(v) ==
  /\ view[v].at = "refresh"
  /\ companies' \in {view[v].who, NoOne}
  /\ Wrote(v, "fetch")
  /\ Goes(v, "idle")
  /\ UNCHANGED <<remote, device, user>>

\* Mutant: the view model keeps its companies.
LogoutKeeps(v) ==
  /\ On(v, "home")
  /\ SignedOut
  /\ Open(view, "welcome", "unset")
  /\ UNCHANGED <<remote, known, companies>>

Logout(v) ==
  /\ On(v, "home")
  /\ SignedOut
  /\ companies' = NoOne
  /\ Open(view, "welcome", "unset")
  /\ UNCHANGED <<remote, known>>
-----------------------------------------------------------------------------
User(v) ==
  \/ Retry(v) \/ Choose(v) \/ Back(v) \/ Continue(v) \/ Refresh(v) \/ Logout(v)
  \/ SubmitCode(v)
  \/ \E a \in Accounts : SubmitLogin(v, a) \/ SubmitRegister(v, a)

Chain(v) ==
  \/ SplashNet(v) \/ SplashRead(v) \/ SplashData(v) \/ SplashFetch(v)
  \/ SplashThrows(v) \/ SplashGivesUp(v)
  \/ SignInRefused(v) \/ SignInReturns(v)
  \/ LoginDies(v) \/ LoginData(v) \/ LoginFetch(v)
  \/ CreateRefused(v) \/ CreateThrows(v) \/ CreateReturns(v)
  \/ ProfileWritten(v) \/ ProfileReturns(v) \/ MailsReturn(v)
  \/ CodeWrong(v) \/ CodeRight(v) \/ VerifyWritten(v) \/ VerifyReturns(v)
  \/ RefreshReturns(v)

Next ==
  \/ \E v \in Views : User(v) \/ Chain(v) \/ Dispose(v)
  \/ \E a \in Accounts : Elsewhere(a)
  \/ AuthKnown \/ Restart \/ Revoked

\* Calls return, timers fire and transitions end; people do as they like.
Fairness == \A v \in Views : WF_vars(Chain(v)) /\ WF_vars(Dispose(v))

Spec == Init /\ [][Next]_vars
FairSpec == Spec /\ Fairness
-----------------------------------------------------------------------------
\* Properties.

\* Home and the last page of Verify have a model to work with: no login that
\* fails late, page left behind or logout takes it away.  The exception is a
\* verification whose page is gone: it moves the next Verify page, which may
\* have been opened without a model.
HomeHasUser ==
  TopPage \subseteq {"home", "success"} /\ "verify" \notin stray
    => user # NoOne

\* Home shows the companies of its own administrator, also after a logout and
\* another login or registration, unless an answer came for a page that had
\* been left (CompaniesViewModel accepts it all the same), or a verification of
\* such a page has led to Home beside a login that is still under way.
OwnCompanies ==
  TopPage = {"home"} /\ stray \cap {"fetch", "verify"} = {}
    => companies \in {NoOne, user}

\* When a login or Splash opens Home, the model is of the account that is
\* signed in (or was until its session was ended), unless a login whose page had
\* been left has signed another account in since.
HomeIsSignedIn ==
  [][\A v \in Views :
       /\ view[v].at = "fetch" /\ view'[v].at = "idle" /\ Mounted(v)
       /\ "signin" \notin stray
       => signedIn \in {user, NoOne}]_vars

\* Login and the code form take input again when nothing is under way.
InputBack ==
  \A v \in Views :
    On(v, "login") \/ On(v, "code") => view[v].enabled \/ view[v].at # "idle"

\* Every chain ends, whatever its page and the other pages do.
ChainsEnd ==
  \A v \in Views : view[v].at # "idle" ~> view[v].at = "idle" \/ ~known

\* Splash is left once the signed-in state is known when it starts.
SplashIsLeft ==
  (\E v \in Views : On(v, "splash") /\ view[v].at = "net") /\ known
    ~> TopPage # {"splash"} \/ ~known

\* "Your internship program is now set up for success with Punch!"
\* (assets/langs/en.json): the administrator's document is verified.
SetUpForSuccess ==
  [][\A v \in Views :
       On(v, "code") /\ view'[v].page = "success"
       => user # NoOne /\ users[user] \notin {"none", "new"}]_vars
=============================================================================
