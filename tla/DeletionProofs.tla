---------------------------- MODULE DeletionProofs ----------------------------
(***************************************************************************)
(* Theorems about Deletion, for every set of questions and taps.           *)
(***************************************************************************)
EXTENDS Deletion, NavigatorProofs

Timers == {"none", "yes", "no", "loading", "late"}
Calls == {"none", "sent", "removed", "refused", "leaving"}
Asked == {"sent", "removed", "refused"}
TapStates == [timer : Timers, call : Calls, in : Dialogs \cup {None}]

TInv ==
  /\ RoutesInv
  /\ tap \in [Taps -> TapStates]
  /\ hasty \in BOOLEAN

\* A timer that follows Yes runs beside the call, unless the page is gone.
CallWithTimer ==
  \A t \in Taps :
    /\ tap[t].timer = "no" => tap[t].call = "none"
    /\ tap[t].timer \in {"yes", "loading", "late"} =>
         tap[t].call \in Asked \/ ~Mounted

LoadingsCount == IsFiniteSet(Waiting) /\ LoadingPerDeletion

-----------------------------------------------------------------------------
\* What the routes, the timers and the call are like as long as nobody was
\* hasty.

OnPage(r) == stack = <<"under", "page", r>> /\ pageSt = "open"
PageOnTop == stack = <<"under", "page">> /\ pageSt = "open"
NobodyBut(d) == \A e \in Dialogs \ {d} : dialog[e] \in {"none", "leaving"}
NobodyDue == \A e \in Dialogs : dialog[e] \in {"none", "leaving"}
OnlyTap(t) == \A u \in Taps \ {t} : tap[u] = NoTap

\* No question was answered.
Quiet ==
  /\ Idle
  /\ \/ stack = <<"under">> /\ pageSt # "open" /\ NobodyDue
     \/ PageOnTop /\ \E d \in Dialogs \cup {None} :
          NobodyBut(d) /\ (d # None => dialog[d] \in {"none", "leaving", "due"})
     \/ OnPage("child") /\ NobodyDue
     \/ \E d \in Dialogs : OnPage(d) /\ dialog[d] = "up" /\ NobodyBut(d)

Questioned(t) ==
  \E d \in Dialogs :
    /\ OnPage(d) /\ dialog[d] = "up" /\ NobodyBut(d)
    /\ tap[t].in = d
    /\ tap[t].timer \in {"yes", "no"}

Proceeding(t) ==
  /\ NobodyDue
  /\ \/ PageOnTop /\ tap[t].timer = "loading" /\ tap[t].in \in Dialogs
     \/ OnPage("loading") /\ tap[t].timer = "none" /\ tap[t].call \in Asked
     \/ PageOnTop /\ tap[t].timer = "none" /\ tap[t].call = "leaving"

Calm ==
  ~hasty => /\ ~astray
            /\ Quiet \/ \E t \in Taps : OnlyTap(t) /\ (Questioned(t) \/ Proceeding(t))

IInv == TInv /\ CallWithTimer /\ LoadingsCount /\ Calm
-----------------------------------------------------------------------------
\* The invariant holds at first.
LEMMA Initially == Init => IInv
<1> SUFFICES ASSUME Init PROVE IInv
  OBVIOUS
<1>1. RoutesInv /\ Loadings = {}
  BY OpenedRoutes DEF Init
<1>2. tap \in [Taps -> TapStates] /\ Idle /\ Waiting = {}
  BY DEF Init, TapStates, Timers, Calls, NoTap, Idle, Waiting
<1>3. TInv /\ CallWithTimer
  BY <1>1, <1>2 DEF Init, TInv, CallWithTimer, NoTap
<1>4. LoadingsCount
  BY <1>1, <1>2, FS_EmptySet DEF LoadingsCount, LoadingPerDeletion
<1>5. Calm
  <2>1. PageOnTop /\ NobodyBut(None) /\ ~astray
    BY DEF Init, Opened, PageOnTop, NobodyBut
  <2>2. QED
    BY <1>2, <2>1 DEF Calm, Quiet
<1>6. QED
  BY <1>3, <1>4, <1>5 DEF IInv

\* Who acts and is not hasty finds no question answered and none due.
LEMMA Unhurried ==
  ASSUME IInv, Acts, ~hasty'
  PROVE  ~hasty /\ ~astray /\ Idle /\ Quiet /\ \A d \in Dialogs : dialog[d] # "due"
<1>1. ~hasty /\ ~astray /\ Idle /\ \A d \in Dialogs : dialog[d] # "due"
  BY DEF Acts, Busy, IInv, Calm
<1>2. \A t \in Taps : ~Questioned(t) /\ ~Proceeding(t)
  BY <1>1 DEF Idle, NoTap, Questioned, Proceeding, Asked
<1>3. QED
  BY <1>1, <1>2 DEF IInv, Calm

\* What a timer or a call that goes on does to its tap.
LEMMA Keeps ==
  ASSUME NEW r \in TapStates
  PROVE  /\ Keep(r) \in TapStates
         /\ Keep(r).call = r.call /\ Keep(r).timer = r.timer
         /\ r.timer = "none" /\ r.call = "none" => Keep(r) = NoTap
         /\ r.timer # "none" \/ r.call # "none" => Keep(r) = r
BY DEF Keep, TapStates, NoTap, Timers, Calls

\* What an answer, or the end of a call, changes in one tap.
LEMMA CallEffect ==
  ASSUME TInv, NEW t \in Taps, NEW l \in Calls, Call(t, l)
  PROVE  /\ tap' \in [Taps -> TapStates]
         /\ \A u \in Taps \ {t} : tap'[u] = tap[u]
         /\ tap'[t].call = l /\ tap'[t].timer = tap[t].timer
         /\ tap'[t].timer = "none" /\ l = "none" => tap'[t] = NoTap
         /\ tap'[t].timer # "none" \/ l # "none" => tap'[t].in = tap[t].in
<1> DEFINE r == [tap[t] EXCEPT !.call = l]
<1>1. /\ tap[t] \in TapStates /\ r \in TapStates
      /\ r.call = l /\ r.timer = tap[t].timer /\ r.in = tap[t].in
  BY DEF TInv, TapStates
<1>2. tap' = [tap EXCEPT ![t] = Keep(r)]
  BY DEF Call
<1> HIDE DEF r
<1>3. QED
  BY <1>1, <1>2, Keeps DEF TInv

\* What a timer that fires changes in one tap.
LEMMA TimerEffect ==
  ASSUME TInv, NEW t \in Taps, NEW l \in Timers, Timer(t, l)
  PROVE  /\ tap' \in [Taps -> TapStates]
         /\ \A u \in Taps \ {t} : tap'[u] = tap[u]
         /\ tap'[t].timer = l /\ tap'[t].call = tap[t].call
<1> DEFINE r == [tap[t] EXCEPT !.timer = l]
<1>1. /\ tap[t] \in TapStates /\ r \in TapStates
      /\ r.timer = l /\ r.call = tap[t].call
  BY DEF TInv, TapStates
<1>2. tap' = [tap EXCEPT ![t] = Keep(r)]
  BY DEF Timer
<1> HIDE DEF r
<1>3. QED
  BY <1>1, <1>2, Keeps DEF TInv

\* The timer of a question changes timers only.
Timed(t, u) ==
  CASE u = t /\ tap[u].timer = "no" -> "none"
    [] u = t /\ tap[u].timer = "yes" -> IF Dropped(t) THEN "late" ELSE "loading"
    [] u # t /\ tap[u].timer = "loading" /\ tap[u].in = tap[t].in /\ Dropped(t)
         -> "late"
    [] OTHER -> tap[u].timer

\* What the 300 ms timer of a question changes: its own tap, and the later
\* timers of taps in the same question when the page goes.
LEMMA QuestionEffect ==
  ASSUME TInv, NEW t \in Taps, PopQuestion(t)
  PROVE  /\ tap' \in [Taps -> TapStates]
         /\ \A u \in Taps :
              /\ tap'[u].call = tap[u].call /\ tap'[u].timer = Timed(t, u)
              /\ Timed(t, u) = "none" /\ tap[u].call = "none" => tap'[u] = NoTap
              /\ Timed(t, u) # "none" \/ tap[u].call # "none"
                   => tap'[u].in = tap[u].in
<1> SUFFICES ASSUME NEW u \in Taps
             PROVE  LET r == [tap[u] EXCEPT !.timer = Timed(t, u)]
                    IN  /\ r \in TapStates
                        /\ r.call = tap[u].call /\ r.timer = Timed(t, u)
                        /\ r.in = tap[u].in
  <2> DEFINE r(u) == [tap[u] EXCEPT !.timer = Timed(t, u)]
  <2>1. tap' = [u \in Taps |-> Keep(r(u))]
    BY DEF PopQuestion, Timed
  <2>2. \A u \in Taps : /\ r(u) \in TapStates
                        /\ r(u).call = tap[u].call /\ r(u).timer = Timed(t, u)
                        /\ r(u).in = tap[u].in
    OBVIOUS
  <2> HIDE DEF r
  <2>3. QED
    BY <2>1, <2>2, Keeps
<1>1. tap[u] \in TapStates /\ Timed(t, u) \in Timers
  BY DEF TInv, Timed, TapStates, Timers
<1>2. QED
  BY <1>1 DEF TapStates
-----------------------------------------------------------------------------
\* What has to be shown of a step that leaves Waiting and the loading dialogs.
LEMMA SameCount ==
  ASSUME IInv, Waiting' = Waiting,
         pageSt' = "open" /\ ~astray' => pageSt = "open" /\ ~astray /\ Loadings' = Loadings
  PROVE  LoadingsCount'
BY DEF IInv, LoadingsCount, LoadingPerDeletion

\* A step that leaves the taps alone leaves what is said of them alone.
LEMMA SameTaps ==
  ASSUME IInv, UNCHANGED tap, pageSt = "closed" => pageSt' = "closed"
  PROVE  CallWithTimer' /\ Waiting' = Waiting /\ (Idle <=> Idle')
BY DEF IInv, CallWithTimer, Waiting, Mounted, Idle

\* The routes of Quiet, from what is on top.
LEMMA QuietTop ==
  ASSUME TInv, Quiet, \A d \in Dialogs : dialog[d] # "due"
  PROVE  /\ Top \in {"under", "page", "child"} \cup Dialogs
         /\ Top = "page" => PageOnTop /\ NobodyDue
         /\ Top = "child" => OnPage("child") /\ NobodyDue
         /\ \A d \in Dialogs : Top = d => OnPage(d) /\ dialog[d] = "up" /\ NobodyBut(d)
<1>1. CASE stack = <<"under">> /\ pageSt # "open" /\ NobodyDue
  <2>1. Top = "under"
    BY <1>1, TopOfShort
  <2>2. QED
    BY <2>1, DialogsAssumption
<1>2. CASE PageOnTop /\ \E d \in Dialogs \cup {None} :
             NobodyBut(d) /\ (d # None => dialog[d] \in {"none", "leaving", "due"})
  <2>1. Top = "page"
    BY <1>2, TopOfShort DEF PageOnTop
  <2>2. NobodyDue
    <3>1. PICK d \in Dialogs \cup {None} :
            NobodyBut(d) /\ (d # None => dialog[d] \in {"none", "leaving", "due"})
      BY <1>2
    <3>2. QED
      BY <3>1, DialogsAssumption DEF NobodyBut, NobodyDue
  <2>3. QED
    BY <1>2, <2>1, <2>2, DialogsAssumption
<1>3. CASE OnPage("child") /\ NobodyDue
  <2>1. Top = "child"
    BY <1>3, TopOfShort DEF OnPage
  <2>2. QED
    BY <1>3, <2>1, DialogsAssumption
<1>4. ASSUME NEW d \in Dialogs, OnPage(d) /\ dialog[d] = "up" /\ NobodyBut(d)
      PROVE  Top = d
  BY <1>4, TopOfShort DEF OnPage
<1>5. QED
  BY <1>1, <1>2, <1>3, <1>4, DialogsAssumption DEF Quiet

\* The back button on a quiet page.
LEMMA BackStep == ASSUME IInv, Back PROVE IInv'
<1>1. /\ RoutesInv' /\ Loadings' = Loadings /\ UNCHANGED <<tap, astray>> /\ Acts /\ Pop
      /\ (pageSt' = "open" => pageSt = "open") /\ (pageSt = "closed" => pageSt' = "closed")
  BY GoBackKeeps DEF Back, IInv, TInv, GoBack
<1>2. TInv'
  BY <1>1 DEF IInv, TInv, Acts, Busy
<1>3. CallWithTimer' /\ LoadingsCount'
  BY <1>1, SameTaps, SameCount
<1>4. Calm'
  <2> SUFFICES ASSUME ~hasty' PROVE ~astray' /\ Quiet'
    BY DEF Calm
  <2>1. ~astray' /\ Idle' /\ Quiet /\ \A d \in Dialogs : dialog[d] # "due"
    BY <1>1, Unhurried, SameTaps
  <2>2. CASE Top = "page"
    <3>1. PageOnTop /\ NobodyDue
      BY <2>1, <2>2, QuietTop DEF IInv
    <3>2. stack' = <<"under">> /\ dialog' = dialog /\ pageSt' = "closing"
      <4>1. stack' = <<"under">> /\ dialog' = dialog
        BY <1>1, <2>2, <3>1, PopOfShort, DialogsAssumption DEF PageOnTop, IInv, TInv
      <4>2. pageSt' = "closing"
        BY <1>1, <2>2 DEF Pop
      <4>3. QED
        BY <4>1, <4>2
    <3>3. QED
      BY <2>1, <3>1, <3>2 DEF Quiet, NobodyDue
  <2>3. CASE Top = "child"
    <3>1. OnPage("child") /\ NobodyDue
      BY <2>1, <2>3, QuietTop DEF IInv
    <3>2. stack' = <<"under", "page">> /\ dialog' = dialog /\ pageSt' = "open"
      <4>1. stack' = <<"under", "page">> /\ dialog' = dialog
        BY <1>1, <2>3, <3>1, PopOfShort, DialogsAssumption DEF OnPage, IInv, TInv
      <4>2. pageSt' = "open"
        BY <1>1, <2>3, <3>1 DEF Pop, OnPage
      <4>3. QED
        BY <4>1, <4>2
    <3>3. NobodyBut(None)'
      BY <3>1, <3>2 DEF NobodyDue, NobodyBut
    <3>4. QED
      BY <2>1, <3>2, <3>3 DEF Quiet, PageOnTop
  <2>4. ASSUME NEW d \in Dialogs, Top = d PROVE Quiet'
    <3>1. OnPage(d) /\ NobodyBut(d)
      BY <2>1, <2>4, QuietTop DEF IInv
    <3>2. /\ stack' = <<"under", "page">> /\ pageSt' = "open"
          /\ dialog' = [e \in Dialogs |-> IF e = d THEN "leaving" ELSE dialog[e]]
      <4>1. stack' = <<"under", "page">>
        BY <1>1, <3>1, PopOfShort DEF OnPage, IInv, TInv
      <4>2. d # "page"
        BY DialogsAssumption
      <4>3. QED
        BY <1>1, <2>4, <3>1, <4>1, <4>2 DEF Pop, OnPage
    <3>3. NobodyBut(d)' /\ dialog'[d] = "leaving"
      BY <3>1, <3>2 DEF NobodyBut
    <3>4. QED
      BY <2>1, <3>2, <3>3 DEF Quiet, PageOnTop
  <2>5. QED
    BY <2>1, <2>2, <2>3, <2>4 DEF Back, GoBack
<1>5. QED
  BY <1>2, <1>3, <1>4 DEF IInv

\* The form, opened while something runs, makes the administrator hasty.
LEMMA OpenChildStep == ASSUME IInv, OpenChild PROVE IInv'
<1>1. /\ Top = "page" /\ stack' = Append(stack, "child")
      /\ Acts /\ UNCHANGED <<pageSt, dialog, astray, tap>>
      /\ RoutesInv /\ "child" \in Routes \ {"under", "page"}
  BY DEF OpenChild, Routes, IInv, TInv
<1>2. RoutesInv' /\ Loadings' = Loadings
  BY <1>1, Push, PushKeeps DEF RoutesInv
<1>3. TInv' /\ CallWithTimer' /\ LoadingsCount'
  BY <1>1, <1>2, SameTaps, SameCount DEF IInv, TInv, Acts, Busy
<1>4. Calm'
  <2> SUFFICES ASSUME ~hasty' PROVE ~astray' /\ Quiet'
    BY DEF Calm
  <2>1. ~astray' /\ Idle' /\ Quiet /\ \A d \in Dialogs : dialog[d] # "due"
    BY <1>1, Unhurried, SameTaps
  <2>2. PageOnTop /\ NobodyDue
    BY <1>1, <2>1, QuietTop DEF IInv
  <2>3. OnPage("child")' /\ NobodyDue'
    <3>1. Append(<<"under", "page">>, "child") = <<"under", "page", "child">>
      BY PushThird
    <3>2. QED
      BY <1>1, <2>2, <3>1 DEF OnPage, PageOnTop, NobodyDue
  <2>4. QED
    BY <2>1, <2>3 DEF Quiet
<1>5. QED
  BY <1>3, <1>4 DEF IInv

\* A page that is opened again has nothing under way.
LEMMA ReopenStep == ASSUME IInv, Reopen PROVE IInv'
<1>1. Top = "under"
  BY ShortStacks DEF Reopen, Top
<1>2. stack' = Append(stack, "page")
  BY ShortStacks DEF Reopen
<1>3. RoutesInv' /\ Loadings' = {}
  BY <1>1, <1>2, ReopenKeeps DEF Reopen, IInv, TInv
<1>4. Waiting' = {} /\ Idle' /\ CallWithTimer'
  BY DEF Reopen, Idle, Waiting, NoTap, CallWithTimer
<1>5. TInv' /\ LoadingsCount'
  BY <1>3, <1>4, FS_EmptySet DEF Reopen, IInv, TInv, LoadingsCount, LoadingPerDeletion
<1>6. PageOnTop' /\ NobodyBut(None)' /\ ~astray'
  BY DEF Reopen, PageOnTop, NobodyBut
<1>7. QED
  BY <1>4, <1>5, <1>6 DEF IInv, Calm, Quiet

\* The icon and the transitions.
LEMMA TapDeleteStep == ASSUME IInv, NEW d \in Dialogs, TapDelete(d) PROVE IInv'
<1>1. /\ Top = "page" /\ dialog' = [dialog EXCEPT ![d] = "due"]
      /\ Acts /\ UNCHANGED <<pageSt, stack, astray, tap>>
  BY DEF TapDelete, AskFor
<1>2. RoutesInv' /\ Loadings' = Loadings
  BY <1>1, AskForKeeps DEF TapDelete, IInv, TInv, Loadings
<1>3. TInv' /\ CallWithTimer' /\ LoadingsCount'
  BY <1>1, <1>2, SameTaps, SameCount DEF IInv, TInv, Acts, Busy
<1>4. Calm'
  <2> SUFFICES ASSUME ~hasty' PROVE ~astray' /\ Quiet'
    BY DEF Calm
  <2>1. ~astray' /\ Idle' /\ Quiet /\ \A e \in Dialogs : dialog[e] # "due"
    BY <1>1, Unhurried, SameTaps
  <2>2. PageOnTop /\ NobodyDue
    BY <1>1, <2>1, QuietTop DEF IInv
  <2>3. PageOnTop' /\ NobodyBut(d)' /\ dialog'[d] = "due"
    BY <1>1, <2>2 DEF PageOnTop, NobodyBut, NobodyDue, IInv, TInv, RoutesInv
  <2>4. QED
    BY <2>1, <2>3 DEF Quiet
<1>5. QED
  BY <1>3, <1>4 DEF IInv
-----------------------------------------------------------------------------
\* What Calm says while something is under way.
LEMMA CalmTap ==
  ASSUME IInv, ~hasty, NEW t \in Taps, tap[t] # NoTap
  PROVE  ~astray /\ OnlyTap(t) /\ (Questioned(t) \/ Proceeding(t)) /\ pageSt = "open"
<1>1. ~Idle
  BY DEF Idle
<1>2. PICK u \in Taps : OnlyTap(u) /\ (Questioned(u) \/ Proceeding(u))
  BY <1>1 DEF IInv, Calm, Quiet
<1>3. u = t
  BY <1>2 DEF OnlyTap
<1>4. QED
  BY <1>2, <1>3 DEF IInv, Calm, Questioned, Proceeding, OnPage, PageOnTop

\* No tap but one has something under way: none has when it is done.
LEMMA AllDone ==
  ASSUME NEW t \in Taps, OnlyTap(t), tap' \in [Taps -> TapStates],
         \A u \in Taps \ {t} : tap'[u] = tap[u], tap'[t] = NoTap
  PROVE  Idle'
BY DEF OnlyTap, Idle

\* A question that is due comes up.
LEMMA ShowQuestionStep == ASSUME IInv, NEW d \in Dialogs, ShowQuestion(d) PROVE IInv'
<1>1. Show(d) /\ UNCHANGED <<pageSt, astray, tap, hasty>> /\ RoutesInv /\ RoutesInv'
  BY ShowKeeps DEF ShowQuestion, Show, IInv, TInv
<1>2. Loadings' = Loadings
  <2>1. d \in Routes /\ d # "loading"
    BY DialogsAssumption DEF Routes
  <2>2. stack' = Append(stack, d) \/ stack' = stack
    BY <1>1 DEF Show
  <2>3. QED
    BY <1>1, <2>1, <2>2, Push DEF Loadings
<1>3. TInv' /\ CallWithTimer' /\ LoadingsCount'
  BY <1>1, <1>2, SameTaps, SameCount DEF IInv, TInv
<1>4. Calm'
  <2> SUFFICES ASSUME ~hasty' PROVE ~astray' /\ Quiet'
    BY DEF Calm
  <2>1. dialog[d] = "due" /\ ~hasty /\ ~astray
    BY <1>1 DEF Show, IInv, Calm
  <2>2. \A t \in Taps : ~Questioned(t) /\ ~Proceeding(t)
    BY <2>1 DEF Questioned, Proceeding, NobodyBut, NobodyDue
  <2>3. Quiet
    BY <2>1, <2>2 DEF IInv, Calm
  <2>4. PageOnTop /\ NobodyBut(d)
    BY <2>1, <2>3 DEF Quiet, NobodyDue, NobodyBut
  <2>5. OnPage(d)'
    <3>1. stack' = Append(<<"under", "page">>, d)
      BY <1>1, <2>4 DEF Show, PageOnTop, Mounted
    <3>2. QED
      BY <1>1, <2>4, <3>1, PushThird DEF OnPage, PageOnTop
  <2>6. dialog'[d] = "up" /\ NobodyBut(d)'
    BY <1>1, <2>4 DEF Show, PageOnTop, Mounted, NobodyBut, RoutesInv
  <2>7. QED
    BY <1>1, <2>1, <2>3, <2>5, <2>6, SameTaps DEF Quiet
<1>5. QED
  BY <1>3, <1>4 DEF IInv

\* Transitions end.
LEMMA QuestionLeavesStep == ASSUME IInv, NEW d \in Dialogs, QuestionLeaves(d) PROVE IInv'
<1>1. /\ UNCHANGED <<pageSt, stack, astray, tap, hasty>> /\ RoutesInv /\ RoutesInv'
      /\ dialog[d] = "leaving" /\ dialog' = [dialog EXCEPT ![d] = "none"]
      /\ DialogLeaves(d)
  BY DialogLeavesKeeps DEF QuestionLeaves, DialogLeaves, IInv, TInv
<1>2. TInv' /\ CallWithTimer' /\ LoadingsCount' /\ (Idle <=> Idle')
  BY <1>1, SameTaps, SameCount DEF IInv, TInv, Loadings
<1>3. /\ \A e \in Dialogs \ {d} : dialog'[e] = dialog[e]
      /\ dialog'[d] = "none"
  BY <1>1 DEF RoutesInv
<1>4. /\ NobodyDue => NobodyDue'
      /\ \A e \in Dialogs \cup {None} : NobodyBut(e) => NobodyBut(e)'
      /\ \A r : OnPage(r) <=> OnPage(r)'
      /\ PageOnTop <=> PageOnTop'
  BY <1>1, <1>3 DEF NobodyDue, NobodyBut, OnPage, PageOnTop
<1>5. Calm'
  <2> SUFFICES ASSUME ~hasty'
               PROVE  ~astray' /\ (Quiet' \/ \E t \in Taps : OnlyTap(t)' /\
                                             (Questioned(t)' \/ Proceeding(t)'))
    BY DEF Calm
  <2>1. CASE Quiet
    BY <1>1, <1>2, <1>3, <1>4, <2>1 DEF Quiet, IInv, Calm
  <2>2. ASSUME NEW t \in Taps, OnlyTap(t), Questioned(t) \/ Proceeding(t)
        PROVE  OnlyTap(t)' /\ (Questioned(t)' \/ Proceeding(t)')
    BY <1>1, <1>3, <1>4, <2>2 DEF OnlyTap, Questioned, Proceeding
  <2>3. QED
    BY <1>1, <2>1, <2>2 DEF IInv, Calm
<1>6. QED
  BY <1>2, <1>5 DEF IInv

\* With the page disposed, what is still to come throws or pops nothing.
LEMMA PageGoneStep == ASSUME IInv, PageGone PROVE IInv'
<1>1. /\ pageSt = "closing" /\ pageSt' = "closed"
      /\ UNCHANGED <<stack, dialog, astray, tap, hasty>> /\ RoutesInv'
  BY PageLeavesKeeps DEF PageGone, PageLeaves, IInv, TInv
<1>2. TInv' /\ CallWithTimer' /\ LoadingsCount' /\ (Idle <=> Idle')
  BY <1>1, SameTaps, SameCount DEF IInv, TInv
<1>3. Calm'
  <2> SUFFICES ASSUME ~hasty' PROVE ~astray' /\ Quiet'
    BY DEF Calm
  <2>1. ~hasty /\ \A t \in Taps : ~Questioned(t) /\ ~Proceeding(t)
    BY <1>1 DEF Questioned, Proceeding, OnPage, PageOnTop
  <2>2. ~astray /\ Quiet
    BY <2>1 DEF IInv, Calm
  <2>3. Idle /\ stack = <<"under">> /\ NobodyDue
    BY <1>1, <2>2 DEF Quiet, OnPage, PageOnTop
  <2>4. QED
    BY <1>1, <1>2, <2>2, <2>3 DEF Quiet, NobodyDue
<1>4. QED
  BY <1>2, <1>3 DEF IInv

\* A question is answered.
LEMMA AnsweredStep ==
  ASSUME IInv, NEW t \in Taps, NEW d \in Dialogs, Yes(t, d) \/ No(t, d) PROVE IInv'
<1>1. /\ Top = d /\ tap[t] = NoTap /\ Acts /\ UNCHANGED routes
      /\ RoutesInv /\ tap \in [Taps -> TapStates]
  BY DEF Yes, No, IInv, TInv
<1>2. PICK l \in {"yes", "no"}, c \in {"sent", "none"} :
        /\ tap' = [tap EXCEPT ![t] = [timer |-> l, in |-> d, call |-> c]]
        /\ l = "no" => c = "none"
        /\ l = "yes" /\ Mounted => c = "sent"
  BY DEF Yes, No
<1>3. /\ tap' \in [Taps -> TapStates]
      /\ \A u \in Taps \ {t} : tap'[u] = tap[u]
      /\ tap'[t].timer = l /\ tap'[t].call = c /\ tap'[t].in = d
  BY <1>1, <1>2 DEF TapStates, Timers, Calls
<1>4. RoutesInv' /\ TInv'
  BY <1>1, <1>3 DEF IInv, TInv, RoutesInv, routes, Acts, Busy
<1>5. CallWithTimer'
  BY <1>1, <1>2, <1>3 DEF IInv, CallWithTimer, Asked, Mounted, routes
<1>6. Waiting' = Waiting
  BY <1>1, <1>3 DEF Waiting, NoTap
<1>7. LoadingsCount'
  BY <1>1, <1>6, SameCount DEF routes, Loadings
<1>8. Calm'
  <2> SUFFICES ASSUME ~hasty' PROVE ~astray' /\ OnlyTap(t)' /\ Questioned(t)'
    BY DEF Calm
  <2>1. ~astray /\ Idle /\ Quiet /\ \A e \in Dialogs : dialog[e] # "due"
    BY <1>1, Unhurried
  <2>2. OnPage(d) /\ dialog[d] = "up" /\ NobodyBut(d)
    BY <1>1, <2>1, QuietTop DEF IInv
  <2>3. OnPage(d)' /\ dialog'[d] = "up" /\ NobodyBut(d)' /\ ~astray'
    BY <1>1, <2>1, <2>2 DEF routes, OnPage, NobodyBut
  <2>4. OnlyTap(t)'
    BY <1>3, <2>1 DEF OnlyTap, Idle
  <2>5. QED
    BY <1>3, <2>3, <2>4 DEF Questioned
<1>9. QED
  BY <1>4, <1>5, <1>7, <1>8 DEF IInv
-----------------------------------------------------------------------------
\* The timer of an answered question pops it.
LEMMA PopQuestionStep == ASSUME IInv, NEW t \in Taps, PopQuestion(t) PROVE IInv'
<1> DEFINE d == tap[t].in
<1>1. /\ tap[t].timer \in {"yes", "no"} /\ DialogPops(d) /\ hasty' = hasty
      /\ TInv /\ RoutesInv /\ d \in Dialogs \cup {None}
      /\ \A u \in Taps : tap[u].call \in Calls /\ tap[u].timer \in Timers
  BY DEF PopQuestion, IInv, TInv, TapStates
<1>2. /\ tap' \in [Taps -> TapStates]
      /\ \A u \in Taps :
           /\ tap'[u].call = tap[u].call /\ tap'[u].timer = Timed(t, u)
           /\ Timed(t, u) = "none" /\ tap[u].call = "none" => tap'[u] = NoTap
           /\ Timed(t, u) # "none" \/ tap[u].call # "none" => tap'[u].in = tap[u].in
  BY <1>1, QuestionEffect
<1>3. PopFor(d) \/ NoPop
  BY <1>1 DEF DialogPops
<1> HIDE DEF d
<1>4. /\ RoutesInv'
      /\ pageSt' = "open" => pageSt = "open"
      /\ pageSt = "closed" => pageSt' = "closed"
      /\ ~astray' => ~astray /\ Loadings' = Loadings
  <2>1. CASE PopFor(d)
    <3>1. RoutesInv' /\ (pageSt' = "open" => pageSt = "open")
          /\ (pageSt = "closed" => pageSt' = "closed")
      BY <1>1, <2>1, PopForKeeps
    <3>2. ~astray' => ~astray /\ Top = d
      BY <2>1 DEF PopFor
    <3>3. d # "loading"
      BY <1>1, DialogsAssumption
    <3>4. Top # "loading" => Loadings' = Loadings
      BY <1>1, <2>1, PopLoadings DEF PopFor
    <3>5. QED
      BY <3>1, <3>2, <3>3, <3>4
  <2>2. CASE NoPop
    BY <1>1, <2>2, NoPopKeeps DEF NoPop, routes, Loadings
  <2>3. QED
    BY <1>3, <2>1, <2>2
<1>5. CallWithTimer'
  BY <1>1, <1>2, <1>4 DEF IInv, CallWithTimer, Timed, Mounted
<1>6. \A u \in Taps : u \in Waiting' <=> u \in Waiting
  BY <1>1, <1>2 DEF IInv, CallWithTimer, Waiting, Timed
<1>7. Waiting' = Waiting
  BY <1>6 DEF Waiting
<1>8. TInv' /\ LoadingsCount'
  BY <1>1, <1>2, <1>4, <1>7, SameCount DEF TInv
<1>9. Calm'
  <2> SUFFICES ASSUME ~hasty'
               PROVE  ~astray' /\ (Quiet' \/ (OnlyTap(t)' /\ Proceeding(t)'))
    BY DEF Calm
  <2>1. tap[t] # NoTap
    BY <1>1 DEF NoTap
  <2>2. ~astray /\ OnlyTap(t) /\ Questioned(t)
    BY <1>1, <2>1, CalmTap DEF Proceeding
  <2>3. d \in Dialogs /\ OnPage(d) /\ dialog[d] = "up" /\ NobodyBut(d)
    BY <2>2 DEF Questioned, d
  <2>4. Top = d /\ d # "page"
    BY <2>3, TopOfShort, DialogsAssumption DEF OnPage
  <2>5. PopFor(d)
    BY <1>1, <2>3 DEF DialogPops
  <2>6. PageOnTop' /\ ~astray'
    <3>1. stack' = <<"under", "page">>
      BY <1>1, <2>3, <2>5, PopOfShort DEF OnPage, PopFor
    <3>2. pageSt' = pageSt /\ ~astray'
      BY <2>2, <2>4, <2>5 DEF PopFor, Pop
    <3>3. QED
      BY <2>3, <3>1, <3>2 DEF PageOnTop, OnPage
  <2>7. dialog' = [e \in Dialogs |-> IF e = d THEN "leaving" ELSE dialog[e]]
    BY <2>4, <2>5 DEF PopFor, Pop
  <2>8. NobodyDue' /\ NobodyBut(None)'
    BY <2>3, <2>7 DEF NobodyDue, NobodyBut
  <2>9. \A u \in Taps \ {t} : tap'[u] = NoTap
    BY <1>2, <2>2 DEF OnlyTap, Timed, NoTap
  <2>10. CASE tap[t].timer = "no"
    <3>1. tap'[t] = NoTap
      BY <1>2, <2>10 DEF IInv, CallWithTimer, Timed
    <3>2. Idle'
      BY <1>2, <2>9, <3>1 DEF Idle
    <3>3. QED
      BY <2>6, <2>8, <3>2 DEF Quiet
  <2>11. CASE tap[t].timer = "yes"
    <3>1. ~Dropped(t)
      <4>1. \A u \in Taps : tap[u].timer # "late"
        BY <2>2, <2>11 DEF OnlyTap, NoTap
      <4>2. QED
        BY <2>4, <4>1 DEF Dropped
    <3>2. Timed(t, t) = "loading"
      BY <2>11, <3>1 DEF Timed
    <3>3. tap'[t].timer = "loading" /\ tap'[t].in \in Dialogs
      BY <1>2, <2>3, <3>2 DEF d
    <3>4. Proceeding(t)' /\ OnlyTap(t)'
      BY <2>6, <2>8, <2>9, <3>3 DEF Proceeding, OnlyTap, NoTap
    <3>5. QED
      BY <2>6, <3>4
  <2>12. QED
    BY <1>1, <2>6, <2>10, <2>11
<1>10. QED
  BY <1>5, <1>8, <1>9 DEF IInv

\* The LoadingDialog of a deletion comes up, if the page is there.
LEMMA ShowLoadingStep == ASSUME IInv, NEW t \in Taps, ShowLoading(t) PROVE IInv'
<1>1. /\ tap[t].timer \in {"loading", "late"}
      /\ tap[t].timer = "late" => ~Mounted
      /\ PageShowsLoading /\ Timer(t, "none") /\ hasty' = hasty
      /\ TInv /\ RoutesInv /\ RoutesInv'
      /\ UNCHANGED <<pageSt, dialog, astray>>
  BY PageShowsLoadingKeeps DEF ShowLoading, PageShowsLoading, IInv, TInv
<1>2. /\ tap' \in [Taps -> TapStates]
      /\ \A u \in Taps \ {t} : tap'[u] = tap[u]
      /\ tap'[t].timer = "none" /\ tap'[t].call = tap[t].call
  BY <1>1, TimerEffect DEF Timers
<1>3. TInv' /\ CallWithTimer'
  BY <1>1, <1>2 DEF IInv, TInv, CallWithTimer, Mounted
<1>4. CASE Mounted
  <2>1. tap[t].call \in Asked /\ t \notin Waiting
    BY <1>1, <1>4 DEF IInv, CallWithTimer, Waiting
  <2>2. Waiting' = Waiting \cup {t}
    BY <1>2, <2>1 DEF Waiting, Asked
  <2>3. stack' = Append(stack, "loading") /\ "loading" \in Routes
    BY <1>1, <1>4 DEF PageShowsLoading, Routes
  <2>4. Cardinality(Loadings') = Cardinality(Loadings) + 1
    BY <1>1, <2>3, Push
  <2>5. LoadingsCount'
    <3>1. /\ IsFiniteSet(Waiting')
          /\ Cardinality(Waiting') = Cardinality(Waiting) + 1
      BY <2>1, <2>2, FS_AddElement DEF IInv, LoadingsCount
    <3>2. QED
      BY <1>1, <2>4, <3>1 DEF IInv, LoadingsCount, LoadingPerDeletion
  <2>6. Calm'
    <3> SUFFICES ASSUME ~hasty' PROVE ~astray' /\ OnlyTap(t)' /\ Proceeding(t)'
      BY DEF Calm
    <3>1. ~astray /\ OnlyTap(t) /\ Proceeding(t)
      BY <1>1, CalmTap DEF NoTap, Questioned
    <3>2. PageOnTop /\ NobodyDue
      BY <1>1, <3>1 DEF Proceeding
    <3>3. OnPage("loading")' /\ NobodyDue' /\ ~astray'
      <4>1. Append(<<"under", "page">>, "loading") = <<"under", "page", "loading">>
        BY PushThird
      <4>2. QED
        BY <1>1, <2>3, <3>1, <3>2, <4>1 DEF OnPage, PageOnTop, NobodyDue
    <3>4. OnlyTap(t)'
      BY <1>2, <3>1 DEF OnlyTap, NoTap
    <3>5. QED
      BY <1>2, <2>1, <3>3, <3>4 DEF Proceeding
  <2>7. QED
    BY <1>3, <2>5, <2>6 DEF IInv
<1>5. CASE ~Mounted
  <2>1. pageSt = "closed" /\ pageSt' = "closed"
    BY <1>1, <1>5 DEF Mounted
  <2>2. Waiting' \subseteq Waiting \cup {t}
    BY <1>2 DEF Waiting
  <2>3. IsFiniteSet(Waiting')
    BY <2>2, FS_AddElement, FS_Subset DEF IInv, LoadingsCount
  <2>4. LoadingsCount'
    BY <2>1, <2>3 DEF LoadingsCount, LoadingPerDeletion
  <2>5. hasty
    BY <1>1, <2>1, CalmTap DEF NoTap
  <2>6. QED
    BY <1>1, <1>3, <2>4, <2>5 DEF IInv, Calm
<1>6. QED
  BY <1>4, <1>5

\* The answer of the server.
LEMMA AnswerStep == ASSUME IInv, NEW t \in Taps, Answer(t) PROVE IInv'
<1>1. /\ tap[t].call = "sent" /\ UNCHANGED <<routes, hasty>>
      /\ TInv /\ RoutesInv
      /\ tap[t] # NoTap
  BY DEF Answer, IInv, TInv, NoTap
<1>2. PICK l \in {"removed", "refused", "none"} :
        Call(t, l) /\ (Mounted => l # "none")
  BY DEF Answer
<1>3. /\ tap' \in [Taps -> TapStates]
      /\ \A u \in Taps \ {t} : tap'[u] = tap[u]
      /\ tap'[t].call = l /\ tap'[t].timer = tap[t].timer
      /\ tap'[t].timer # "none" \/ l # "none" => tap'[t].in = tap[t].in
  BY <1>1, <1>2, CallEffect DEF Calls
<1>4. TInv' /\ UNCHANGED <<pageSt, stack, dialog, astray, hasty>>
  BY <1>1, <1>3 DEF TInv, RoutesInv, routes
<1>5. CallWithTimer'
  BY <1>1, <1>2, <1>3, <1>4 DEF IInv, CallWithTimer, Mounted, Asked
<1>6. CASE Mounted
  <2>1. Waiting' = Waiting
    BY <1>1, <1>2, <1>3, <1>6 DEF Waiting
  <2>2. LoadingsCount'
    BY <1>4, <2>1, SameCount DEF Loadings
  <2>3. Calm'
    <3> SUFFICES ASSUME ~hasty'
                 PROVE  ~astray' /\ OnlyTap(t)' /\ (Questioned(t)' \/ Proceeding(t)')
      BY DEF Calm
    <3>1. ~astray /\ OnlyTap(t) /\ (Questioned(t) \/ Proceeding(t))
      BY <1>1, <1>4, CalmTap
    <3>2. OnlyTap(t)'
      BY <1>3, <3>1 DEF OnlyTap, NoTap
    <3>3. Questioned(t) => Questioned(t)'
      BY <1>3, <1>4 DEF Questioned, OnPage, NobodyBut
    <3>4. Proceeding(t) => Proceeding(t)'
      BY <1>1, <1>2, <1>3, <1>4, <1>6 DEF Proceeding, Asked, NobodyDue, OnPage, PageOnTop
    <3>5. QED
      BY <1>4, <3>1, <3>2, <3>3, <3>4
  <2>4. QED
    BY <1>4, <1>5, <2>2, <2>3 DEF IInv
<1>7. CASE ~Mounted
  <2>1. pageSt = "closed" /\ pageSt' = "closed"
    BY <1>4, <1>7 DEF Mounted
  <2>2. Waiting' \subseteq Waiting \cup {t}
    BY <1>3 DEF Waiting
  <2>3. LoadingsCount'
    BY <2>1, <2>2, FS_AddElement, FS_Subset DEF IInv, LoadingsCount, LoadingPerDeletion
  <2>4. hasty
    BY <1>1, <2>1, CalmTap
  <2>5. QED
    BY <1>4, <1>5, <2>3, <2>4 DEF IInv, Calm
<1>8. QED
  BY <1>6, <1>7

\* A pop by the page with what it leaves of the routes.
LEMMA PagePopsEffect ==
  ASSUME TInv, NEW r, PagePops(r)
  PROVE  /\ RoutesInv'
         /\ pageSt' = "open" => pageSt = "open" /\ PopFor(r)
         /\ pageSt = "closed" => pageSt' = "closed"
         /\ pageSt = "open" => PopFor(r)
<1>1. CASE PopFor(r)
  BY <1>1, PopForKeeps DEF TInv, PagePops, Mounted
<1>2. CASE pageSt = "closed" /\ NoPop
  BY <1>2, NoPopKeeps DEF TInv, NoPop, routes
<1>3. QED
  <2>1. pageSt \in {"open", "closing", "closed"}
    BY DEF TInv, RoutesInv
  <2>2. QED
    BY <1>1, <1>2, <2>1 DEF PagePops, Mounted

\* The wait is over, and the LoadingDialog goes.
LEMMA PopLoadingStep == ASSUME IInv, NEW t \in Taps, PopLoading(t) PROVE IInv'
<1>1. /\ tap[t].call \in {"removed", "refused"} /\ tap[t].timer = "none"
      /\ PagePops("loading") /\ hasty' = hasty
      /\ TInv /\ RoutesInv
      /\ tap[t] # NoTap /\ t \in Waiting
  BY DEF PopLoading, IInv, TInv, NoTap, Waiting
<1>2. PICK l \in {"leaving", "none"} :
        Call(t, l) /\ (l = "leaving" <=> tap[t].call = "removed" /\ Mounted)
  BY DEF PopLoading
<1>3. /\ tap' \in [Taps -> TapStates]
      /\ \A u \in Taps \ {t} : tap'[u] = tap[u]
      /\ tap'[t].call = l /\ tap'[t].timer = "none"
      /\ l = "none" => tap'[t] = NoTap
  BY <1>1, <1>2, CallEffect DEF Calls
<1>4. /\ RoutesInv'
      /\ pageSt' = "open" => pageSt = "open" /\ PopFor("loading")
      /\ pageSt = "closed" => pageSt' = "closed"
      /\ pageSt = "open" => PopFor("loading")
  BY <1>1, PagePopsEffect
<1>5. TInv' /\ CallWithTimer'
  BY <1>1, <1>3, <1>4 DEF IInv, TInv, CallWithTimer, Mounted
<1>6. LoadingsCount'
  <2>1. Waiting' = Waiting \ {t}
    BY <1>3 DEF Waiting
  <2>2. IsFiniteSet(Waiting') /\ Cardinality(Waiting') = Cardinality(Waiting) - 1
    BY <1>1, <2>1, FS_RemoveElement DEF IInv, LoadingsCount
  <2>3. ASSUME ~astray', pageSt' = "open"
        PROVE  /\ ~astray /\ pageSt = "open"
               /\ Cardinality(Loadings') = Cardinality(Loadings) - 1
    <3>1. ~astray /\ Top = "loading" /\ Pop
      BY <1>4, <2>3 DEF PopFor
    <3>2. QED
      BY <1>1, <1>4, <2>3, <3>1, PopLoadings
  <2>4. QED
    BY <2>2, <2>3 DEF IInv, LoadingsCount, LoadingPerDeletion
<1>7. Calm'
  <2> SUFFICES ASSUME ~hasty'
               PROVE  ~astray' /\ (Quiet' \/ (OnlyTap(t)' /\ Proceeding(t)'))
    BY DEF Calm
  <2>1. ~astray /\ OnlyTap(t) /\ Proceeding(t)
    BY <1>1, CalmTap DEF Questioned
  <2>2. OnPage("loading") /\ NobodyDue
    BY <1>1, <2>1 DEF Proceeding
  <2>3. Top = "loading" /\ pageSt = "open"
    BY <2>2, TopOfShort DEF OnPage
  <2>4. Pop /\ ~astray'
    BY <1>4, <2>1, <2>3 DEF PopFor
  <2>5. PageOnTop' /\ dialog' = dialog
    <3>1. stack' = <<"under", "page">> /\ dialog' = dialog
      BY <1>1, <2>2, <2>3, <2>4, PopOfShort, DialogsAssumption DEF OnPage
    <3>2. pageSt' = "open"
      BY <2>3, <2>4 DEF Pop
    <3>3. QED
      BY <3>1, <3>2 DEF PageOnTop
  <2>6. NobodyDue' /\ NobodyBut(None)' /\ OnlyTap(t)'
    BY <1>3, <2>1, <2>2, <2>5 DEF NobodyDue, NobodyBut, OnlyTap, NoTap
  <2>7. CASE l = "leaving"
    BY <1>3, <2>4, <2>5, <2>6, <2>7 DEF Proceeding
  <2>8. CASE l = "none"
    <3>1. Idle'
      BY <1>3, <2>1, <2>8, AllDone
    <3>2. QED
      BY <2>4, <2>5, <2>6, <3>1 DEF Quiet
  <2>9. QED
    BY <2>7, <2>8
<1>8. QED
  BY <1>5, <1>6, <1>7 DEF IInv

\* The page of what was deleted goes.
LEMMA PopPageStep == ASSUME IInv, NEW t \in Taps, PopPage(t) PROVE IInv'
<1>1. /\ tap[t].call = "leaving" /\ PagePops("page") /\ Call(t, "none") /\ hasty' = hasty
      /\ TInv /\ RoutesInv
      /\ tap[t] # NoTap /\ t \notin Waiting
  BY DEF PopPage, IInv, TInv, NoTap, Waiting
<1>2. /\ tap' \in [Taps -> TapStates]
      /\ \A u \in Taps \ {t} : tap'[u] = tap[u]
      /\ tap'[t].call = "none" /\ tap'[t].timer = tap[t].timer
      /\ tap[t].timer = "none" => tap'[t] = NoTap
  BY <1>1, CallEffect DEF Calls
<1>3. /\ RoutesInv'
      /\ pageSt' = "open" => pageSt = "open" /\ PopFor("page")
      /\ pageSt = "closed" => pageSt' = "closed"
      /\ pageSt = "open" => PopFor("page")
  BY <1>1, PagePopsEffect
<1>4. TInv' /\ CallWithTimer'
  BY <1>1, <1>2, <1>3 DEF IInv, TInv, CallWithTimer, Mounted, Asked
<1>5. LoadingsCount'
  <2>1. Waiting' = Waiting
    BY <1>1, <1>2 DEF Waiting
  <2>2. ASSUME ~astray', pageSt' = "open" PROVE FALSE
    BY <1>3, <2>2 DEF PopFor, Pop
  <2>3. QED
    BY <2>1, <2>2, SameCount
<1>6. Calm'
  <2> SUFFICES ASSUME ~hasty' PROVE ~astray' /\ Quiet'
    BY DEF Calm
  <2>1. ~astray /\ OnlyTap(t) /\ (Questioned(t) \/ Proceeding(t)) /\ pageSt = "open"
    BY <1>1, CalmTap
  <2>2. ~Questioned(t)
    BY <1>1 DEF IInv, CallWithTimer, Questioned, OnPage, Mounted, Asked
  <2>3. PageOnTop /\ NobodyDue /\ tap[t].timer = "none"
    BY <1>1, <2>1, <2>2 DEF IInv, CallWithTimer, Proceeding, PageOnTop, Mounted, Asked
  <2>4. Top = "page"
    BY <2>3, TopOfShort DEF PageOnTop
  <2>5. Pop /\ ~astray'
    BY <1>3, <2>1, <2>4 DEF PopFor
  <2>6. stack' = <<"under">> /\ dialog' = dialog /\ pageSt' = "closing"
    <3>1. stack' = <<"under">> /\ dialog' = dialog
      BY <1>1, <2>3, <2>4, <2>5, PopOfShort, DialogsAssumption DEF PageOnTop
    <3>2. pageSt' = "closing"
      BY <2>4, <2>5 DEF Pop
    <3>3. QED
      BY <3>1, <3>2
  <2>7. Idle'
    BY <1>2, <2>1, <2>3, AllDone
  <2>8. QED
    BY <2>3, <2>5, <2>6, <2>7 DEF Quiet, NobodyDue
<1>7. QED
  BY <1>4, <1>5, <1>6 DEF IInv

\* Nothing happens.
LEMMA StutterStep == ASSUME IInv, UNCHANGED vars PROVE IInv'
<1>1. UNCHANGED <<pageSt, stack, dialog, astray, tap, hasty>>
  BY DEF vars, routes
<1>2. TInv' /\ CallWithTimer' /\ Waiting' = Waiting /\ (Idle <=> Idle')
  BY <1>1, SameTaps DEF IInv, TInv, RoutesInv
<1>3. LoadingsCount'
  BY <1>1, <1>2, SameCount DEF Loadings
<1>4. /\ Quiet => Quiet'
      /\ \A t \in Taps : OnlyTap(t) /\ (Questioned(t) \/ Proceeding(t))
                         => OnlyTap(t)' /\ (Questioned(t)' \/ Proceeding(t)')
  <2>1. /\ NobodyDue <=> NobodyDue'
        /\ \A d : NobodyBut(d) <=> NobodyBut(d)'
        /\ \A r : OnPage(r) <=> OnPage(r)'
        /\ PageOnTop <=> PageOnTop'
    BY <1>1 DEF NobodyDue, NobodyBut, OnPage, PageOnTop
  <2>2. QED
    BY <1>1, <1>2, <2>1 DEF Quiet, OnlyTap, Questioned, Proceeding
<1>5. Calm'
  BY <1>1, <1>4 DEF IInv, Calm
<1>6. QED
  BY <1>2, <1>3, <1>5 DEF IInv
-----------------------------------------------------------------------------
\* IInv holds in every behaviour: of any number of questions and taps.
THEOREM Inductive == Spec => []IInv
<1>1. Init => IInv
  BY Initially
<1>2. IInv /\ [Next]_vars => IInv'
  <2> SUFFICES ASSUME IInv, [Next]_vars PROVE IInv'
    OBVIOUS
  <2>1. CASE Back BY <2>1, BackStep
  <2>2. CASE OpenChild BY <2>2, OpenChildStep
  <2>3. CASE Reopen BY <2>3, ReopenStep
  <2>4. CASE PageGone BY <2>4, PageGoneStep
  <2>5. ASSUME NEW d \in Dialogs, TapDelete(d) PROVE IInv'
    BY <2>5, TapDeleteStep
  <2>6. ASSUME NEW d \in Dialogs, ShowQuestion(d) PROVE IInv'
    BY <2>6, ShowQuestionStep
  <2>7. ASSUME NEW d \in Dialogs, QuestionLeaves(d) PROVE IInv'
    BY <2>7, QuestionLeavesStep
  <2>8. ASSUME NEW t \in Taps, NEW d \in Dialogs, Yes(t, d) \/ No(t, d) PROVE IInv'
    BY <2>8, AnsweredStep
  <2>9. ASSUME NEW t \in Taps, PopQuestion(t) PROVE IInv'
    BY <2>9, PopQuestionStep
  <2>10. ASSUME NEW t \in Taps, ShowLoading(t) PROVE IInv'
    BY <2>10, ShowLoadingStep
  <2>11. ASSUME NEW t \in Taps, Answer(t) PROVE IInv'
    BY <2>11, AnswerStep
  <2>12. ASSUME NEW t \in Taps, PopLoading(t) PROVE IInv'
    BY <2>12, PopLoadingStep
  <2>13. ASSUME NEW t \in Taps, PopPage(t) PROVE IInv'
    BY <2>13, PopPageStep
  <2>14. CASE UNCHANGED vars BY <2>14, StutterStep
  <2>15. QED
    BY <2>1, <2>2, <2>3, <2>4, <2>5, <2>6, <2>7, <2>8, <2>9, <2>10, <2>11, <2>12,
       <2>13, <2>14 DEF Next
<1>3. QED
  BY <1>1, <1>2, PTL DEF Spec

\* The routes, the taps and the page have the shapes of TypeOK.
THEOREM TypeCorrect == Spec => []TypeOK
<1>1. IInv => TypeOK
  <2> SUFFICES ASSUME IInv PROVE TypeOK
    OBVIOUS
  <2>1. NavigatorTypeOK
    BY RoutesTyped DEF IInv, TInv
  <2>2. QED
    BY <2>1 DEF IInv, TInv, TypeOK, TapStates, Timers, Calls
<1>2. QED
  BY <1>1, Inductive, PTL

\* Until a pop goes astray there is a LoadingDialog for each deletion that
\* waits, and for no other.
THEOREM LoadingsMatch == Spec => []LoadingPerDeletion
<1>1. IInv => LoadingPerDeletion
  BY DEF IInv, LoadingsCount
<1>2. QED
  BY <1>1, Inductive, PTL

\* Who waits for every timer and answer never loses a route.
THEOREM PatienceIsSafe == Spec => []OnlyHasteStrays
<1>1. IInv => OnlyHasteStrays
  BY DEF IInv, Calm, OnlyHasteStrays
<1>2. QED
  BY <1>1, Inductive, PTL
=============================================================================
