-------------------------- MODULE ClocksDetailProofs --------------------------
(***************************************************************************)
(* Theorems about ClocksDetail, for every set of dates, queries, menus and *)
(* taps.                                                                   *)
(***************************************************************************)
EXTENDS ClocksDetail, NavigatorProofs

TapStates ==
  [at : {"idle", "popping", "cancelling", "waiting", "report"},
   in : Dialogs \cup {None}]

\* The types, with the routes in the form their steps need.
TInv ==
  /\ history \in [Dates -> Documents]
  /\ date \in Dates
  /\ shown \in Seq(Dates)
  /\ fetch \in [Fetches -> Dates \cup {None}]
  /\ RoutesInv
  /\ tap \in [Taps -> TapStates]

\* While the page is there the date in its title is shown, has nothing to show
\* or is still asked for.
DateServed ==
  pageSt = "open" => \/ history[date] = "empty"
                     \/ date \in Range(shown)
                     \/ \E f \in Fetches : fetch[f] = date

\* Reports counts taps, which need not be finitely many.
LoadingsCount ==
  /\ IsFiniteSet(Reports)
  /\ LoadingPerReport

IInv == TInv /\ DateServed /\ LoadingsCount

\* The first query of the page serves the date it was opened with.
LEMMA Initially == Init => IInv
<1> SUFFICES ASSUME Init PROVE IInv
  OBVIOUS
<1>1. RoutesInv /\ Loadings = {}
  BY OpenedRoutes DEF Init
<1>2. tap \in [Taps -> TapStates] /\ Reports = {}
  BY DEF Init, TapStates, NoTap, Reports
<1>3. fetch \in [Fetches -> Dates \cup {None}] /\ \E f \in Fetches : fetch[f] = date
  BY DEF Init, FirstFetch
<1>4. TInv /\ DateServed
  BY <1>1, <1>2, <1>3 DEF Init, TInv, DateServed
<1>5. LoadingsCount
  BY <1>1, <1>2, FS_EmptySet DEF LoadingsCount, LoadingPerReport
<1>6. QED
  BY <1>4, <1>5 DEF IInv
-----------------------------------------------------------------------------
\* Steps of the taps change Reports by one element at most.
LEMMA TapChanges ==
  ASSUME TInv, NEW t \in Taps, NEW s \in TapStates, tap' = [tap EXCEPT ![t] = s]
  PROVE  /\ tap' \in [Taps -> TapStates]
         /\ Reports' = IF s.at = "report" THEN Reports \cup {t} ELSE Reports \ {t}
BY DEF TInv, Reports

\* Queries leave the navigator and the taps alone.
LEMMA QuerySteps ==
  ASSUME IInv, NEW f \in Fetches, Returns(f) \/ \E d \in Dates : Pick(f, d)
  PROVE  IInv'
<1>1. /\ UNCHANGED routes /\ UNCHANGED tap /\ UNCHANGED history
  BY DEF Returns, Pick
<1>2. RoutesInv'
  BY <1>1 DEF IInv, TInv, RoutesInv, routes
<1>3. LoadingsCount'
  BY <1>1 DEF IInv, LoadingsCount, LoadingPerReport, Loadings, Reports, routes
<1>4. CASE Returns(f)
  <2>1. PICK got \in {history[fetch[f]], "absent"} :
          shown' = IF Mounted /\ got # "empty" THEN Append(shown, fetch[f]) ELSE shown
    BY <1>4 DEF Returns
  <2>2. fetch[f] \in Dates /\ shown \in Seq(Dates)
    BY <1>4 DEF Returns, IInv, TInv
  <2>3. /\ shown' \in Seq(Dates)
        /\ Range(shown) \subseteq Range(shown')
        /\ Mounted /\ got # "empty" => fetch[f] \in Range(shown')
    <3>1. CASE Mounted /\ got # "empty"
      <4>1. /\ shown' \in Seq(Dates) /\ Len(shown') = Len(shown) + 1
            /\ \A i \in 1 .. Len(shown) : shown'[i] = shown[i]
            /\ shown'[Len(shown) + 1] = fetch[f]
            /\ Len(shown) \in Nat
        BY <2>1, <2>2, <3>1, AppendProperties, LenProperties
      <4>2. DOMAIN shown = 1 .. Len(shown) /\ DOMAIN shown' = 1 .. Len(shown) + 1
        BY <2>2, <4>1, LenProperties
      <4>3. QED
        BY <4>1, <4>2 DEF Range
    <3>2. CASE ~(Mounted /\ got # "empty")
      BY <2>1, <2>2, <3>2
    <3>3. QED
      BY <3>1, <3>2
  <2>4. /\ fetch' \in [Fetches -> Dates \cup {None}] /\ UNCHANGED date
        /\ \A g \in Fetches \ {f} : fetch'[g] = fetch[g]
    BY <1>4 DEF Returns, IInv, TInv
  <2>5. DateServed'
    <3> SUFFICES ASSUME pageSt' = "open" PROVE (\/ history[date] = "empty"
                                                \/ date \in Range(shown)
                                                \/ \E g \in Fetches : fetch[g] = date)'
      BY DEF DateServed
    <3>1. pageSt = "open" /\ Mounted
      BY <1>1 DEF routes, Mounted
    <3>2. CASE history[date] = "empty" \/ date \in Range(shown)
      BY <1>1, <2>3, <2>4, <3>2
    <3>3. CASE \E g \in Fetches \ {f} : fetch[g] = date
      BY <2>4, <3>3
    <3>4. CASE fetch[f] = date
      BY <1>1, <2>1, <2>3, <2>4, <3>1, <3>4 DEF IInv, TInv, Documents
    <3>5. QED
      BY <3>1, <3>2, <3>3, <3>4 DEF IInv, DateServed
  <2>6. QED
    BY <1>1, <1>2, <1>3, <2>3, <2>4, <2>5 DEF IInv, TInv
<1>5. ASSUME NEW d \in Dates, Pick(f, d) PROVE IInv'
  <2>1. TInv'
    BY <1>1, <1>2, <1>5 DEF IInv, TInv, Pick
  <2>2. fetch'[f] = date'
    BY <1>5 DEF IInv, TInv, Pick
  <2>3. QED
    BY <1>3, <2>1, <2>2 DEF IInv, DateServed
<1>6. QED
  BY <1>4, <1>5

\* What the navigator does alone.
LEMMA RouteSteps ==
  ASSUME IInv,
         \/ Back \/ PageGone
         \/ \E m \in Dialogs : MenuGone(m) \/ TapExport(m) \/ ShowMenu(m)
  PROVE  IInv'
<1>1. UNCHANGED <<clocks, tap>>
  BY DEF Back, PageGone, MenuGone, TapExport, ShowMenu
<1>2. RoutesInv' /\ (pageSt' = "open" => pageSt = "open") /\ Loadings' = Loadings
      /\ (astray => astray')
  <2>1. CASE Back
    BY <2>1, GoBackKeeps DEF Back, GoBack, IInv, TInv
  <2>2. CASE PageGone
    BY <2>2, PageLeavesKeeps DEF PageGone, PageLeaves, IInv, TInv, Loadings
  <2>3. ASSUME NEW m \in Dialogs, MenuGone(m) \/ TapExport(m)
        PROVE  RoutesInv' /\ UNCHANGED <<pageSt, stack, astray>>
    BY <2>3, DialogLeavesKeeps, AskForKeeps
       DEF MenuGone, TapExport, DialogLeaves, AskFor, IInv, TInv
  <2>4. ASSUME NEW m \in Dialogs, ShowMenu(m)
        PROVE  RoutesInv' /\ UNCHANGED <<pageSt, astray>> /\ Loadings' = Loadings
    <3>1. RoutesInv /\ Show(m) /\ m \in Routes /\ m # "loading"
      BY <2>4, DialogsAssumption DEF ShowMenu, IInv, TInv, Routes
    <3>2. stack' = Append(stack, m) \/ stack' = stack
      BY <3>1 DEF Show
    <3>3. Loadings' = Loadings
      BY <3>1, <3>2, Push DEF Loadings
    <3>4. QED
      BY <3>1, <3>3, ShowKeeps DEF Show
  <2>5. QED
    BY <2>1, <2>2, <2>3, <2>4 DEF Loadings
<1>3. Reports' = Reports
  BY <1>1 DEF Reports
<1>4. TInv'
  BY <1>1, <1>2 DEF IInv, TInv, clocks
<1>5. DateServed'
  BY <1>1, <1>2 DEF IInv, DateServed, clocks
<1>6. LoadingsCount'
  BY <1>2, <1>3 DEF IInv, TInv, LoadingsCount, LoadingPerReport, RoutesInv
<1>7. QED
  BY <1>4, <1>5, <1>6 DEF IInv

\* A page that is opened again starts with no report and a query of its own.
LEMMA Reopens == ASSUME IInv, NEW d \in Dates, Reopen(d) PROVE IInv'
<1>1. RoutesInv' /\ Loadings' = {}
  BY ReopenKeeps DEF Reopen, IInv, TInv, RoutesInv
<1>2. tap' = tap /\ Reports' = {}
  BY DEF Reopen, Reports, NoTap
<1>3. fetch' \in [Fetches -> Dates \cup {None}] /\ \E f \in Fetches : fetch'[f] = date'
  BY DEF Reopen, FirstFetch
<1>4. TInv' /\ DateServed'
  BY <1>1, <1>2, <1>3 DEF Reopen, IInv, TInv, DateServed
<1>5. LoadingsCount'
  BY <1>1, <1>2, FS_EmptySet DEF LoadingsCount, LoadingPerReport
<1>6. QED
  BY <1>4, <1>5 DEF IInv

\* A step of a tap keeps what is about the dates.
LEMMA TapDates ==
  ASSUME IInv, UNCHANGED clocks, RoutesInv', tap' \in [Taps -> TapStates],
         pageSt' = "open" => pageSt = "open", LoadingsCount'
  PROVE  IInv'
BY DEF IInv, TInv, DateServed, clocks

\* What a tap in the menu starts keeps a loading dialog for each report.
LEMMA TapSteps ==
  ASSUME IInv, NEW t \in Taps,
         \/ \E m \in Dialogs : Tap(t, m)
         \/ PopMenu(t) \/ ShowLoading(t) \/ ReportReturns(t)
  PROVE  IInv'
<1> USE DEF TapStates
<1>1. UNCHANGED clocks /\ RoutesInv /\ TInv /\ tap[t] \in TapStates
  BY DEF IInv, TInv, Tap, PopMenu, ShowLoading, ReportReturns
<1>2. IsFiniteSet(Reports) /\ IsFiniteSet(Reports \ {t}) /\ IsFiniteSet(Reports \cup {t})
  BY FS_AddElement, FS_RemoveElement DEF IInv, LoadingsCount
<1>3. ASSUME NEW m \in Dialogs, Tap(t, m) PROVE IInv'
  <2>1. PICK l \in {"popping", "cancelling"} : tap' = [tap EXCEPT ![t] = [at |-> l, in |-> m]]
    BY <1>3 DEF Tap
  <2>2. tap' \in [Taps -> TapStates] /\ Reports' = Reports \ {t}
    BY <1>1, <2>1, TapChanges
  <2>3. t \notin Reports
    BY <1>3 DEF Tap, NoTap, Reports
  <2>4. Reports' = Reports /\ Loadings' = Loadings /\ UNCHANGED routes
    BY <1>3, <2>2, <2>3 DEF Tap, Loadings, routes
  <2>5. LoadingsCount'
    BY <2>4 DEF IInv, LoadingsCount, LoadingPerReport, routes
  <2>6. RoutesInv'
    BY <1>1, <2>4 DEF RoutesInv, routes
  <2>7. QED
    BY <1>1, <2>2, <2>4, <2>5, <2>6, TapDates DEF routes
<1>4. CASE PopMenu(t)
  <2>1. tap[t].in \in Dialogs \cup {None} /\ tap[t].in # "loading" /\ t \notin Reports
    BY <1>1, <1>4, DialogsAssumption DEF PopMenu, Reports
  <2>2. PICK s \in TapStates : tap' = [tap EXCEPT ![t] = s] /\ s.at # "report"
    <3>1. CASE tap[t].at = "popping"
      <4>1. tap' = [tap EXCEPT ![t] = [tap[t] EXCEPT !.at = "waiting"]]
        BY <1>4, <3>1 DEF PopMenu, Goes
      <4>2. [tap[t] EXCEPT !.at = "waiting"] \in TapStates
            /\ [tap[t] EXCEPT !.at = "waiting"].at = "waiting"
        BY <1>1
      <4>3. QED
        BY <4>1, <4>2
    <3>2. CASE tap[t].at # "popping"
      BY <1>4, <3>2 DEF PopMenu, Ends, NoTap
    <3>3. QED
      BY <3>1, <3>2
  <2>3. tap' \in [Taps -> TapStates] /\ Reports' = Reports
    <3>1. tap' \in [Taps -> TapStates] /\ Reports' = Reports \ {t}
      BY <1>1, <2>2, TapChanges
    <3>2. QED
      BY <2>1, <3>1
  <2>4. PopFor(tap[t].in) \/ NoPop
    BY <1>4 DEF PopMenu, DialogPops
  <2>5. RoutesInv' /\ (pageSt' = "open" => pageSt = "open")
    BY <1>1, <2>4, PopForKeeps, NoPopKeeps DEF NoPop, routes
  <2>6. ~astray' => ~astray /\ Loadings' = Loadings
    BY <1>1, <2>1, <2>4, PopLoadings DEF PopFor, NoPop, routes, Loadings
  <2>7. LoadingsCount'
    BY <1>2, <2>3, <2>5, <2>6 DEF IInv, LoadingsCount, LoadingPerReport
  <2>8. QED
    BY <1>1, <2>3, <2>5, <2>7, TapDates
<1>5. CASE ShowLoading(t)
  <2>1. RoutesInv' /\ UNCHANGED <<pageSt, astray>> /\ t \notin Reports
    BY <1>1, <1>5, PageShowsLoadingKeeps DEF ShowLoading, PageShowsLoading, Reports
  <2>2. CASE Mounted
    <3>1. tap' = [tap EXCEPT ![t] = [tap[t] EXCEPT !.at = "report"]]
      BY <1>5, <2>2 DEF ShowLoading, Goes
    <3>2. [tap[t] EXCEPT !.at = "report"] \in TapStates
          /\ [tap[t] EXCEPT !.at = "report"].at = "report"
      BY <1>1
    <3>3. tap' \in [Taps -> TapStates] /\ Reports' = Reports \cup {t}
      BY <1>1, <3>1, <3>2, TapChanges
    <3>4. stack' = Append(stack, "loading") /\ "loading" \in Routes
      BY <1>5, <2>2 DEF ShowLoading, PageShowsLoading, Routes
    <3>5. Cardinality(Loadings') = Cardinality(Loadings) + 1
      BY <1>1, <3>4, Push
    <3>6. Cardinality(Reports') = Cardinality(Reports) + 1
      BY <1>2, <2>1, <3>3, FS_AddElement
    <3>7. LoadingsCount'
      BY <1>2, <2>1, <3>3, <3>5, <3>6 DEF IInv, LoadingsCount, LoadingPerReport
    <3>8. QED
      BY <1>1, <2>1, <3>3, <3>7, TapDates
  <2>3. CASE ~Mounted
    <3>1. tap' = [tap EXCEPT ![t] = NoTap] /\ NoTap \in TapStates /\ NoTap.at = "idle"
      BY <1>5, <2>3 DEF ShowLoading, Ends, NoTap
    <3>2. tap' \in [Taps -> TapStates] /\ Reports' = Reports \ {t}
      BY <1>1, <3>1, TapChanges
    <3>3. LoadingsCount'
      BY <1>2, <2>1, <2>3, <3>2 DEF LoadingsCount, LoadingPerReport, Mounted
    <3>4. QED
      BY <1>1, <2>1, <3>2, <3>3, TapDates
  <2>4. QED
    BY <2>2, <2>3
<1>6. CASE ReportReturns(t)
  <2>1. tap' = [tap EXCEPT ![t] = NoTap] /\ NoTap \in TapStates /\ NoTap.at = "idle"
        /\ t \in Reports
    BY <1>6 DEF ReportReturns, Ends, NoTap, Reports
  <2>2. tap' \in [Taps -> TapStates] /\ Reports' = Reports \ {t}
    BY <1>1, <2>1, TapChanges
  <2>3. PopFor("loading") \/ (NoPop /\ ~Mounted)
    BY <1>6 DEF ReportReturns, PagePops
  <2>4. RoutesInv' /\ (pageSt' = "open" => pageSt = "open")
    BY <1>1, <2>3, PopForKeeps, NoPopKeeps DEF NoPop, routes
  <2>5. ~astray' /\ pageSt' = "open"
          => ~astray /\ Cardinality(Loadings') = Cardinality(Loadings) - 1
    BY <1>1, <2>3, PopLoadings DEF PopFor, NoPop, routes, Mounted
  <2>6. Cardinality(Reports') = Cardinality(Reports) - 1
    BY <1>2, <2>1, <2>2, FS_RemoveElement
  <2>7. LoadingsCount'
    BY <1>2, <2>2, <2>4, <2>5, <2>6 DEF IInv, LoadingsCount, LoadingPerReport
  <2>8. QED
    BY <1>1, <2>2, <2>4, <2>7, TapDates
<1>7. QED
  BY <1>3, <1>4, <1>5, <1>6

\* A step of something else changes nothing here.
LEMMA Stutters == IInv /\ UNCHANGED vars => IInv'
BY DEF IInv, TInv, DateServed, LoadingsCount, LoadingPerReport, RoutesInv,
       Loadings, Reports, vars, clocks, routes

\* The invariant that the theorems follow from.
THEOREM Inductive == Spec => []IInv
<1>1. IInv /\ [Next]_vars => IInv'
  <2> SUFFICES ASSUME IInv, [Next]_vars PROVE IInv'
    OBVIOUS
  <2>1. CASE UNCHANGED vars
    BY <2>1, Stutters
  <2>2. CASE Next
    BY <2>2, QuerySteps, RouteSteps, Reopens, TapSteps DEF Next
  <2>3. QED
    BY <2>1, <2>2
<1>2. QED
  BY <1>1, Initially, PTL DEF Spec

\* The variables keep their types (getData, ExportDialog and the reports of
\* views/clocks_detail).
THEOREM TypeCorrect == Spec => []TypeOK
<1>1. IInv => TypeOK
  BY RoutesTyped DEF IInv, TInv, TypeOK, TapStates
<1>2. QED
  BY <1>1, Inductive, PTL

\* When no query is under way the entries of the date in the title are there,
\* in whatever order the answers came (getData).
THEOREM TitleServed == Spec => []AnswerNotLost
<1>1. IInv => AnswerNotLost
  <2> SUFFICES ASSUME IInv, \A f \in Fetches : fetch[f] = None, pageSt = "open"
               PROVE  history[date] = "empty" \/ date \in Range(shown)
    BY DEF AnswerNotLost
  <2>1. date # None
    BY DatesAssumption DEF IInv, TInv
  <2>2. QED
    BY <2>1 DEF IInv, DateServed
<1>2. QED
  BY <1>1, Inductive, PTL

\* Until a pop goes astray there are as many loading dialogs as reports under
\* way (weeklyReport, monthlyReport, yearlyReport), for any number of taps.
THEOREM LoadingsMatch == Spec => []LoadingPerReport
<1>1. IInv => LoadingPerReport
  BY DEF IInv, LoadingsCount
<1>2. QED
  BY <1>1, Inductive, PTL
=============================================================================
