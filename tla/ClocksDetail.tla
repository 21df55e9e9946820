----------------------------- MODULE ClocksDetail -----------------------------
(***************************************************************************)
(* The clock history of one intern (views/clocks_detail): the entries of   *)
(* the date that was picked, and the export of reports, which Home and     *)
(* company_detail have in the same words.  Picking a date clears the       *)
(* entries and asks for the new ones, without a thought for the questions  *)
(* under way.  A report is chosen in ExportDialog, which pops itself 300   *)
(* ms after every tap; the report puts a LoadingDialog on the navigator    *)
(* 500 ms after the tap and pops again when it is done.  A pop takes       *)
(* whatever is on top (Navigator).                                         *)
(***************************************************************************)
EXTENDS Navigator

CONSTANTS
  Dates,      \* dates the administrator may pick
  Fetches,    \* calls of getClockHistory that may overlap
  Taps        \* taps in ExportDialog whose timers or reports may overlap

ASSUME DatesAssumption == None \notin Dates

VARIABLES
  history,    \* history[d]: the document of the date
  date,       \* selectedDate
  shown,      \* clockModelList: the dates its entries are of
  fetch,      \* fetch[f]: the date a query under way was asked for
  tap         \* tap[t]: what followed a tap in a menu, one of Dialogs

clocks == <<history, date, shown, fetch>>
vars == <<clocks, routes, tap>>

Documents == {"absent", "empty", "clocks"}
NoTap == [at |-> "idle", in |-> None]

TypeOK ==
  /\ history \in [Dates -> Documents]
  /\ date \in Dates
  /\ shown \in Seq(Dates)
  /\ fetch \in [Fetches -> Dates \cup {None}]
  /\ NavigatorTypeOK
  /\ tap \in [Taps -> [at : {"idle", "popping", "cancelling", "waiting",
                             "report"}, in : Dialogs \cup {None}]]

\* initState runs getData for today.
FirstFetch(d) == {[g \in Fetches |-> IF g = f THEN d ELSE None] : f \in Fetches}

Init ==
  /\ history \in [Dates -> Documents]
  /\ date \in Dates
  /\ fetch \in FirstFetch(date)
  /\ shown = <<>>
  /\ Opened
  /\ tap = [t \in Taps |-> NoTap]
-----------------------------------------------------------------------------
\* getData.

\* It clears the list and sets the date before it asks.
Pick(f, d) ==
  /\ Top = "page"
  /\ fetch[f] = None
  /\ fetch' = [fetch EXCEPT ![f] = d]
  /\ date' = d
  /\ shown' = <<>>
  /\ UNCHANGED <<history, routes, tap>>

\* Mutant: the list is cleared when the answer is there.
ReturnsReplace(f) ==
  /\ fetch[f] # None
  /\ shown' = <<fetch[f]>>
  /\ fetch' = [fetch EXCEPT ![f] = None]
  /\ UNCHANGED <<history, date, routes, tap>>

\* The entries of the document are added, or a blank one when there is none or
\* the read failed.  A document without clocks adds nothing: the list is then
\* indexed out of its range, and again in the catch clause.
Returns(f) ==
  /\ fetch[f] # None
  /\ \E got \in {history[fetch[f]], "absent"} :
       shown' = IF Mounted /\ got # "empty" THEN Append(shown, fetch[f])
                                            ELSE shown
  /\ fetch' = [fetch EXCEPT ![f] = None]
  /\ UNCHANGED <<history, date, routes, tap>>
-----------------------------------------------------------------------------
\* The navigator.

Back == GoBack /\ UNCHANGED <<clocks, tap>>
PageGone == PageLeaves /\ UNCHANGED <<clocks, tap>>
MenuGone(m) == DialogLeaves(m) /\ UNCHANGED <<clocks, tap>>

\* The page is opened again, as another instance.
Reopen(d) ==
  /\ pageSt = "closed" /\ Top = "under"
  /\ \A f \in Fetches : fetch[f] = None
  /\ tap = [t \in Taps |-> NoTap] /\ dialog = [m \in Dialogs |-> "none"]
  /\ date' = d
  /\ fetch' \in FirstFetch(d)
  /\ shown' = <<>>
  /\ pageSt' = "open"
  /\ stack' = Append(stack, "page")
  /\ UNCHANGED <<history, dialog, tap, astray>>
-----------------------------------------------------------------------------
\* Reports.

\* export() waits for 250 ms, longer than a report that is about to show its
\* LoadingDialog still has to wait.  A menu is a new one: no timer knows it.
TapExport(m) ==
  /\ \A t \in Taps : tap[t].at \in {"popping", "cancelling"} => tap[t].in # m
  /\ AskFor(m)
  /\ UNCHANGED <<clocks, tap>>

ShowMenu(m) ==
  /\ \A t \in Taps : tap[t].at # "waiting"
  /\ Show(m)
  /\ UNCHANGED <<clocks, tap>>

\* Weekly, Monthly or All time; Cancel only pops.
Tap(t, m) ==
  /\ Top = m
  /\ tap[t] = NoTap
  /\ \E l \in {"popping", "cancelling"} : tap' = [tap EXCEPT ![t] = [at |-> l, in |-> m]]
  /\ UNCHANGED <<clocks, routes>>

Goes(t, l) == tap' = [tap EXCEPT ![t].at = l]
Ends(t) == tap' = [tap EXCEPT ![t] = NoTap]

\* 300 ms after the tap, with the context of the menu; a menu that is gone
\* throws, which disturbs nobody.
PopMenu(t) ==
  /\ tap[t].at \in {"popping", "cancelling"}
  /\ IF tap[t].at = "popping" THEN Goes(t, "waiting") ELSE Ends(t)
  /\ DialogPops(tap[t].in)
  /\ UNCHANGED clocks

\* 500 ms after the tap, when the menu has gone if the pop closed it.
ShowLoading(t) ==
  /\ tap[t].at = "waiting"
  /\ dialog[tap[t].in] # "leaving"
  /\ PageShowsLoading
  /\ IF Mounted THEN Goes(t, "report") ELSE Ends(t)
  /\ UNCHANGED clocks

\* Mutant: a report that fails is told without the pop.
ReportReturnsNoPop(t) ==
  /\ tap[t].at = "report"
  /\ Ends(t)
  /\ IF Mounted /\ shown # <<>> THEN PopFor("loading") ELSE NoPop
  /\ UNCHANGED clocks

\* Mutant: only a report that was made is waited for.
ReportReturnsMade(t) ==
  /\ tap[t].at = "report" /\ shown # <<>>
  /\ Ends(t)
  /\ PagePops("loading")
  /\ UNCHANGED clocks

\* Made or not, it pops with the context of the page, which may be gone; then
\* the file is shared or the failure is told.
ReportReturns(t) ==
  /\ tap[t].at = "report"
  /\ Ends(t)
  /\ PagePops("loading")
  /\ UNCHANGED clocks
-----------------------------------------------------------------------------
Next ==
  \/ \E f \in Fetches : Returns(f) \/ \E d \in Dates : Pick(f, d)
  \/ Back \/ PageGone
  \/ \E d \in Dates : Reopen(d)
  \/ \E m \in Dialogs : MenuGone(m) \/ TapExport(m) \/ ShowMenu(m)
  \/ \E t \in Taps, m \in Dialogs : Tap(t, m)
  \/ \E t \in Taps : PopMenu(t) \/ ShowLoading(t) \/ ReportReturns(t)

Spec == Init /\ [][Next]_vars

\* Timers fire, calls return; the administrator owes nothing.
Fairness ==
  /\ \A f \in Fetches : WF_vars(Returns(f))
  /\ WF_vars(PageGone)
  /\ \A m \in Dialogs : WF_vars(MenuGone(m)) /\ WF_vars(ShowMenu(m))
  /\ \A t \in Taps : /\ WF_vars(PopMenu(t)) /\ WF_vars(ShowLoading(t))
                     /\ WF_vars(ReportReturns(t))

FairSpec == Spec /\ Fairness
-----------------------------------------------------------------------------
\* Properties.

\* However the dates are picked and the answers overtake each other, in the
\* end the entries of the date in the title are there.
AnswerNotLost ==
  (\A f \in Fetches : fetch[f] = None) /\ pageSt = "open"
    => history[date] = "empty" \/ date \in Range(shown)

Reports == {t \in Taps : tap[t].at = "report"}

\* Until some pop goes astray, as it does after a second tap, or with a menu
\* that was opened while a report was about to begin, a LoadingDialog is up for
\* each report under way and for nothing else, whatever menus and taps overlap.
LoadingPerReport ==
  ~astray /\ pageSt = "open" => Cardinality(Loadings) = Cardinality(Reports)

\* A tap in the menu is done with some day: no report waits for another.
TapsEnd == \A t \in Taps : tap[t].at # "idle" ~> tap[t].at = "idle"

\* "$today's work schedule" heads the page: every entry is of that date.
EntriesOfDate == \A i \in DOMAIN shown : shown[i] = date

\* "Unable to create the CSV file, please try again later": a LoadingDialog
\* goes away when the report it stands for is over.
LoadingTaken == Loadings # {} ~> Loadings = {}
=============================================================================
