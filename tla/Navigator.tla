------------------------------- MODULE Navigator -------------------------------
(***************************************************************************)
(* The routes above a list: a page, a page it opened (child), dialogs and  *)
(* LoadingDialogs.  Timers and calls push with the context of the page and *)
(* pop whatever route is on top.  A page or dialog that is popped is still *)
(* mounted until its transition has ended.  The modules that extend this   *)
(* one say what the pages do with it.                                      *)
(***************************************************************************)
EXTENDS Naturals, SequencesExt

CONSTANTS
  Dialogs,    \* instances of the dialogs the administrator may answer
  None        \* no route, no dialog

ASSUME DialogsAssumption ==
  LET Pages == {"under", "page", "child", "loading"}
  IN  None \notin Dialogs \cup Pages /\ Dialogs \cap Pages = {}

VARIABLES
  pageSt,     \* the page is open, in its closing transition, or disposed
  stack,      \* the routes of the navigator
  dialog,     \* dialog[d]: a dialog, due 250 ms after the tap that asked for it
  astray      \* some timer or call has popped a route that was not its own

routes == <<pageSt, stack, dialog, astray>>

NavigatorTypeOK ==
  /\ pageSt \in {"open", "closing", "closed"}
  /\ stack \in Seq({"under", "page", "child", "loading"} \cup Dialogs)
  /\ dialog \in [Dialogs -> {"none", "due", "up", "leaving"}]
  /\ astray \in BOOLEAN
  /\ (pageSt = "open") = ("page" \in Range(stack))

Top == IF stack = <<>> THEN None ELSE Last(stack)
Mounted == pageSt # "closed"
Loadings == {i \in DOMAIN stack : stack[i] = "loading"}

\* The page has been opened from a list.
Opened ==
  /\ pageSt = "open"
  /\ stack = <<"under", "page">>
  /\ dialog = [d \in Dialogs |-> "none"]
  /\ astray = FALSE

\* Navigator.pop takes the route on top; on no route it throws.
Pop ==
  /\ stack' = IF stack = <<>> THEN <<>> ELSE Front(stack)
  /\ dialog' = [d \in Dialogs |-> IF d = Top THEN "leaving" ELSE dialog[d]]
  /\ pageSt' = IF Top = "page" THEN "closing" ELSE pageSt

\* A pop that is meant for r.
PopFor(r) == Pop /\ astray' = (astray \/ Top # r)
NoPop == UNCHANGED routes

\* A pop by the page, whose context may be gone: then it throws.
PagePops(r) == IF Mounted THEN PopFor(r) ELSE NoPop

\* A pop by a dialog, whose context lives until its transition has ended.
DialogPops(d) == IF dialog[d] \in {"up", "leaving"} THEN PopFor(d) ELSE NoPop

\* showDialog by the page, which throws when the page is gone.
PageShowsLoading ==
  /\ stack' = IF Mounted THEN Append(stack, "loading") ELSE stack
  /\ UNCHANGED <<pageSt, dialog, astray>>

\* The icon in the title bar: the dialog is shown 250 ms later.
AskFor(d) ==
  /\ Top = "page" /\ dialog[d] = "none"
  /\ dialog' = [dialog EXCEPT ![d] = "due"]
  /\ UNCHANGED <<pageSt, stack, astray>>

Show(d) ==
  /\ dialog[d] = "due"
  /\ dialog' = [dialog EXCEPT ![d] = IF Mounted THEN "up" ELSE "none"]
  /\ stack' = IF Mounted THEN Append(stack, d) ELSE stack
  /\ UNCHANGED <<pageSt, astray>>

\* The back button, or a tap beside a dialog.  LoadingDialog swallows it; what
\* is under the page is not ours.
GoBack ==
  /\ Top \in Dialogs \cup {"page", "child"}
  /\ Pop
  /\ UNCHANGED astray

\* The 150 ms of a dialog that closes, the 300 ms of a page.
DialogLeaves(d) ==
  /\ dialog[d] = "leaving"
  /\ dialog' = [dialog EXCEPT ![d] = "none"]
  /\ UNCHANGED <<pageSt, stack, astray>>

PageLeaves ==
  /\ pageSt = "closing"
  /\ pageSt' = "closed"
  /\ UNCHANGED <<stack, dialog, astray>>
=============================================================================
