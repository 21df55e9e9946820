------------------------------- MODULE Deletion -------------------------------
(***************************************************************************)
(* Deleting what a page shows (views/company_detail and                    *)
(* views/intern_view_select, in the same words) and the dialogs about it.  *)
(* QuestionDialog runs onYes at once and pops itself 300 ms after every    *)
(* tap; performDelete puts a LoadingDialog up 800 ms after the tap and,    *)
(* when the server has answered, pops 1.5 s later and, after a success,    *)
(* pops once more for the page.  Between these pops the page can be used.  *)
(***************************************************************************)
EXTENDS Navigator

CONSTANT Taps    \* taps in QuestionDialog whose timers or calls may overlap

VARIABLES
  tap,        \* tap[t]: the timers and the call that a tap has started
  hasty       \* the administrator did something while timers or a call ran

vars == <<routes, tap, hasty>>

\* timer: "yes" and "no" pop the question, "loading" shows the LoadingDialog,
\* "late" is one that will find the page gone.  call: "sent" to Firestore,
\* "removed" and "refused" know the answer, "leaving" has the page to pop.
NoTap == [timer |-> "none", call |-> "none", in |-> None]

TypeOK ==
  /\ NavigatorTypeOK
  /\ tap \in [Taps -> [timer : {"none", "yes", "no", "loading", "late"},
                       call : {"none", "sent", "removed", "refused", "leaving"},
                       in : Dialogs \cup {None}]]
  /\ hasty \in BOOLEAN

Init ==
  /\ Opened
  /\ tap = [t \in Taps |-> NoTap]
  /\ hasty = FALSE

Idle == tap = [t \in Taps |-> NoTap]
Busy == ~Idle \/ \E d \in Dialogs : dialog[d] = "due"
Acts == hasty' = (hasty \/ Busy)
-----------------------------------------------------------------------------
\* The administrator.

\* A question is a new instance: no tap knows it.
TapDelete(d) ==
  /\ \A t \in Taps : tap[t].in # d
  /\ AskFor(d)
  /\ Acts
  /\ UNCHANGED tap

Back == GoBack /\ Acts /\ UNCHANGED tap

\* The form, or another page, opened from this one.
OpenChild ==
  /\ Top = "page"
  /\ stack' = Append(stack, "child")
  /\ Acts
  /\ UNCHANGED <<pageSt, dialog, astray, tap>>

\* The page is opened again from the list.
Reopen ==
  /\ pageSt = "closed" /\ stack = <<"under">>
  /\ Idle /\ dialog = [d \in Dialogs |-> "none"]
  /\ pageSt' = "open"
  /\ stack' = <<"under", "page">>
  /\ astray' = FALSE /\ hasty' = FALSE
  /\ UNCHANGED <<dialog, tap>>

\* onYes asks Firestore before it returns; with the page gone it throws.
Yes(t, d) ==
  /\ Top = d /\ tap[t] = NoTap
  /\ tap' = [tap EXCEPT ![t] = [timer |-> "yes", in |-> d,
                                call |-> IF Mounted THEN "sent" ELSE "none"]]
  /\ Acts
  /\ UNCHANGED routes

No(t, d) ==
  /\ Top = d /\ tap[t] = NoTap
  /\ tap' = [tap EXCEPT ![t] = [timer |-> "no", call |-> "none", in |-> d]]
  /\ Acts
  /\ UNCHANGED routes
-----------------------------------------------------------------------------
\* Timers and transitions.

\* A tap is done with when nothing of it is to come.
Keep(r) == IF r.timer = "none" /\ r.call = "none" THEN NoTap ELSE r
Timer(t, l) == tap' = [tap EXCEPT ![t] = Keep([@ EXCEPT !.timer = l])]
Call(t, l) == tap' = [tap EXCEPT ![t] = Keep([@ EXCEPT !.call = l])]

ShowQuestion(d) == Show(d) /\ UNCHANGED <<tap, hasty>>

\* When it is the page that goes, its 300 ms are over before the loading
\* dialog of any tap in this question is due.
Dropped(t) ==
  \/ Top = "page" /\ dialog[tap[t].in] \in {"up", "leaving"}
  \/ \E u \in Taps : tap[u].in = tap[t].in /\ tap[u].timer = "late"

PopQuestion(t) ==
  /\ tap[t].timer \in {"yes", "no"}
  /\ DialogPops(tap[t].in)
  /\ tap' = [u \in Taps |->
       Keep([tap[u] EXCEPT !.timer =
               CASE u = t /\ @ = "no" -> "none"
                 [] u = t /\ @ = "yes" -> IF Dropped(t) THEN "late" ELSE "loading"
                 [] u # t /\ @ = "loading" /\ tap[u].in = tap[t].in /\ Dropped(t)
                      -> "late"
                 [] OTHER -> @])]
  /\ UNCHANGED hasty

\* Mutant: the loading dialog is shown only if the call is still under way.
ShowLoadingWaiting(t) ==
  /\ \/ tap[t].timer = "loading" /\ dialog[tap[t].in] # "leaving"
     \/ tap[t].timer = "late" /\ ~Mounted
  /\ IF tap[t].call = "sent" THEN PageShowsLoading ELSE NoPop
  /\ Timer(t, "none")
  /\ UNCHANGED hasty

\* 800 ms after Yes: a question that closed is gone since long.
ShowLoading(t) ==
  /\ \/ tap[t].timer = "loading" /\ dialog[tap[t].in] # "leaving"
     \/ tap[t].timer = "late" /\ ~Mounted
  /\ PageShowsLoading
  /\ Timer(t, "none")
  /\ UNCHANGED hasty

QuestionLeaves(d) == DialogLeaves(d) /\ UNCHANGED <<tap, hasty>>
PageGone == PageLeaves /\ UNCHANGED <<tap, hasty>>
-----------------------------------------------------------------------------
\* The call.

\* deleteUser deletes the document, or says null.  The list, told at once, is
\* reached through the page: when that is gone the chain ends here.
Answer(t) ==
  /\ tap[t].call = "sent"
  /\ IF Mounted THEN Call(t, "removed") \/ Call(t, "refused")
     ELSE Call(t, "none")
  /\ UNCHANGED <<routes, hasty>>

\* Mutant: one pop is left out after a removal.
PopLoadingOnce(t) ==
  /\ tap[t].call \in {"removed", "refused"} /\ tap[t].timer = "none"
  /\ PagePops("loading")
  /\ Call(t, "none")
  /\ UNCHANGED hasty

\* Mutant: the pop does not wait for the timer of the dialog.
PopLoadingEarly(t) ==
  /\ tap[t].call \in {"removed", "refused"}
  /\ PagePops("loading")
  /\ Call(t, IF tap[t].call = "removed" /\ Mounted THEN "leaving" ELSE "none")
  /\ UNCHANGED hasty

\* 1.5 s after the answer; what comes after a failure is a message.
PopLoading(t) ==
  /\ tap[t].call \in {"removed", "refused"} /\ tap[t].timer = "none"
  /\ PagePops("loading")
  /\ Call(t, IF tap[t].call = "removed" /\ Mounted THEN "leaving" ELSE "none")
  /\ UNCHANGED hasty

\* The message, and another 1.5 s later the page.  Both throw when it is gone.
PopPage(t) ==
  /\ tap[t].call = "leaving"
  /\ PagePops("page")
  /\ Call(t, "none")
  /\ UNCHANGED hasty
-----------------------------------------------------------------------------
Next ==
  \/ Back \/ OpenChild \/ Reopen \/ PageGone
  \/ \E d \in Dialogs : TapDelete(d) \/ ShowQuestion(d) \/ QuestionLeaves(d)
  \/ \E t \in Taps, d \in Dialogs : Yes(t, d) \/ No(t, d)
  \/ \E t \in Taps : PopQuestion(t) \/ ShowLoading(t) \/ Answer(t)
                     \/ PopLoading(t) \/ PopPage(t)

Spec == Init /\ [][Next]_vars

\* Timers fire, calls return; the administrator owes nothing.
Fairness ==
  /\ WF_vars(PageGone)
  /\ \A d \in Dialogs : WF_vars(ShowQuestion(d)) /\ WF_vars(QuestionLeaves(d))
  /\ \A t \in Taps : /\ WF_vars(PopQuestion(t)) /\ WF_vars(ShowLoading(t))
                     /\ WF_vars(Answer(t)) /\ WF_vars(PopLoading(t))
                     /\ WF_vars(PopPage(t))

FairSpec == Spec /\ Fairness
-----------------------------------------------------------------------------
\* Properties.

Waiting ==
  {t \in Taps : tap[t].call # "none" /\ tap[t].call # "leaving"
                /\ tap[t].timer = "none"}

\* Whatever questions and taps overlap, until a pop takes a route that was not
\* meant a LoadingDialog is up for each deletion that waits, and for no other.
LoadingPerDeletion ==
  ~astray /\ pageSt = "open" => Cardinality(Loadings) = Cardinality(Waiting)

\* The delays of the code fit: who answers the question and waits never loses
\* a route; a pop goes astray only after something was done in between.
OnlyHasteStrays == astray => hasty

\* The page of something that was deleted is left, unless a pop went astray.
PageIsLeft ==
  \A t \in Taps :
    tap[t].call \in {"removed", "leaving"} ~> pageSt # "open" \/ astray

\* What is under the page stays: deleting one thing closes one page.
UnderStays == stack # <<>>

\* "Please wait" (assets/langs/en.json): the dialog goes when the wait is over.
LoadingTaken == Loadings # {} ~> Loadings = {}
=============================================================================
