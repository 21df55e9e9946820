------------------------------ MODULE Enrolment ------------------------------
(***************************************************************************)
(* What adding a company or an intern promises about one e-mail address,   *)
(* seen from the back end alone: the address gets a Firebase account, then *)
(* a profile document, once.  An account whose profile is not on its way   *)
(* any more is stranded, and no later attempt repairs it: accounts are     *)
(* never deleted by the application and registration refuses an address    *)
(* that already has one.  Provisioning implements this specification.      *)
(***************************************************************************)

CONSTANT Emails      \* the e-mail addresses an administrator may type

VARIABLES
  status,            \* status[e]: what the back end holds for address e
  mailed             \* the addresses the invitation has been sent to

vars == <<status, mailed>>

\* absent:   no account           pending:  account, the profile is on its way
\* enrolled: account and profile  stranded: account only, for good
Statuses == {"absent", "pending", "enrolled", "stranded"}

TypeOK ==
  /\ status \in [Emails -> Statuses]
  /\ mailed \subseteq Emails

Init ==
  /\ status \in [Emails -> Statuses \ {"pending"}]
  /\ mailed = {}

\* The account is created; the same attempt will write the profile.
CreateAccount(e) ==
  /\ status[e] = "absent"
  /\ status' = [status EXCEPT ![e] = "pending"]
  /\ UNCHANGED mailed

\* The profile document of a pending account is written.
Enrol(e) ==
  /\ status[e] = "pending"
  /\ status' = [status EXCEPT ![e] = "enrolled"]
  /\ UNCHANGED mailed

\* Attempts end before their profile write: a failed upload, a refused write,
\* a page that was left or an application that was killed (several at once).
Abandon(S) ==
  /\ \A e \in S : status[e] = "pending"
  /\ status' = [e \in Emails |-> IF e \in S THEN "stranded" ELSE status[e]]
  /\ UNCHANGED mailed

\* The profile is deleted; the account stays.
Remove(e) ==
  /\ status[e] = "enrolled"
  /\ status' = [status EXCEPT ![e] = "stranded"]
  /\ UNCHANGED mailed

\* The invitation goes out once the profile write was answered.
Invite(e) ==
  /\ status[e] \in {"enrolled", "stranded"}
  /\ e \notin mailed
  /\ mailed' = mailed \cup {e}
  /\ UNCHANGED status

Next ==
  \/ \E e \in Emails : CreateAccount(e) \/ Enrol(e) \/ Remove(e) \/ Invite(e)
  \/ \E S \in SUBSET Emails : Abandon(S)

Spec == Init /\ [][Next]_vars
=============================================================================
