SPECIFICATION FairSpec
CONSTANTS
  Forms = {fc, fi}
  CompanyForms = {fc}
  Emails = {e1}
  NoEmail = NoEmail
INVARIANTS
  IInv
  OneRegistrant
  WritesAreFresh
  InvitedAtMostOnce
  IdlePageUsable
PROPERTIES
  StrandedStays
  ImplementsEnrolment
  SubmissionEnds
  DialogDismissed
