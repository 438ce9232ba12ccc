SPECIFICATION Spec
CONSTANTS
  e1 = e1
  e2 = e2
  Emails <- MCEmails
  N = 2
  AutoRenew <- MCEmails
  Period = 2
  Total = 1
  Deadlines <- MCDeadlines
  Edits <- MCEdits
  MaxTime = 2
  MaxRequests = 2
SYMMETRY Symmetry
INVARIANT TypeOK DeadlinesAgree ShownIsServed
PROPERTY LimitsEnforced ActivatedStays
