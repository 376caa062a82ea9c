SPECIFICATION MailSpec

CONSTANTS
  Dispatchers = {d1, d2}
  MaxMails = 2
  MaxAttempts = 2
  BatchSize = 2
  MailFaults = 1
  Stalls = 1

INVARIANTS
  MailTypeOK
  SentOnce

PROPERTIES
  NeverOutdated
  MailsSettle

CHECK_DEADLOCK FALSE
