SPECIFICATION MailSpec

CONSTANTS
  Dispatchers = {d1, d2}
  MaxMails = 1
  MaxAttempts = 2
  BatchSize = 1
  MailFaults = 0
  Stalls = 1

PROPERTIES
  NoMailDropped

CHECK_DEADLOCK FALSE
