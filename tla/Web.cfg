SPECIFICATION WebSpec
CONSTANTS
  Calls = {u1, u2}
  Notices = {n1}
  FeedActs = 2
  FeedFaults = 1
  Sources = {1, 2, 3}
  UploadCap = 2
  UploadWorkers = 2
  UploadAttempts = 2
  UploadFaults = 1
  Questions = {1, 2}
  Open = {2}
  HalfPoints <- MCHalfPoints
  Texts = {t1}
  QuizFaults = 1
  Turns = 2
  Tokens = 1
  ChatFaults = 1
  StudyTexts = {s1}
  MaxItems = 3
  MaxQuestions = 2
  StudyEdits = 6
INVARIANTS
  WebTypeOK
  ListsAgree
  UploadsOnce
  AttemptsAsMarked
  
  
PROPERTIES
  BellSettles
CHECK_DEADLOCK FALSE
