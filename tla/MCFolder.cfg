SPECIFICATION FairSpec
CONSTANTS
  Batches = {b1, b2}
  f1 = f1
  f2 = f2
  Folders <- MCFolders
  MaxFaults = 1
CHECK_DEADLOCK FALSE
INVARIANTS TypeOK FilesOnlyAfterAccept ResultsExact AnswerIsHeard
PROPERTY FolderReturns
