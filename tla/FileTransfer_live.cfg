SPECIFICATION FairSpec
CONSTANTS
  f1 = f1
  f2 = f2
  NoFile = NoFile
  Junk = Junk
  Files <- OneFile
  Chunks = 2
  MaxJobs = 2
  MaxClients = 1
  Cap = 2
  Events = {"deviceError", "localError", "cancel", "break", "link", "lag",
            "merged"}
CHECK_DEADLOCK FALSE
INVARIANTS SourcesKept NoHalfFile DoneIsWhole
PROPERTIES UploadSettles ScreenResumes CancelEnds ThreadsEnd
