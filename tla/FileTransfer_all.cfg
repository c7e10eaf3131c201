SPECIFICATION Spec
CONSTANTS
  f1 = f1
  f2 = f2
  NoFile = NoFile
  Junk = Junk
  Files <- TwoFiles
  Chunks = 1
  MaxJobs = 2
  MaxClients = 2
  Cap = 1
  Events = {"deviceError", "badPath", "localError", "slowClient",
            "lostEnd", "cancel", "break", "hasty", "freshDaemon"}
SYMMETRY Symmetry
CHECK_DEADLOCK FALSE
INVARIANTS TypeOK NoHalfFile SourcesKept DoneIsWhole
PROPERTIES FilesKept
