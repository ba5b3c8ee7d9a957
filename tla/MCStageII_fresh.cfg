\* Stage II on a fresh data directory (no ledger subtree yet), one process death.
CONSTANTS
  Absent = Absent
  Orig = Orig
  Old = Old
  Boot = Boot
  Subtrees <- MCSubtrees
  DirList <- MCDirList
  Contents <- MCContents
  LiveInit = {Absent}
  BakInit = {Absent}
  Lines <- MCLines
  AddnodeLines <- MCAddnode
  UserConfs <- MCUserConfs
  BootConfs <- MCBootConfs
  ConfBakInit = {Absent}
  MaxCrashes = 1
SPECIFICATION Spec
INVARIANT InstalledOnSuccess
