\* Stage II with one process death: is every user configuration line kept?
CONSTANTS
  Absent = Absent
  Orig = Orig
  Old = Old
  Boot = Boot
  Subtrees <- MCSubtrees
  DirList <- MCDirList
  Contents <- MCContents
  LiveInit = {Orig}
  BakInit = {Absent, Old}
  Lines <- MCLines
  AddnodeLines <- MCAddnode
  UserConfs <- MCUserConfs
  BootConfs <- MCBootConfs
  ConfBakInit = {Absent}
  MaxCrashes = 1
SPECIFICATION Spec
INVARIANT UserConfigKept
