\* Stage II on an existing node, with up to two process deaths.
CONSTANTS
  Absent = Absent
  Orig = Orig
  Old = Old
  Boot = Boot
  Subtrees <- MCSubtrees
  DirList <- MCDirList
  Contents <- MCContents
  LiveInit = {Orig}
  BakInit = {Absent, Old}
  Lines <- MCLines
  AddnodeLines <- MCAddnode
  UserConfs <- MCUserConfs
  BootConfs <- MCBootConfs
  ConfBakInit = {Absent}
  MaxCrashes = 2
SPECIFICATION Spec
INVARIANTS TypeOK MergedConfigUninterrupted UserConfigKeptUninterrupted
PROPERTIES ReplaceRefined
