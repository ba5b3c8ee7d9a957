\* Stage II on a node without a configuration file, with one process death:
\* does a re-run after a death that followed the merge still leave exactly the
\* bootstrap fragment as the configuration?
CONSTANTS
  Absent = Absent
  Orig = Orig
  Old = Old
  Boot = Boot
  Subtrees <- MCSubtrees
  DirList <- MCDirList
  Contents <- MCContents
  LiveInit = {Orig}
  BakInit = {Absent, Old}
  Lines <- MCLines
  AddnodeLines <- MCAddnode
  UserConfs = {Absent}
  BootConfs <- MCBootConfs
  ConfBakInit = {Absent}
  MaxCrashes = 1
SPECIFICATION Spec
INVARIANT MergedConfigOnSuccess
