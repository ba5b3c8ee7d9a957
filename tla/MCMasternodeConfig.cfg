CONSTANTS
  mn1 = mn1
  mn2 = mn2
  mn1dup = mn1dup
  badPort = badPort
  invalid = invalid
  Torn = Torn
  Cut = Cut
  Entries <- MCEntries
  Alias <- MCAlias
  Aliases = {"a", "b", "x"}
  Valid <- MCValid
  Parsable <- MCParsable
  InitFiles <- MCInitFiles
  MaxEntries = 3
  MaxCrashes = 2

SPECIFICATION Spec

\* read() failing stops the node (it reports the parse error and exits).
CHECK_DEADLOCK FALSE

INVARIANTS TypeOK FileMirrorsEntries

