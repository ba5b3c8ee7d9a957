\* The dialog, the controller and the worker: two subtrees, four archives,
\* the start-up Stage II caller checking the marker, up to two process deaths.
CONSTANTS
  Absent = Absent
  Orig = Orig
  Partial = Partial
  GoodZip = GoodZip
  OtherNetZip = OtherNetZip
  PartialZip = PartialZip
  NotZip = NotZip
  Blocks = "blocks"
  Subtrees <- MCSubtrees
  Archives <- MCArchives
  Zips <- MCZips
  OtherNet <- MCOtherNet
  Layout <- MCLayout
  CloudArchives <- MCCloudArchives
  ExtArchives <- MCExtArchives
  CallerChecksMarker = TRUE
  MaxCrashes = 2
  MaxQueue = 4
SPECIFICATION DSpec
INVARIANTS DTypeOK MarkerOnlyForVerified LiveFromTrusted HashReadsStream DownloadProgressSane
PROPERTIES RunEnds RunRefined
