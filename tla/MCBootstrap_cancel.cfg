CONSTANTS
  Absent = Absent
  Orig = Orig
  Partial = Partial
  GoodZip = GoodZip
  OtherNetZip = OtherNetZip
  PartialZip = PartialZip
  NotZip = NotZip
  Blocks = "blocks"
  Subtrees <- MCSubtrees
  Archives <- MCArchives
  Zips <- MCZips
  OtherNet <- MCOtherNet
  Layout <- MCLayout
  CloudArchives <- MCCloudArchives
  ExtArchives <- MCExtArchives
  CallerChecksMarker = TRUE
  MaxCrashes = 0
SPECIFICATION Spec
INVARIANT CancelNotLost
