CONSTANTS
  p1 = p1
  p2 = p2
  p3 = p3
  NoProposal = NoProposal
  Proposals <- MCProposals
  Order <- MCOrder
  BlockEnd <- MCBlockEnd
  InitKnown <- MCInitKnown
  Searches <- MCSearches
  InitHeight = 0
  MaxHeight = 3
SPECIFICATION Spec
INVARIANT NoAssertAbort
