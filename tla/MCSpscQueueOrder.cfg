CONSTANTS
  v1 = v1
  v2 = v2
  NoElement = NoElement
  Elements <- TwoElements
  MaxSize = 1
  MAX_BLOCK_SIZE = 2
  MaxBlocks = 3
SPECIFICATION FairSpec
INVARIANT TypeOK
INVARIANT SlotsMatchIndices
PROPERTY ImplementsFifoQueue
PROPERTY CallsReturn
