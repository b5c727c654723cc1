\* Blocks of the smallest size the code allows, pieces of half a block with their
\* headers (a bucket's descriptor takes a quarter), and a bucket.  Two refusals are
\* the most that cannot give up the last block.
CONSTANTS
  BlockSize = 16
  Sizes = {5, 8, 17}
  MaxFail = 4
  MaxBlocks = 2
  MaxRefusals = 2
SPECIFICATION Spec
INVARIANTS LaidOut Reusable
PROPERTY ImplementsAllocator
