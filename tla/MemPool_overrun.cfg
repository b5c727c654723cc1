\* A request of exactly one block, and one word more.
CONSTANTS
  BlockSize = 16
  Sizes = {16, 17}
  MaxFail = 4
  MaxBlocks = 2
  MaxRefusals = 2
SPECIFICATION Spec
INVARIANT InsideBlocks
