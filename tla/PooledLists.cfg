CONSTANTS
  num_items = 4
  item_size = 2
  Offsets <- MCOffsets
  NULL = NULL
  Heads = {h1, h2}
SPECIFICATION PooledSpec
INVARIANTS
  PooledTypeOK
  ChainIsFree
  BothWaysAgree
  DetachedIsUnlinked
PROPERTIES
  ImplementsPool
  ImplementsLists
