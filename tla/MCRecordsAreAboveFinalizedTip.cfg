SPECIFICATION Spec
CONSTANTS
  Genesis = "G"
  Block <- MCBlock
  Parent <- MCParent
  Height <- MCHeight
  Ancestors <- MCAncestors
  BlockWork <- MCBlockWork
  HashOrder <- MCHashOrder
  OutPoint <- MCOutPoint
  Creates <- MCCreates
  Spends <- MCSpends
  GenesisOutputs = {"o0"}
  Nullifier = {"n"}
  Reveals <- MCReveals
  PoolChange <- MCPoolChange
  GenesisPool = 0
  MAX_BLOCK_REORG_HEIGHT = 2
  MAX_NON_FINALIZED_CHAIN_FORKS = 2
  MAX_INVALIDATED_BLOCKS = 2
  PARENT_ERROR_MAP_LIMIT = 1
  Checkpointed = {"a1", "b2"}
  Restored = {}
INVARIANT RecordsAreAboveFinalizedTip
CHECK_DEADLOCK FALSE
