SPECIFICATION ServiceSpec
CONSTANTS
  Genesis = "G"
  Block <- MCBlock
  Parent <- MCParent
  Height <- MCHeight
  Ancestors <- MCAncestors
  BlockWork <- MCOne
  HashOrder <- MCHashOrder
  OutPoint = {"o"}
  Creates <- MCNothing
  Spends <- MCNothing
  GenesisOutputs = {}
  Nullifier = {"n"}
  Reveals <- MCNothing
  PoolChange <- MCZero
  GenesisPool = 0
  MAX_NON_FINALIZED_CHAIN_FORKS = 2
  MAX_INVALIDATED_BLOCKS = 2
  PARENT_ERROR_MAP_LIMIT = 2
  Kind <- MCKind
  BlockOf <- MCBlockOf
  BodyIsValid <- MCBodyIsValid
  full_verifier_utxo_lookahead = 2
  Checkpointed = {"a1", "b2"}
  Restored = {}
  MAX_BLOCK_REORG_HEIGHT = 1
  Request = {"k1", "k2", "c", "inva"}
INVARIANT InvalidateRefusedWhileCheckpointing
CHECK_DEADLOCK FALSE
