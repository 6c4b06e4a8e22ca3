----------------------------- MODULE WriteTask -----------------------------
(***************************************************************************)
(* The block write task (zebra-state/src/service/write.rs): one thread     *)
(* that owns the non-finalized state and writes the database.  It takes    *)
(* checkpoint verified blocks from one channel until that channel closes,  *)
(* then messages for the non-finalized state from another, and publishes   *)
(* the best tip.  In this module a message can be any request; module      *)
(* StateService adds the queues that decide which messages arrive.         *)
(*                                                                         *)
(* The loop that finalizes blocks after a commit is one step per block:    *)
(* the database is shared with readers.                                    *)
(***************************************************************************)
EXTENDS NonFinalizedState

CONSTANTS
  PARENT_ERROR_MAP_LIMIT,
  Checkpointed,  \* the blocks up to the last checkpoint
  Restored       \* the tips of the chains in the backup at the start, if any

ASSUME ParentErrorAssumption == PARENT_ERROR_MAP_LIMIT \in Nat \ {0}

(* The checkpoint verifier passes on the blocks of one path, which the     *)
(* authors of the checkpoint list have found valid.                        *)
ASSUME CheckpointAssumption ==
  /\ Checkpointed \subseteq Block
  /\ \A a, b \in Checkpointed : Height[a] <= Height[b] => a \in Path(b)
  /\ \A b \in Checkpointed : Ancestors[b] \subseteq Checkpointed /\ ContextuallyValid(b)

(* A backup has blocks that were on chains of an earlier run of the node:  *)
(* above the last checkpoint, on no more chains than the limit, and valid. *)
(* Blocks that fail to commit again are left out.                          *)
ASSUME RestoredAssumption ==
  /\ Restored \subseteq Block
  /\ Cardinality(Restored) <= MAX_NON_FINALIZED_CHAIN_FORKS
  /\ \A s, t \in Restored : s \notin Ancestors[t]
  /\ \A t \in Restored :
        /\ t \notin Checkpointed /\ Checkpointed \subseteq Path(t)
        /\ \A b \in Path(t) : ContextuallyValid(b)
        /\ PushSucceeds(NewChain(GenesisPool), Path(t))

VARIABLES
  writer,            \* what the thread does next
  parent_error_map,  \* the hashes of the IndexMap, oldest first
  chain_tip          \* the last tip sent to the chain tip channel

taskVars == <<writer, parent_error_map, chain_tip>>
vars == <<nfsVars, dbVars, taskVars>>

(***************************************************************************)
(* Checkpoint verified blocks.                                             *)
(***************************************************************************)

(* The height of a block is the one the database needs next; the task      *)
(* drops blocks at other heights.                                          *)
IsNextHeight(b) == Height[b] = HeightOf(finalized_tip) + 1

(* Mutant of CommitCheckpoint: the previous tip is written again.          *)
CommitCheckpointLate(b) ==
  /\ writer = "checkpointing"
  /\ IsNextHeight(b) /\ Parent[b] = finalized_tip
  /\ finalized' = finalized \cup {finalized_tip}
  /\ finalized_tip' = b
  /\ chain_tip' = b
  /\ UNCHANGED <<nfsVars, writer, parent_error_map>>

(* commit_finalized returns Ok.  The assertion of commit_finalized_direct  *)
(* that the block is a child of the finalized tip is the guard here, and   *)
(* FinalizedBlocksAreChildren says that it never fails.                    *)
CommitCheckpoint(b) ==
  /\ writer = "checkpointing"
  /\ IsNextHeight(b) /\ Parent[b] = finalized_tip
  /\ finalized' = finalized \cup {b}
  /\ finalized_tip' = b
  /\ chain_tip' = b
  /\ UNCHANGED <<nfsVars, writer, parent_error_map>>

(* The channel of checkpoint verified blocks is closed and empty.          *)
FinishCheckpoints ==
  /\ writer = "checkpointing"
  /\ writer' = "receiving"
  /\ UNCHANGED <<nfsVars, dbVars, parent_error_map, chain_tip>>

(***************************************************************************)
(* Messages for the non-finalized state.                                   *)
(***************************************************************************)

(* parent_error_map.insert(b), then shift_remove_index(0) if it is full.   *)
InsertParentError(b) ==
  LET inserted == IF b \in Range(parent_error_map) THEN parent_error_map
                  ELSE Append(parent_error_map, b)
  IN  IF Len(inserted) > PARENT_ERROR_MAP_LIMIT THEN Tail(inserted) ELSE inserted

(* Mutant of RemoveParentError: nothing is removed.                        *)
KeepParentError(b) == parent_error_map

(* parent_error_map.shift_remove(b)                                        *)
RemoveParentError(b) == SelectSeq(parent_error_map, LAMBDA x : x # b)

(* Mutant of UpdateLatestChainChannels: publish the tip of any chain.      *)
PublishAnyTip(next) ==
  IF chain_set' = {}
  THEN writer' = "panicked" /\ UNCHANGED chain_tip
  ELSE /\ writer' = next
       /\ \E c \in chain_set' : \E t \in c.blocks : IsTip(c, t) /\ chain_tip' = t

(* update_latest_chain_channels: publish the tip of the best chain.  The   *)
(* thread panics when there is no chain.                                   *)
UpdateLatestChainChannels(next) ==
  IF chain_set' = {}
  THEN writer' = "panicked" /\ UNCHANGED chain_tip
  ELSE /\ writer' = next
       /\ \E c \in Best(chain_set') : \E t \in c.blocks :
             IsTip(c, t) /\ chain_tip' = t

(* The result of a commit message is Ok.                                   *)
CommitAccepted(b, valid) ==
  Parent[b] \notin Range(parent_error_map) /\ CommitSucceeds(b, valid)

(* A commit message for a block that is rejected, or whose parent was.     *)
RejectCommit(b, valid) ==
  /\ writer = "receiving"
  /\ ~ CommitAccepted(b, valid)
  /\ parent_error_map' = InsertParentError(b)
  /\ UNCHANGED <<nfsVars, dbVars, writer, chain_tip>>

(* A commit message for a block that is accepted.                          *)
AcceptCommit(b, valid) ==
  /\ writer = "receiving"
  /\ CommitAccepted(b, valid)
  /\ CommitBlock(b)
  /\ parent_error_map' = RemoveParentError(b)
  /\ UpdateLatestChainChannels("finalizing")

(* Mutant of FinalizeBlock: >= for >.                                      *)
FinalizeBlockEarly ==
  /\ writer = "finalizing"
  /\ \E c \in BestChain : Cardinality(c.blocks) >= MAX_BLOCK_REORG_HEIGHT
  /\ \E r \in Block : FinalizeRoot(r)
  /\ UNCHANGED taskVars

(* One turn of the loop that finalizes blocks past the reorg limit.        *)
FinalizeBlock ==
  /\ writer = "finalizing"
  /\ \E c \in BestChain : Cardinality(c.blocks) > MAX_BLOCK_REORG_HEIGHT
  /\ \E r \in Block : FinalizeRoot(r)
  /\ UNCHANGED taskVars

(* The end of that loop.                                                   *)
FinishFinalizing ==
  /\ writer = "finalizing"
  /\ \A c \in BestChain : Cardinality(c.blocks) <= MAX_BLOCK_REORG_HEIGHT
  /\ writer' = "receiving"
  /\ UNCHANGED <<nfsVars, dbVars, parent_error_map, chain_tip>>

(* An invalidate message.                                                  *)
Invalidate(b) ==
  /\ writer = "receiving"
  /\ IF InvalidateSucceeds(b) THEN InvalidateBlock(b) ELSE UNCHANGED <<nfsVars, dbVars>>
  /\ UpdateLatestChainChannels("receiving")
  /\ UNCHANGED parent_error_map

(* Mutant of Reconsider: the record is removed before the parent is found. *)
ReconsiderLosesRecord(b) ==
  /\ writer = "receiving"
  /\ IF ReconsiderSucceeds(b) THEN ReconsiderBlock(b)
     ELSE /\ RetainRecords(DOMAIN invalidated_blocks \ RecordsOf(b))
          /\ UNCHANGED <<chain_set, dbVars>>
  /\ UpdateLatestChainChannels("receiving")
  /\ UNCHANGED parent_error_map

(* A reconsider message.                                                   *)
Reconsider(b) ==
  /\ writer = "receiving"
  /\ IF ReconsiderSucceeds(b) THEN ReconsiderBlock(b) ELSE UNCHANGED <<nfsVars, dbVars>>
  /\ UpdateLatestChainChannels("receiving")
  /\ UNCHANGED parent_error_map

(* The service has closed the channels, and the thread returns.            *)
Exit ==
  /\ writer \in {"checkpointing", "receiving"}
  /\ writer' = "stopped"
  /\ UNCHANGED <<nfsVars, dbVars, parent_error_map, chain_tip>>

(* The thread begins with the loop of checkpoint verified blocks, also     *)
(* when the state service has no sender for them.                          *)
TaskInit ==
  /\ writer = "checkpointing"
  /\ parent_error_map = <<>>
  /\ chain_tip \in IF chain_set = {} THEN {finalized_tip}
                   ELSE {t \in Restored : \E c \in BestChain : IsTip(c, t)}

(* StateService::new: a backup is restored only above the last checkpoint. *)
Init ==
  /\ finalized = IF Restored = {} THEN {} ELSE Checkpointed
  /\ finalized_tip \in Block \cup {Genesis} /\ finalized = Path(finalized_tip)
  /\ NfsInit(Restored)
  /\ TaskInit

Next ==
  \/ \E b \in Checkpointed : CommitCheckpoint(b)
  \/ FinishCheckpoints
  \/ \E b \in Block, valid \in BOOLEAN : RejectCommit(b, valid) \/ AcceptCommit(b, valid)
  \/ \E b \in Block : Invalidate(b) \/ Reconsider(b)
  \/ FinalizeBlock
  \/ FinishFinalizing
  \/ Exit

Spec == Init /\ [][Next]_vars

(***************************************************************************)
(* Properties.                                                             *)
(***************************************************************************)

(* any_chain_contains(b) for the chains S.                                 *)
OnSomeChain(b, S) == \E c \in S : b \in c.blocks

(* The type of the state: fields of chains, records of invalidated blocks, *)
(* the database and the states of the thread.                              *)
TypeOK ==
  /\ chain_set \in SUBSET Chains
  /\ DOMAIN invalidated_blocks \subseteq Nat
  /\ \A h \in DOMAIN invalidated_blocks : invalidated_blocks[h] \subseteq Block
  /\ finalized \subseteq Block
  /\ finalized_tip \in Block \cup {Genesis}
  /\ writer \in {"checkpointing", "receiving", "finalizing", "panicked", "stopped"}
  /\ chain_tip \in Block \cup {Genesis}

(* The database and each chain together are the path to the tip of the     *)
(* chain: forks, finalization, invalidation and replay never leave a chain *)
(* with a gap, with a foreign block, or above a finalized block that is    *)
(* not its ancestor.                                                       *)
ChainsExtendFinalized ==
  /\ finalized = Path(finalized_tip)
  /\ \A c \in chain_set :
        /\ c.blocks \cap finalized = {}
        /\ \E t \in c.blocks : IsTip(c, t) /\ finalized \cup c.blocks = Path(t)

(* commit_finalized_direct asserts that the block it is given is a child   *)
(* of the finalized tip: the root of every chain is one, and the height of *)
(* a checkpoint verified block is enough to tell that it is one.           *)
FinalizedBlocksAreChildren ==
  /\ \A c \in chain_set : \A r \in c.blocks :
        IsRoot(c, r) => Parent[r] = finalized_tip
  /\ writer = "checkpointing" =>
        \A b \in Checkpointed : IsNextHeight(b) => Parent[b] = finalized_tip

(* No output is spent twice and no nullifier is revealed twice on the      *)
(* database and a chain, although the replay of invalidated blocks checks  *)
(* nullifiers against the chain only and spends not at all.                *)
NoDoubleSpend ==
  \A c \in chain_set : \A x, y \in finalized \cup c.blocks :
     x # y => Spends[x] \cap Spends[y] = {} /\ Reveals[x] \cap Reveals[y] = {}

(* A spent output was created before on the same path.                     *)
SpendsAreFunded ==
  \A c \in chain_set : \A b \in c.blocks :
     Spends[b] \subseteq GenesisOutputs
        \cup Entries(Creates, {a \in finalized \cup c.blocks : HeightOf(a) <= Height[b]})

(* The indexes of a chain are those of its blocks after any sequence of    *)
(* pushes, forks, root pops and tip pops.                                  *)
IndexesMatchBlocks ==
  \A c \in chain_set :
     /\ c.created_utxos = Entries(Creates, c.blocks)
     /\ c.spent_utxos = Entries(Spends, c.blocks)
     /\ c.nullifiers = Entries(Reveals, c.blocks)

(* Work is relative to the finalized tip, value pools are absolute.        *)
TotalsMatchBlocks ==
  \A c \in chain_set :
     /\ c.partial_cumulative_work = Total(BlockWork, c.blocks)
     /\ c.chain_value_pools = FinalizedPool + Total(PoolChange, c.blocks)

(* A record of invalidated blocks is the part of a path above the parent   *)
(* of the block it was made for, so its replay on a chain that ends at     *)
(* that parent leaves no gap.                                              *)
RecordsArePaths ==
  \A h \in DOMAIN invalidated_blocks :
     \E f, t \in invalidated_blocks[h] :
        /\ Height[f] = h
        /\ \A x \in invalidated_blocks[h] : h <= Height[x] /\ Height[x] <= Height[t]
        /\ invalidated_blocks[h] \cap Path(Parent[f]) = {}
        /\ invalidated_blocks[h] \cup Path(Parent[f]) = Path(t)

(* A check against a chain and the database as they are at the commit is   *)
(* a check against all ancestors, and it stays good across forks,          *)
(* finalization, invalidation and replay.                                  *)
KnownBlocksAreValid ==
  /\ \A b \in finalized : ContextuallyValid(b)
  /\ \A c \in chain_set : \A b \in c.blocks : ContextuallyValid(b)
  /\ \A h \in DOMAIN invalidated_blocks : \A b \in invalidated_blocks[h] :
        ContextuallyValid(b)

(* There are chains in the loop of checkpoint verified blocks only if the  *)
(* database has all of these blocks, so none of them moves the finalized   *)
(* tip below a chain.                                                      *)
CheckpointsComeFirst ==
  writer = "checkpointing" =>
     \/ Checkpointed \subseteq finalized
     \/ /\ finalized_tip \in Checkpointed \cup {Genesis}
        /\ chain_set = {} /\ DOMAIN invalidated_blocks = {}

(* The inductive invariant.                                                *)
IndInv ==
  /\ TypeOK
  /\ CheckpointsComeFirst
  /\ ChainsExtendFinalized
  /\ IndexesMatchBlocks
  /\ RecordsArePaths
  /\ KnownBlocksAreValid

(* Chain::push never fails an assertion, and the replay of invalidated     *)
(* blocks never fails once a chain below them is found.                    *)
ReplaySucceeds ==
  \A b \in Block : \A c \in ChainBelow(Parent[b]) :
     /\ CommitSucceeds(b, TRUE) => PushAssertions(c, {b})
     /\ \A h \in RecordsOf(b) :
           /\ PushAssertions(c, invalidated_blocks[h])
           /\ PushSucceeds(c, invalidated_blocks[h])

(* The published tip is the tip of the best chain, also while blocks are   *)
(* finalized, and the finalized tip while there is no chain.               *)
PublishedTipIsBest ==
  writer # "panicked" =>
     IF chain_set = {} THEN chain_tip = finalized_tip
     ELSE \E c \in BestChain : IsTip(c, chain_tip)

(* After the checkpoints a block reaches the database only when the best   *)
(* chain has the reorg limit of blocks above it, also when the loop        *)
(* finalizes several blocks after a reconsidered chain became too long.    *)
FinalizedBlocksAreDeep ==
  [][writer # "checkpointing" /\ finalized_tip' # finalized_tip =>
       \E c \in Best(chain_set') : Cardinality(c.blocks) >= MAX_BLOCK_REORG_HEIGHT]_vars

(* The work of a chain, counted from the bottom of the database.           *)
ChainWork(c, db) == Total(BlockWork, db) + c.partial_cumulative_work

(* Only an invalidation makes the best chain lose work: replacing a parent *)
(* chain, dropping the weakest fork and finalizing the root do not.        *)
BestWorkNeverDecreases ==
  [][\/ \A c \in BestChain : \E d \in chain_set' :
           ChainWork(d, finalized') >= ChainWork(c, finalized)
     \/ \E b \in Block : Invalidate(b)]_vars

(* A block that was invalidated is on no chain until it is reconsidered or *)
(* its record is gone: commits of the block and of its descendants do not  *)
(* bring it back.                                                          *)
InvalidatedBlocksStayOut ==
  [][\/ \A b \in Block : PreviouslyInvalidated(b) /\ ~ OnSomeChain(b, chain_set)
                           => ~ OnSomeChain(b, chain_set')
     \/ \E b \in Block : Reconsider(b)]_vars

(* A record of invalidated blocks is not lost or changed, in particular    *)
(* not by a reconsideration that fails, except when                        *)
(*   - it is reconsidered: its blocks are on one chain again, or that      *)
(*     chain was the weakest at the fork limit and was dropped at once;    *)
(*   - blocks of a chain are invalidated at the same height;               *)
(*   - it is the oldest one of a full map that a newer record enters;      *)
(*   - the finalized tip is above its height.                              *)
RecordsAreKept ==
  [][\A h \in DOMAIN invalidated_blocks :
       LET record == invalidated_blocks[h]
           entered == DOMAIN invalidated_blocks' \ DOMAIN invalidated_blocks
       IN  \/ h \in DOMAIN invalidated_blocks' /\ invalidated_blocks'[h] = record
           \/ \E c \in chain_set' : record \subseteq c.blocks
           \/ /\ \E b \in Block : h \in RecordsOf(b) /\ ReconsiderSucceeds(b)
              /\ Cardinality(chain_set') = MAX_NON_FINALIZED_CHAIN_FORKS
           \/ /\ h \in DOMAIN invalidated_blocks'
              /\ \E c \in chain_set : invalidated_blocks'[h] \subseteq c.blocks
           \/ /\ entered # {} /\ Cardinality(DOMAIN invalidated_blocks) = MAX_INVALIDATED_BLOCKS
              /\ h = Head(invalidated_order)
           \/ h < HeightOf(finalized_tip')]_vars

(***************************************************************************)
(* Statements of the repository that the code does not keep.               *)
(***************************************************************************)

(* constants.rs, MAX_BLOCK_REORG_HEIGHT: "it bounds the length of the best *)
(* non-finalized chain".  After an invalidate or a reconsider message the  *)
(* best chain can be longer.                                               *)
ReorgBound ==
  writer = "receiving" =>
     \A c \in BestChain : Cardinality(c.blocks) <= MAX_BLOCK_REORG_HEIGHT

(* invalidate_block: "Invalidate block with hash block_hash and all        *)
(* descendants from the non-finalized state."                              *)
InvalidateRemovesBlock ==
  [][\A b \in Block : Invalidate(b) => ~ OnSomeChain(b, chain_set')]_vars

(* set_best_non_finalized_tip: "once the non-finalized state becomes       *)
(* active, it is always populated".                                        *)
NonFinalizedStateStaysPopulated ==
  [][chain_set # {} => chain_set' # {}]_vars

(* finalize: "Remove all invalidated_blocks at or below the finalized      *)
(* height".                                                                *)
RecordsAreAboveFinalizedTip ==
  \A h \in DOMAIN invalidated_blocks : h > HeightOf(finalized_tip)
=============================================================================
