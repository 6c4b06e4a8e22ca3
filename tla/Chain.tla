------------------------------- MODULE Chain -------------------------------
(***************************************************************************)
(* A non-finalized chain (zebra-state/src/service/non_finalized_state/     *)
(* chain.rs): the blocks between the finalized tip and a chain tip, and    *)
(* the indexes kept beside them.                                           *)
(*                                                                         *)
(* A block header commits to its parent, so the block tree is constant: a  *)
(* hash is an element of Block, and its parent, height, work and the       *)
(* effects of its transactions are constant functions of it.  Genesis is   *)
(* the block at the bottom of the modelled database.                       *)
(*                                                                         *)
(* The BTreeMap from heights to blocks is the set of its values: a block   *)
(* determines its height.  The first and the last entry of the map are     *)
(* given by the relations IsRoot and IsTip.                                *)
(***************************************************************************)
EXTENDS Integers, FiniteSets, FiniteSetsExt

CONSTANTS
  Block,        \* block hashes, other than Genesis
  Genesis,      \* the lowest block of the database
  Parent,       \* header.previous_block_hash
  Height,       \* the coinbase height of a block
  BlockWork,    \* header.difficulty_threshold.to_work()
  HashOrder,    \* the byte order on hashes, the tie-breaker of Chain::cmp
  OutPoint,     \* transparent outputs
  Creates,      \* the outputs a block creates
  Spends,       \* the outputs a block spends
  GenesisOutputs, \* the outputs that are unspent in the initial database
  Nullifier,    \* nullifiers of the four shielded pools, tagged by pool
  Reveals,      \* the nullifiers a block reveals
  PoolChange,   \* a block's change of the chain value pools
  GenesisPool,  \* the value pools of the initial database
  Ancestors     \* the blocks of Block below a block, not used by the code

(* The blocks of the tree from the bottom of the database to b.            *)
Path(b) == IF b = Genesis THEN {} ELSE Ancestors[b] \cup {b}

(* The height of a block or of Genesis.                                    *)
HeightOf(b) == IF b = Genesis THEN 0 ELSE Height[b]

(* Headers form a finite tree and heights count the blocks of a path.      *)
ASSUME TreeAssumption ==
  /\ IsFiniteSet(Block)
  /\ Genesis \notin Block
  /\ Parent \in [Block -> Block \cup {Genesis}]
  /\ Height \in [Block -> Nat \ {0}]
  /\ \A b \in Block : Height[b] = HeightOf(Parent[b]) + 1

(* Ancestors is the transitive closure of Parent.  The last two conjuncts  *)
(* follow from the first two by induction on heights.                      *)
ASSUME AncestorsAssumption ==
  /\ Ancestors \in [Block -> SUBSET Block]
  /\ \A b \in Block : Ancestors[b] = Path(Parent[b])
  /\ \A b \in Block : \A a \in Ancestors[b] :
        Height[a] < Height[b] /\ Ancestors[a] \subseteq Ancestors[b]
  /\ \A b \in Block : \A x, y \in Path(b) :
        Height[x] <= Height[y] => x \in Path(y)

ASSUME WorkAssumption ==
  /\ BlockWork \in [Block -> Nat]
  /\ HashOrder \in [Block -> Nat]
  /\ \A a, b \in Block : HashOrder[a] = HashOrder[b] => a = b

(* Transaction ids are unique on a path of the tree, so an output is       *)
(* created once.                                                           *)
ASSUME TransferAssumption ==
  /\ Creates \in [Block -> SUBSET OutPoint]
  /\ Spends \in [Block -> SUBSET OutPoint]
  /\ GenesisOutputs \subseteq OutPoint
  /\ Reveals \in [Block -> SUBSET Nullifier]
  /\ \A b \in Block :
        /\ Creates[b] \cap GenesisOutputs = {}
        /\ \A a \in Ancestors[b] : Creates[a] \cap Creates[b] = {}

ASSUME PoolAssumption ==
  PoolChange \in [Block -> Int] /\ GenesisPool \in Nat

(* The sum of f over the blocks of S.                                      *)
Total(f, S) == MapThenSumSet(LAMBDA b : f[b], S)

(* Integers are closed under finite sums.                                  *)
ASSUME TotalAssumption ==
  \A S \in SUBSET Block : Total(BlockWork, S) \in Nat
                          /\ Total(PoolChange, S) \in Int

(***************************************************************************)
(* The chain and its order.                                                *)
(***************************************************************************)

(* ChainInner: the fields that commits, forks and finalization update.     *)
(* height_by_hash has the same hashes as blocks.                           *)
Chains == [blocks : SUBSET Block,
           created_utxos : SUBSET OutPoint,
           spent_utxos : SUBSET OutPoint,
           nullifiers : SUBSET Nullifier,
           partial_cumulative_work : Int,
           chain_value_pools : Int]

(* Chain::new: an empty chain above a finalized tip with this value pool.  *)
NewChain(pool) ==
  [blocks |-> {}, created_utxos |-> {}, spent_utxos |-> {}, nullifiers |-> {},
   partial_cumulative_work |-> 0, chain_value_pools |-> pool]

(* non_finalized_tip_hash() = t                                            *)
IsTip(c, t) == t \in c.blocks /\ \A x \in c.blocks : Height[x] <= Height[t]

(* non_finalized_root_hash() = r                                           *)
IsRoot(c, r) == r \in c.blocks /\ \A x \in c.blocks : Height[r] <= Height[x]

(* Chain::cmp: cumulative work, then the hash of the tip.                  *)
Less(c, d) ==
  \/ c.partial_cumulative_work < d.partial_cumulative_work
  \/ /\ c.partial_cumulative_work = d.partial_cumulative_work
     /\ \E s \in c.blocks, t \in d.blocks :
           IsTip(c, s) /\ IsTip(d, t) /\ HashOrder[s] < HashOrder[t]

(* Chain::eq, the equality of the BTreeSet.                                *)
Same(c, d) == ~ Less(c, d) /\ ~ Less(d, c)

(* The first chain of an iteration over S from best to worst, if any.      *)
Best(S) == {c \in S : \A d \in S : d = c \/ Less(d, c)}

(***************************************************************************)
(* Updates of a chain.  Pushing or reverting the blocks of a set one after *)
(* the other adds or removes the same index entries in any order, so the   *)
(* operators take the set.                                                 *)
(***************************************************************************)

(* The entries that the blocks of S have in the index f.                   *)
Entries(f, S) == UNION {f[b] : b \in S}

(* What the contextual checks establish of a block: it repeats no spend    *)
(* and no nullifier of an ancestor, and it spends outputs of its path.     *)
ContextuallyValid(b) ==
  /\ \A a \in Ancestors[b] :
        Spends[a] \cap Spends[b] = {} /\ Reveals[a] \cap Reveals[b] = {}
  /\ Spends[b] \subseteq GenesisOutputs \cup Entries(Creates, Path(b))

(* The errors of Chain::push for the blocks of S in height order: a        *)
(* nullifier that the chain already has, or a value pool that becomes      *)
(* negative.                                                               *)
PushSucceeds(c, S) ==
  /\ Entries(Reveals, S) \cap c.nullifiers = {}
  /\ \A a, b \in S : a # b => Reveals[a] \cap Reveals[b] = {}
  /\ \A b \in S : c.chain_value_pools
                   + Total(PoolChange, {a \in S : Height[a] <= Height[b]}) >= 0

(* The assertions of Chain::push: hashes, transactions and spends are new  *)
(* to the chain.                                                           *)
PushAssertions(c, S) ==
  /\ S \cap c.blocks = {}
  /\ Entries(Creates, S) \cap c.created_utxos = {}
  /\ Entries(Spends, S) \cap c.spent_utxos = {}

(* Chain::push of each block of S.                                         *)
Push(c, S) ==
  [blocks |-> c.blocks \cup S,
   created_utxos |-> c.created_utxos \cup Entries(Creates, S),
   spent_utxos |-> c.spent_utxos \cup Entries(Spends, S),
   nullifiers |-> c.nullifiers \cup Entries(Reveals, S),
   partial_cumulative_work |-> c.partial_cumulative_work + Total(BlockWork, S),
   chain_value_pools |-> c.chain_value_pools + Total(PoolChange, S)]

(* Mutant of Revert: remove_from_non_finalized_chain is not called.        *)
RevertKeepsNullifiers(c, S, position) ==
  [blocks |-> c.blocks \ S,
   created_utxos |-> c.created_utxos \ Entries(Creates, S),
   spent_utxos |-> c.spent_utxos \ Entries(Spends, S),
   nullifiers |-> c.nullifiers,
   partial_cumulative_work |-> c.partial_cumulative_work - Total(BlockWork, S),
   chain_value_pools |-> IF position = "Tip"
                         THEN c.chain_value_pools - Total(PoolChange, S)
                         ELSE c.chain_value_pools]

(* Mutant of Revert: a revert of the root changes the value pools.         *)
RevertPoolsAtRoot(c, S, position) ==
  [blocks |-> c.blocks \ S,
   created_utxos |-> c.created_utxos \ Entries(Creates, S),
   spent_utxos |-> c.spent_utxos \ Entries(Spends, S),
   nullifiers |-> c.nullifiers \ Entries(Reveals, S),
   partial_cumulative_work |-> c.partial_cumulative_work - Total(BlockWork, S),
   chain_value_pools |-> c.chain_value_pools - Total(PoolChange, S)]

(* revert_chain_with of each block of S, which are at the root or at the   *)
(* tip of the chain.  The value pools are those of the tip, so only a      *)
(* revert of the tip changes them.                                         *)
Revert(c, S, position) ==
  [blocks |-> c.blocks \ S,
   created_utxos |-> c.created_utxos \ Entries(Creates, S),
   spent_utxos |-> c.spent_utxos \ Entries(Spends, S),
   nullifiers |-> c.nullifiers \ Entries(Reveals, S),
   partial_cumulative_work |-> c.partial_cumulative_work - Total(BlockWork, S),
   chain_value_pools |-> IF position = "Tip"
                         THEN c.chain_value_pools - Total(PoolChange, S)
                         ELSE c.chain_value_pools]

(* Chain::pop_root                                                         *)
PopRoot(c, r) == Revert(c, {r}, "Root")

(* Mutant of Fork: the fork point is popped, too.                          *)
ForkBelow(c, b) == Revert(c, {x \in c.blocks : Height[x] >= Height[b]}, "Tip")

(* Chain::fork: pop_tip until the tip is b.                                *)
Fork(c, b) == Revert(c, {x \in c.blocks : Height[x] > Height[b]}, "Tip")

(* Mutant of ChildBlocks: the invalidated block is left out.               *)
ChildBlocksAbove(c, b) == {x \in c.blocks : Height[x] > Height[b]}

(* Chain::child_blocks at the height of b.                                 *)
ChildBlocks(c, b) == {x \in c.blocks : Height[x] >= Height[b]}

(* Chain::invalidate_block: fork at b, then pop b.                         *)
WithoutBlock(c, b) == Revert(c, ChildBlocks(c, b), "Tip")
=============================================================================
