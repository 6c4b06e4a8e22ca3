------------------------- MODULE NonFinalizedState -------------------------
(***************************************************************************)
(* The chains of the non-finalized state and the database below them       *)
(* (zebra-state/src/service/non_finalized_state.rs).                       *)
(*                                                                         *)
(* Each method of NonFinalizedState is a predicate here: a ...Succeeds     *)
(* predicate for the path to Ok, and an action with the assignments of     *)
(* that path.  Errors leave the state unchanged.  The block write task     *)
(* (module WriteTask) calls them.                                          *)
(*                                                                         *)
(* The checks of a block that its hash and its ancestors decide            *)
(* (difficulty, time, anchors, commitments, coinbase maturity) are the     *)
(* parameter valid: a block body that fails them is delivered as invalid.  *)
(***************************************************************************)
EXTENDS Chain, Sequences, Functions

CONSTANTS
  MAX_BLOCK_REORG_HEIGHT,
  MAX_NON_FINALIZED_CHAIN_FORKS,
  MAX_INVALIDATED_BLOCKS

ASSUME LimitsAssumption ==
  /\ MAX_BLOCK_REORG_HEIGHT \in Nat \ {0}
  /\ MAX_NON_FINALIZED_CHAIN_FORKS \in Nat \ {0}
  /\ MAX_INVALIDATED_BLOCKS \in Nat \ {0}

VARIABLES
  chain_set,           \* the BTreeSet of chains
  invalidated_blocks,  \* the map from heights to invalidated chains
  invalidated_order,   \* the heights of that IndexMap in insertion order
  finalized,           \* the blocks of the database above Genesis
  finalized_tip        \* the tip of the database

nfsVars == <<chain_set, invalidated_blocks, invalidated_order>>
dbVars == <<finalized, finalized_tip>>

(***************************************************************************)
(* Reads of the database.                                                  *)
(***************************************************************************)

(* ZebraDb::utxo: the outputs that are unspent in the finalized state.     *)
FinalizedUtxos ==
  (GenesisOutputs \cup Entries(Creates, finalized)) \ Entries(Spends, finalized)

(* ZebraDb::contains_..._nullifier                                         *)
FinalizedNullifiers == Entries(Reveals, finalized)

(* ZebraDb::finalized_value_pool                                           *)
FinalizedPool == GenesisPool + Total(PoolChange, finalized)

(***************************************************************************)
(* The set of chains.                                                      *)
(***************************************************************************)

(* BTreeSet::insert keeps an element that equals the new one.              *)
Insert(S, c) == IF \E d \in S : Same(c, d) THEN S ELSE S \cup {c}

(* Mutant of LimitForks: pop_last.                                         *)
LimitForksFromBest(S) ==
  {c \in S : Cardinality({d \in S : Less(d, c)}) < MAX_NON_FINALIZED_CHAIN_FORKS}

(* pop_first while there are too many chains.                              *)
LimitForks(S) ==
  {c \in S : Cardinality({d \in S : Less(c, d)}) < MAX_NON_FINALIZED_CHAIN_FORKS}

(* retain the chains whose tip is not p.                                   *)
RetainOtherTips(S, p) == {c \in S : ~ IsTip(c, p)}

(* find_chain(|chain| chain.contains_block_hash(b)), if any.               *)
FindChain(b) == Best({c \in chain_set : b \in c.blocks})

(* best_chain(), if any.                                                   *)
BestChain == Best(chain_set)

(* Mutant of ParentChain: the chain with p is not forked.                  *)
ParentChainWithoutFork(p) ==
  LET withTip == {c \in chain_set : IsTip(c, p)}
  IN  IF withTip # {} THEN Best(withTip) ELSE FindChain(p)

(* parent_chain(p): the chain with that tip, or a new fork of the best     *)
(* chain that contains p, if any.                                          *)
ParentChain(p) ==
  LET withTip == {c \in chain_set : IsTip(c, p)}
  IN  IF withTip # {} THEN Best(withTip) ELSE {Fork(c, p) : c \in FindChain(p)}

(* The chain a block with parent p is pushed to: a new chain above the     *)
(* finalized tip (commit_new_chain), or the parent chain (commit_block).   *)
ChainBelow(p) ==
  IF p = finalized_tip THEN {NewChain(FinalizedPool)} ELSE ParentChain(p)

(***************************************************************************)
(* validate_and_commit_non_finalized                                       *)
(***************************************************************************)

(* Mutant of InitialContextualValidity: no_duplicates_in_finalized_chain   *)
(* is not called.                                                          *)
WithoutNullifierCheck(b) ==
  /\ Height[b] > HeightOf(finalized_tip)
  /\ \/ Parent[b] \in finalized \cup {Genesis}
     \/ \E c \in chain_set : Parent[b] \in c.blocks

(* initial_contextual_validity: the block is above the finalized tip, its  *)
(* parent is known, and the database does not have its nullifiers.         *)
InitialContextualValidity(b) ==
  /\ Height[b] > HeightOf(finalized_tip)
  /\ \/ Parent[b] \in finalized \cup {Genesis}
     \/ \E c \in chain_set : Parent[b] \in c.blocks
  /\ Reveals[b] \cap FinalizedNullifiers = {}

(* Mutant of TransparentSpend: spends of the chain are not looked up.      *)
TransparentSpendAgain(c, b) ==
  \A o \in Spends[b] : o \in Creates[b] \cup c.created_utxos \cup FinalizedUtxos

(* Mutant of TransparentSpend: a missing output is not an error.           *)
TransparentSpendUnfunded(c, b) ==
  \A o \in Spends[b] : o \in Creates[b] \/ o \notin c.spent_utxos

(* check::utxo::transparent_spend                                          *)
TransparentSpend(c, b) ==
  \A o \in Spends[b] :
    \/ o \in Creates[b]
    \/ /\ o \notin c.spent_utxos
       /\ o \in c.created_utxos \cup FinalizedUtxos

(* BlockPreviouslyInvalidated                                              *)
PreviouslyInvalidated(b) ==
  \E h \in DOMAIN invalidated_blocks : b \in invalidated_blocks[h]

(* Mutant of ValidateAndCommit: invalidated blocks are not looked up.      *)
CommitInvalidated(c, b) == TransparentSpend(c, b) /\ PushSucceeds(c, {b})

(* validate_and_commit returns Ok for chain c and block b.                 *)
ValidateAndCommit(c, b) ==
  /\ ~ PreviouslyInvalidated(b)
  /\ TransparentSpend(c, b)
  /\ PushSucceeds(c, {b})

(* The commit of block b, with a body that is valid or not, returns Ok.    *)
CommitSucceeds(b, valid) ==
  /\ valid
  /\ InitialContextualValidity(b)
  /\ \E c \in ChainBelow(Parent[b]) : ValidateAndCommit(c, b)

(* commit_new_chain or commit_block on the path to Ok.                     *)
CommitBlock(b) ==
  /\ \E c \in ChainBelow(Parent[b]) :
        LET inserted == Insert(chain_set, Push(c, {b}))
        IN  chain_set' = LimitForks(IF Parent[b] = finalized_tip THEN inserted
                                    ELSE RetainOtherTips(inserted, Parent[b]))
  /\ UNCHANGED <<invalidated_blocks, invalidated_order, finalized, finalized_tip>>

(***************************************************************************)
(* Invalidated blocks.                                                     *)
(***************************************************************************)

(* retain the records of the heights in H.                                 *)
RetainRecords(H) ==
  /\ invalidated_blocks' = Restrict(invalidated_blocks, H)
  /\ invalidated_order' = SelectSeq(invalidated_order, LAMBDA h : h \in H)

(* IndexMap::insert(h, S), then shift_remove_index(0) if the map is full.  *)
RecordInvalidated(h, S) ==
  LET order == IF h \in DOMAIN invalidated_blocks THEN invalidated_order
               ELSE Append(invalidated_order, h)
      full == Len(order) > MAX_INVALIDATED_BLOCKS
      kept == (DOMAIN invalidated_blocks \cup {h})
                 \ (IF full THEN {Head(order)} ELSE {})
  IN  /\ invalidated_blocks' =
           [k \in kept |-> IF k = h THEN S ELSE invalidated_blocks[k]]
      /\ invalidated_order' = IF full THEN Tail(order) ELSE order

InvalidateSucceeds(b) == FindChain(b) # {}

(* invalidate_block(b): the root of a chain takes the whole chain with it, *)
(* another block is cut off with its descendants.                          *)
InvalidateBlock(b) ==
  /\ \E c \in FindChain(b) :
        /\ chain_set' =
             IF IsRoot(c, b) THEN chain_set \ {c}
             ELSE LimitForks({d \in Insert(chain_set, WithoutBlock(c, b)) :
                                b \notin d.blocks})
        /\ RecordInvalidated(Height[b], ChildBlocks(c, b))
  /\ UNCHANGED dbVars

(* The heights of the records whose first block is b.                      *)
RecordsOf(b) ==
  {h \in DOMAIN invalidated_blocks :
     /\ b \in invalidated_blocks[h]
     /\ \A x \in invalidated_blocks[h] : Height[b] <= Height[x]}

ReconsiderSucceeds(b) ==
  \E h \in RecordsOf(b), c \in ChainBelow(Parent[b]) :
     PushSucceeds(c, invalidated_blocks[h])

(* reconsider_block(b): replay the record on the chain below b.            *)
ReconsiderBlock(b) ==
  /\ \E h \in RecordsOf(b), c \in ChainBelow(Parent[b]) :
        /\ PushSucceeds(c, invalidated_blocks[h])
        /\ RetainRecords({k \in DOMAIN invalidated_blocks \ {h} :
                            k >= HeightOf(finalized_tip)})
        /\ chain_set' =
             LimitForks(RetainOtherTips(
               Insert(chain_set, Push(c, invalidated_blocks[h])), Parent[b]))
  /\ UNCHANGED dbVars

(***************************************************************************)
(* Finalization.                                                           *)
(***************************************************************************)

(* Mutant of FinalizeRoot: chains with another root are kept.              *)
FinalizeKeepsSideChains(r) ==
  /\ \E c \in BestChain : IsRoot(c, r)
  /\ chain_set' = {IF IsRoot(c, r) THEN PopRoot(c, r) ELSE c : c \in
                     {d \in chain_set : d.blocks # {r}}}
  /\ RetainRecords({h \in DOMAIN invalidated_blocks : h >= Height[r]})
  /\ finalized' = finalized \cup {r}
  /\ finalized_tip' = r

(* finalize(), then commit_finalized_direct: the root of the best chain    *)
(* moves to the database, chains with another root are dropped.            *)
FinalizeRoot(r) ==
  /\ \E c \in BestChain : IsRoot(c, r)
  /\ chain_set' = {PopRoot(c, r) : c \in {d \in chain_set :
                                            IsRoot(d, r) /\ d.blocks # {r}}}
  /\ RetainRecords({h \in DOMAIN invalidated_blocks : h >= Height[r]})
  /\ finalized' = finalized \cup {r}
  /\ finalized_tip' = r

(***************************************************************************)
(* The start of the node.                                                  *)
(***************************************************************************)

(* restore_backup: the blocks of the backup are committed in height order, *)
(* which leaves one chain for each tip in T.                               *)
RestoredChains(T) == {Push(NewChain(FinalizedPool), Path(t) \ finalized) : t \in T}

(* NonFinalizedState::new, then with_backup.  A backup has no records.     *)
NfsInit(T) ==
  /\ chain_set = RestoredChains(T)
  /\ invalidated_blocks = <<>>
  /\ invalidated_order = <<>>
=============================================================================
