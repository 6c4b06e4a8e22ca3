-------------------------- MODULE WriteTaskProofs --------------------------
(***************************************************************************)
(* IndInv is an inductive invariant of the block write task, for every     *)
(* block tree and all limits.  The safety invariants follow from it.       *)
(*                                                                         *)
(* Sound restates the part of IndInv that is about the chains C, the       *)
(* records R and the database D with tip f, in terms of OnPath, so that    *)
(* the lemmas about chains apply to each action.                           *)
(***************************************************************************)
EXTENDS WriteTask, ChainProofs

(* A record of invalidated blocks at height h.                             *)
SoundRecord(S, h) ==
  /\ S \subseteq Block
  /\ \E f, t \in S :
        /\ Height[f] = h
        /\ \A x \in S : h <= Height[x] /\ Height[x] <= Height[t]
        /\ S \cap Path(Parent[f]) = {}
        /\ S \cup Path(Parent[f]) = Path(t)
  /\ \A b \in S : ContextuallyValid(b)

SoundChains(C, D) == \A c \in C : \E t \in c.blocks : OnPath(c, D, t)

SoundRecords(R) == DOMAIN R \subseteq Nat /\ \A h \in DOMAIN R : SoundRecord(R[h], h)

SoundDatabase(D, f) ==
  f \in Block \cup {Genesis} /\ D = Path(f) /\ \A b \in D : ContextuallyValid(b)

Sound ==
  /\ SoundDatabase(finalized, finalized_tip)
  /\ SoundChains(chain_set, finalized)
  /\ SoundRecords(invalidated_blocks)

TaskTypeOK ==
  /\ writer \in {"checkpointing", "receiving", "finalizing", "panicked", "stopped"}
  /\ chain_tip \in Block \cup {Genesis}

(* The two forms of the invariant.                                         *)
LEMMA SoundForm == IndInv <=> Sound /\ TaskTypeOK /\ CheckpointsComeFirst
<1>1. ASSUME IndInv
      PROVE  Sound /\ TaskTypeOK /\ CheckpointsComeFirst
  <2> USE <1>1 DEF IndInv
  <2>1. TaskTypeOK /\ CheckpointsComeFirst
    BY DEF TypeOK, TaskTypeOK
  <2>2. SoundDatabase(finalized, finalized_tip)
    BY DEF SoundDatabase, TypeOK, KnownBlocksAreValid, ChainsExtendFinalized
  <2>3. SoundChains(chain_set, finalized)
    BY DEF SoundChains, OnPath, TypeOK, KnownBlocksAreValid, ChainsExtendFinalized, IndexesMatchBlocks
  <2>4. SoundRecords(invalidated_blocks)
    BY DEF SoundRecords, SoundRecord, TypeOK, KnownBlocksAreValid, RecordsArePaths
  <2> QED
    BY <2>1, <2>2, <2>3, <2>4 DEF Sound
<1>2. ASSUME Sound, TaskTypeOK, CheckpointsComeFirst
      PROVE  IndInv
  <2> USE <1>2 DEF Sound
  <2>1. \A c \in chain_set : \E t \in c.blocks :
          OnPath(c, finalized, t) /\ t \in Block /\ IsTip(c, t)
    BY EndIsTip DEF SoundChains
  <2>2. finalized \subseteq Block
    BY PathFacts DEF SoundDatabase, Path
  <2>3. TypeOK
    BY <2>1, <2>2 DEF TypeOK, TaskTypeOK, SoundDatabase, SoundRecords, SoundRecord, OnPath
  <2>4. ChainsExtendFinalized
    BY <2>1 DEF ChainsExtendFinalized, SoundDatabase, OnPath
  <2>5. IndexesMatchBlocks
    BY <2>1 DEF IndexesMatchBlocks, OnPath
  <2>6. RecordsArePaths
    BY DEF RecordsArePaths, SoundRecords, SoundRecord
  <2>7. KnownBlocksAreValid
    BY <2>1 DEF KnownBlocksAreValid, SoundDatabase, SoundRecords, SoundRecord, OnPath
  <2> QED
    BY <2>3, <2>4, <2>5, <2>6, <2>7 DEF IndInv
<1> QED
  BY <1>1, <1>2

(* The chain a block is pushed to ends at the parent of the block.         *)
LEMMA ChainBelowOnPath ==
  ASSUME Sound, NEW p \in Block \cup {Genesis}, NEW c \in ChainBelow(p)
  PROVE  OnPath(c, finalized, p)
<1>1. finalized = Path(finalized_tip) /\ finalized_tip \in Block \cup {Genesis}
  BY DEF Sound, SoundDatabase
<1>2. CASE p = finalized_tip
  <2>1. finalized \subseteq Block
    BY <1>1, PathFacts DEF Path
  <2>2. FinalizedPool \in Int
    BY <2>1, TotalAssumption, PoolAssumption DEF FinalizedPool
  <2>3. c = NewChain(FinalizedPool)
    BY <1>2 DEF ChainBelow
  <2> QED
    BY <1>1, <1>2, <2>2, <2>3, NewChainOnPath DEF Sound, SoundDatabase
<1>3. CASE p # finalized_tip
  <2>1. c \in ParentChain(p)
    BY <1>3 DEF ChainBelow
  <2>2. CASE \E d \in chain_set : IsTip(d, p)
    <3>1. c \in chain_set /\ IsTip(c, p)
      BY <2>1, <2>2 DEF ParentChain, Best
    <3> QED
      BY <3>1, EndIsTip DEF Sound, SoundChains
  <2>3. CASE ~ \E d \in chain_set : IsTip(d, p)
    <3>1. PICK d \in chain_set : p \in d.blocks /\ c = Fork(d, p)
      BY <2>1, <2>3 DEF ParentChain, FindChain, Best
    <3>2. PICK t \in d.blocks : OnPath(d, finalized, t)
      BY DEF Sound, SoundChains
    <3>3. t \in Block
      BY <3>2, EndIsTip
    <3> QED
      BY <1>1, <3>1, <3>2, <3>3, ForkOnPath
  <2> QED
    BY <2>2, <2>3
<1> QED
  BY <1>2, <1>3

(* The checks of a commit against the chain and the database amount to     *)
(* checks against all ancestors of the block.                              *)
LEMMA CommitIsValid ==
  ASSUME Sound, NEW b \in Block, NEW c, OnPath(c, finalized, Parent[b]),
         Reveals[b] \cap FinalizedNullifiers = {},
         ValidateAndCommit(c, b)
  PROVE  ContextuallyValid(b)
<1>1. Ancestors[b] = finalized \cup c.blocks
  BY PathFacts DEF OnPath
<1>2. \A a \in Ancestors[b] : a \in Block /\ ContextuallyValid(a) /\ Path(a) \subseteq Ancestors[b]
  BY <1>1, PathFacts, AncestorsAssumption DEF OnPath, Path
<1>3. ASSUME NEW a \in Ancestors[b]
      PROVE  Reveals[a] \cap Reveals[b] = {}
  <2>1. CASE a \in finalized
    BY <2>1 DEF FinalizedNullifiers, Entries
  <2>2. CASE a \in c.blocks
    BY <2>2 DEF ValidateAndCommit, PushSucceeds, OnPath, Entries
  <2> QED
    BY <1>1, <2>1, <2>2
<1>4. ASSUME NEW a \in Ancestors[b], NEW o \in Spends[a], o \in Spends[b]
      PROVE  FALSE
  <2>1. o \in GenesisOutputs \/ \E y \in Path(a) : o \in Creates[y]
    BY <1>2, EntriesMember DEF ContextuallyValid
  <2>2. CASE o \in Creates[b]
    BY <1>2, <2>1, <2>2, TransferAssumption
  <2>3. CASE o \notin c.spent_utxos /\ o \in c.created_utxos \cup FinalizedUtxos
    <3>1. a \notin c.blocks
      BY <2>3, EntriesMember DEF OnPath
    <3>2. a \in finalized
      BY <1>1, <3>1
    <3>3. o \notin FinalizedUtxos
      BY <3>2, EntriesMember DEF FinalizedUtxos
    <3>4. PICK x \in c.blocks : o \in Creates[x]
      BY <2>3, <3>3, EntriesMember DEF OnPath
    <3>5. x \in Ancestors[b] /\ x \in Block /\ x \notin finalized
      BY <1>1, <1>2 DEF OnPath
    <3>6. o \notin GenesisOutputs
      BY <3>4, <3>5, TransferAssumption
    <3>7. PICK y \in Path(a) : o \in Creates[y]
      BY <2>1, <3>6
    <3>8. y \in finalized
      BY <3>2, <3>7, PathFacts DEF Sound, SoundDatabase, Path
    <3>9. y \in Ancestors[b] /\ y # x
      BY <1>1, <3>5, <3>8
    <3>10. Creates[x] \cap Creates[y] = {}
      BY <1>2, <3>5, <3>9, PathFacts, ValidBlocksAreDisjoint
    <3> QED
      BY <3>4, <3>7, <3>10
  <2> QED
    BY <1>4, <2>2, <2>3 DEF ValidateAndCommit, TransparentSpend
<1>5. ASSUME NEW o \in Spends[b]
      PROVE  o \in GenesisOutputs \cup Entries(Creates, Path(b))
  <2>1. b \in Path(b) /\ Ancestors[b] \subseteq Path(b)
    BY PathFacts
  <2>2. CASE o \in Creates[b]
    BY <2>1, <2>2, EntriesMember
  <2>3. CASE o \in c.created_utxos
    BY <1>1, <2>1, <2>3, EntriesMember DEF OnPath
  <2>4. CASE o \in FinalizedUtxos
    BY <1>1, <2>1, <2>4, EntriesMember DEF FinalizedUtxos
  <2> QED
    BY <2>2, <2>3, <2>4 DEF ValidateAndCommit, TransparentSpend
<1> QED
  BY <1>3, <1>4, <1>5 DEF ContextuallyValid

(* The chains after a push to the chain below the pushed blocks.           *)
LEMMA PushKeepsChains ==
  ASSUME NEW C, NEW D, NEW p, NEW c, NEW S \in SUBSET Block, NEW t \in S, NEW C2,
         SoundChains(C, D), OnPath(c, D, p),
         S \cap Path(p) = {}, S \cup Path(p) = Path(t),
         \A b \in S : ContextuallyValid(b),
         C2 \subseteq C \cup {Push(c, S)}
  PROVE  SoundChains(C2, D)
BY PushOnPath DEF SoundChains

(* commit_block and commit_new_chain: the accepted block extends a chain.  *)
LEMMA CommitKeepsSound ==
  ASSUME Sound, NEW b \in Block, NEW valid, CommitSucceeds(b, valid), CommitBlock(b)
  PROVE  Sound'
<1>1. PICK c \in ChainBelow(Parent[b]) :
        chain_set' = LimitForks(IF Parent[b] = finalized_tip
                                THEN Insert(chain_set, Push(c, {b}))
                                ELSE RetainOtherTips(Insert(chain_set, Push(c, {b})), Parent[b]))
  BY DEF CommitBlock
<1>2. Parent[b] \in Block \cup {Genesis}
  BY PathFacts
<1>3. OnPath(c, finalized, Parent[b])
  BY <1>2, ChainBelowOnPath
<1>4. ContextuallyValid(b)
  BY <1>2, ChainBelowOnPath, CommitIsValid DEF CommitSucceeds, InitialContextualValidity
<1>5. {b} \cap Path(Parent[b]) = {} /\ {b} \cup Path(Parent[b]) = Path(b)
  BY PathFacts
<1>6. chain_set' \subseteq chain_set \cup {Push(c, {b})}
  BY <1>1 DEF LimitForks, RetainOtherTips, Insert
<1>7. SoundChains(chain_set', finalized)
  BY <1>3, <1>4, <1>5, <1>6, PushKeepsChains DEF Sound
<1> QED
  BY <1>7 DEF Sound, CommitBlock

(* reconsider_block: the replayed record extends a chain without a gap.    *)
LEMMA ReconsiderKeepsSound ==
  ASSUME Sound, NEW b \in Block, ReconsiderBlock(b)
  PROVE  Sound'
<1>1. PICK h \in RecordsOf(b), c \in ChainBelow(Parent[b]) :
        /\ RetainRecords({k \in DOMAIN invalidated_blocks \ {h} :
                            k >= HeightOf(finalized_tip)})
        /\ chain_set' = LimitForks(RetainOtherTips(
                          Insert(chain_set, Push(c, invalidated_blocks[h])), Parent[b]))
  BY DEF ReconsiderBlock
<1> DEFINE S == invalidated_blocks[h]
<1>2. OnPath(c, finalized, Parent[b])
  BY PathFacts, ChainBelowOnPath
<1>3. h \in DOMAIN invalidated_blocks /\ h \in Nat /\ SoundRecord(S, h)
  BY DEF Sound, SoundRecords, RecordsOf
<1>4. PICK f, t \in S :
        /\ Height[f] = h
        /\ \A x \in S : h <= Height[x]
        /\ S \cap Path(Parent[f]) = {}
        /\ S \cup Path(Parent[f]) = Path(t)
  BY <1>3 DEF SoundRecord
<1>5. b \in S /\ Height[b] <= Height[f]
  BY DEF RecordsOf
<1>6. t \in Block /\ b \in Path(t) /\ f \in Path(t) /\ S \subseteq Block
  BY <1>3, <1>4, <1>5 DEF SoundRecord
<1>7. b = f
  <2>1. Height[b] \in Nat /\ Height[f] \in Nat /\ Height[f] <= Height[b]
    BY <1>4, <1>5, <1>6, PathFacts
  <2>2. b \notin Ancestors[f] /\ f \notin Ancestors[b]
    BY <1>5, <1>6, <2>1, PathFacts
  <2> QED
    BY <1>6, <2>2, PathIsLinear
<1>8. chain_set' \subseteq chain_set \cup {Push(c, S)}
  BY <1>1 DEF LimitForks, RetainOtherTips, Insert
<1>9. SoundChains(chain_set', finalized)
  <2>1. \A x \in S : ContextuallyValid(x)
    BY <1>3 DEF SoundRecord
  <2>2. SoundChains(chain_set, finalized)
    BY DEF Sound
  <2> QED
    BY <1>2, <1>4, <1>6, <1>7, <1>8, <2>1, <2>2, PushKeepsChains
<1>10. SoundRecords(invalidated_blocks')
  BY <1>1 DEF Sound, SoundRecords, RetainRecords, Restrict
<1> QED
  BY <1>9, <1>10 DEF Sound, ReconsiderBlock, dbVars

(* invalidate_block: the blocks that are cut off make a sound record.      *)
LEMMA ChildBlocksAreSound ==
  ASSUME NEW c, NEW f \in Block \cup {Genesis}, NEW t \in c.blocks,
         OnPath(c, Path(f), t), NEW b \in c.blocks
  PROVE  SoundRecord(ChildBlocks(c, b), Height[b])
<1> DEFINE S == ChildBlocks(c, b)
<1>1. t \in Block /\ IsTip(c, t) /\ c.blocks \subseteq Path(t) /\ c.blocks \subseteq Block
  BY EndIsTip DEF OnPath, Chains
<1>2. b \in Block /\ Path(Parent[b]) = {x \in Path(t) : Height[x] < Height[b]}
  BY <1>1, PathUpTo, PathFacts
<1>3. \A x \in Path(t) : Height[x] \in Nat
  BY <1>1, PathFacts
<1>4. \A x \in Path(f) : Height[x] < Height[b]
  BY <1>1, DatabaseIsBelow
<1>5. S \cap Path(Parent[b]) = {}
  BY <1>1, <1>2, <1>3 DEF ChildBlocks
<1>6. S \cup Path(Parent[b]) = Path(t)
  BY <1>1, <1>2, <1>3, <1>4 DEF ChildBlocks, OnPath
<1>7. b \in S /\ t \in S /\ \A x \in S : Height[b] <= Height[x] /\ Height[x] <= Height[t]
  BY <1>1, <1>3 DEF ChildBlocks, IsTip
<1>8. S \subseteq Block /\ \A x \in S : ContextuallyValid(x)
  BY <1>1 DEF ChildBlocks, OnPath
<1> QED
  BY <1>5, <1>6, <1>7, <1>8 DEF SoundRecord

(* invalidate_block leaves chains on paths, and the blocks it removes form *)
(* a record that is a gapless part of a path.                              *)
LEMMA InvalidateKeepsSound ==
  ASSUME Sound, NEW b \in Block, InvalidateBlock(b)
  PROVE  Sound'
<1>1. PICK c \in FindChain(b) :
        /\ chain_set' = IF IsRoot(c, b) THEN chain_set \ {c}
                        ELSE LimitForks({d \in Insert(chain_set, WithoutBlock(c, b)) :
                                           b \notin d.blocks})
        /\ RecordInvalidated(Height[b], ChildBlocks(c, b))
  BY DEF InvalidateBlock
<1>2. c \in chain_set /\ b \in c.blocks
  BY DEF FindChain, Best
<1>3. PICK t \in c.blocks : OnPath(c, finalized, t)
  BY <1>2 DEF Sound, SoundChains
<1>4. t \in Block /\ finalized = Path(finalized_tip) /\ finalized_tip \in Block \cup {Genesis}
  BY <1>3, EndIsTip DEF Sound, SoundDatabase
<1>5. SoundChains(chain_set', finalized)
  <2>1. CASE IsRoot(c, b)
    BY <1>1, <2>1 DEF Sound, SoundChains
  <2>2. CASE ~ IsRoot(c, b)
    <3>1. OnPath(WithoutBlock(c, b), finalized, Parent[b])
          /\ Parent[b] \in WithoutBlock(c, b).blocks
      BY <1>2, <1>3, <1>4, <2>2, WithoutBlockOnPath
    <3>2. chain_set' \subseteq chain_set \cup {WithoutBlock(c, b)}
      BY <1>1, <2>2 DEF LimitForks, Insert
    <3> QED
      BY <3>1, <3>2 DEF Sound, SoundChains
  <2> QED
    BY <2>1, <2>2
<1>6. SoundRecord(ChildBlocks(c, b), Height[b])
  BY <1>2, <1>3, <1>4, ChildBlocksAreSound
<1>7. Height[b] \in Nat
  BY PathFacts
<1>8. PICK K \in SUBSET (DOMAIN invalidated_blocks \cup {Height[b]}) :
        invalidated_blocks' = [k \in K |-> IF k = Height[b] THEN ChildBlocks(c, b)
                                           ELSE invalidated_blocks[k]]
  BY <1>1 DEF RecordInvalidated
<1>9. SoundRecords(invalidated_blocks')
  BY <1>6, <1>7, <1>8 DEF Sound, SoundRecords
<1> QED
  BY <1>5, <1>9 DEF Sound, InvalidateBlock, dbVars

(* finalize: the root of the best chain moves to the database, and the     *)
(* chains that stay are above it.                                          *)
LEMMA FinalizeKeepsSound ==
  ASSUME Sound, NEW r \in Block, FinalizeRoot(r)
  PROVE  Sound'
<1>1. finalized = Path(finalized_tip) /\ finalized_tip \in Block \cup {Genesis}
  BY DEF Sound, SoundDatabase
<1>2. \A c \in chain_set : IsRoot(c, r) =>
        \E t \in c.blocks : /\ t \in Block
                            /\ OnPath(c, finalized, t)
                            /\ OnPath(PopRoot(c, r), Path(r), t)
                            /\ Path(r) = finalized \cup {r}
  BY <1>1, EndIsTip, PopRootOnPath, RootIsChild DEF Sound, SoundChains
<1>3. PICK c \in chain_set : IsRoot(c, r)
  BY DEF FinalizeRoot, BestChain, Best
<1>4. SoundDatabase(finalized', finalized_tip')
  <2>1. PICK t \in c.blocks : OnPath(c, finalized, t) /\ Path(r) = finalized \cup {r}
    BY <1>2, <1>3
  <2>2. ContextuallyValid(r)
    BY <1>3, <2>1 DEF IsRoot, OnPath
  <2> QED
    BY <2>1, <2>2 DEF FinalizeRoot, Sound, SoundDatabase
<1>5. SoundChains(chain_set', finalized')
  <2> SUFFICES ASSUME NEW d \in chain_set, IsRoot(d, r), d.blocks # {r}
               PROVE  \E t \in PopRoot(d, r).blocks : OnPath(PopRoot(d, r), finalized', t)
    BY DEF FinalizeRoot, SoundChains
  <2>1. PICK t \in d.blocks : /\ t \in Block
                              /\ OnPath(d, finalized, t)
                              /\ OnPath(PopRoot(d, r), Path(r), t)
                              /\ Path(r) = finalized \cup {r}
    BY <1>2
  <2>2. t # r
    BY <2>1 DEF IsRoot, OnPath
  <2>3. t \in PopRoot(d, r).blocks
    BY <2>2 DEF PopRoot, Revert
  <2> QED
    BY <2>1, <2>3 DEF FinalizeRoot
<1>6. SoundRecords(invalidated_blocks')
  BY DEF FinalizeRoot, Sound, SoundRecords, RetainRecords, Restrict
<1> QED
  BY <1>4, <1>5, <1>6 DEF Sound

(***************************************************************************)
(* The steps of the task.                                                  *)
(***************************************************************************)

(* A restored chain is the part of a valid path above the database.        *)
LEMMA RestoredOnPath ==
  ASSUME NEW t \in Restored, finalized = Checkpointed,
         finalized_tip \in Block \cup {Genesis}, finalized = Path(finalized_tip)
  PROVE  LET c == Push(NewChain(FinalizedPool), Path(t) \ finalized)
         IN  OnPath(c, finalized, t) /\ t \in c.blocks
<1> DEFINE S == Path(t) \ finalized
<1>1. /\ t \in Block /\ t \notin finalized /\ finalized \subseteq Path(t)
      /\ \A b \in Path(t) : ContextuallyValid(b)
  BY RestoredAssumption
<1>2. Path(t) \subseteq Block /\ t \in Path(t)
  BY <1>1, PathFacts
<1>3. FinalizedPool \in Int
  BY <1>1, <1>2, TotalAssumption, PoolAssumption DEF FinalizedPool
<1>4. OnPath(NewChain(FinalizedPool), finalized, finalized_tip)
  BY <1>1, <1>3, NewChainOnPath
<1>5. /\ S \in SUBSET Block /\ t \in S
      /\ S \cap Path(finalized_tip) = {} /\ S \cup Path(finalized_tip) = Path(t)
      /\ \A b \in S : ContextuallyValid(b)
  BY <1>1, <1>2
<1> HIDE DEF S
<1>6. OnPath(Push(NewChain(FinalizedPool), S), finalized, t)
      /\ t \in Push(NewChain(FinalizedPool), S).blocks
  BY <1>4, <1>5, PushOnPath
<1> QED
  BY <1>6 DEF S

(* The task starts with the restored chains, if any, above the database.   *)
LEMMA InitSound == Init => IndInv
<1> SUFFICES ASSUME Init PROVE IndInv
  OBVIOUS
<1>1. SoundDatabase(finalized, finalized_tip)
  BY CheckpointAssumption DEF Init, SoundDatabase
<1>2. SoundChains(chain_set, finalized)
  <2>1. chain_set = RestoredChains(Restored)
    BY DEF Init, NfsInit
  <2>2. ASSUME NEW t \in Restored
        PROVE  LET c == Push(NewChain(FinalizedPool), Path(t) \ finalized)
               IN  OnPath(c, finalized, t) /\ t \in c.blocks
    BY RestoredOnPath DEF Init
  <2> QED
    BY <2>1, <2>2 DEF SoundChains, RestoredChains
<1>3. SoundRecords(invalidated_blocks) /\ DOMAIN invalidated_blocks = {}
  BY DEF Init, NfsInit, SoundRecords
<1>4. TaskTypeOK
  BY RestoredAssumption DEF Init, TaskInit, TaskTypeOK
<1>5. CheckpointsComeFirst
  <2>1. CASE Restored = {}
    <3>1. chain_set = {}
      BY <2>1 DEF Init, NfsInit, RestoredChains
    <3>2. finalized_tip = Genesis
      BY <2>1 DEF Init, Path
    <3> QED
      BY <1>3, <3>1, <3>2 DEF CheckpointsComeFirst
  <2>2. CASE Restored # {}
    BY <2>2 DEF Init, CheckpointsComeFirst
  <2> QED
    BY <2>1, <2>2
<1> QED
  BY <1>1, <1>2, <1>3, <1>4, <1>5, SoundForm DEF Sound

(* update_latest_chain_channels publishes a block.                         *)
LEMMA PublishedTipType ==
  ASSUME NEW next \in {"receiving", "finalizing"},
         Sound', TaskTypeOK, UpdateLatestChainChannels(next)
  PROVE  TaskTypeOK' /\ writer' # "checkpointing"
<1>1. CASE chain_set' = {}
  BY <1>1 DEF UpdateLatestChainChannels, TaskTypeOK
<1>2. CASE chain_set' # {}
  <2>1. PICK c \in chain_set' : \E t \in c.blocks : chain_tip' = t
    BY <1>2 DEF UpdateLatestChainChannels, Best
  <2>2. c.blocks \subseteq Block
    BY DEF Sound, SoundChains, OnPath, Chains
  <2>3. writer' = next
    BY <1>2 DEF UpdateLatestChainChannels
  <2> QED
    BY <2>1, <2>2, <2>3 DEF TaskTypeOK
<1> QED
  BY <1>1, <1>2

(* A block at the next height is not in the database.                      *)
LEMMA NextHeightIsNew ==
  ASSUME Sound, NEW b \in Block, IsNextHeight(b)
  PROVE  b \notin finalized
<1>1. finalized = Path(finalized_tip) /\ finalized_tip \in Block \cup {Genesis}
  BY DEF Sound, SoundDatabase
<1>2. CASE finalized_tip = Genesis
  BY <1>1, <1>2 DEF Path
<1>3. CASE finalized_tip \in Block
  <2>1. HeightOf(finalized_tip) = Height[finalized_tip] /\ Height[finalized_tip] \in Nat
    BY <1>3, TreeAssumption DEF HeightOf
  <2>2. \A x \in Path(finalized_tip) : Height[x] <= Height[finalized_tip]
    BY <1>3, <2>1, PathUpTo, PathFacts
  <2> QED
    BY <1>1, <2>1, <2>2 DEF IsNextHeight
<1> QED
  BY <1>1, <1>2, <1>3

(* commit_finalized: a checkpoint verified block becomes the finalized tip *)
(* while there are no chains.                                              *)
LEMMA CheckpointKeepsInv ==
  ASSUME IndInv, NEW b \in Checkpointed, CommitCheckpoint(b)
  PROVE  IndInv'
<1>1. Sound /\ TaskTypeOK /\ CheckpointsComeFirst
  BY SoundForm
<1>2. b \in Block /\ ContextuallyValid(b)
  BY CheckpointAssumption
<1>3. chain_set' = {} /\ DOMAIN invalidated_blocks' = {}
  BY <1>1, <1>2, NextHeightIsNew DEF CommitCheckpoint, CheckpointsComeFirst, nfsVars
<1>4. SoundDatabase(finalized', finalized_tip')
  <2>1. Path(b) = finalized \cup {b}
    BY <1>1, <1>2, PathFacts DEF CommitCheckpoint, Sound, SoundDatabase
  <2> QED
    BY <1>1, <1>2, <2>1 DEF CommitCheckpoint, Sound, SoundDatabase
<1>5. Sound'
  BY <1>3, <1>4 DEF Sound, SoundChains, SoundRecords
<1>6. TaskTypeOK'
  BY <1>1, <1>2 DEF CommitCheckpoint, TaskTypeOK
<1>7. CheckpointsComeFirst'
  BY <1>3 DEF CheckpointsComeFirst, CommitCheckpoint
<1>8. Sound' /\ TaskTypeOK' /\ CheckpointsComeFirst' => IndInv'
  BY SoundForm, PTL
<1> QED
  BY <1>5, <1>6, <1>7, <1>8

(* Each step of the task keeps the invariant.                              *)
LEMMA NextKeepsInv ==
  ASSUME IndInv, [Next]_vars
  PROVE  IndInv'
<1>1. Sound /\ TaskTypeOK /\ CheckpointsComeFirst
  BY SoundForm
<1>2. Sound' /\ TaskTypeOK' /\ CheckpointsComeFirst' => IndInv'
  BY SoundForm, PTL
<1>3. ASSUME UNCHANGED <<nfsVars, dbVars>>
      PROVE  Sound'
  BY <1>1, <1>3 DEF nfsVars, dbVars, Sound
<1>4. CASE \E b \in Checkpointed : CommitCheckpoint(b)
  BY <1>4, CheckpointKeepsInv
<1>5. CASE FinishCheckpoints \/ FinishFinalizing \/ Exit
  BY <1>1, <1>2, <1>3, <1>5
  DEF FinishCheckpoints, FinishFinalizing, Exit, TaskTypeOK, CheckpointsComeFirst
<1>6. ASSUME NEW b \in Block, NEW valid \in BOOLEAN, RejectCommit(b, valid)
      PROVE  IndInv'
  BY <1>1, <1>2, <1>3, <1>6 DEF RejectCommit, TaskTypeOK, CheckpointsComeFirst
<1>7. ASSUME NEW b \in Block, NEW valid \in BOOLEAN, AcceptCommit(b, valid)
      PROVE  IndInv'
  <2>1. Sound'
    BY <1>1, <1>7, CommitKeepsSound DEF AcceptCommit, CommitAccepted
  <2>2. TaskTypeOK' /\ writer' # "checkpointing"
    BY <1>1, <1>7, <2>1, PublishedTipType DEF AcceptCommit
  <2> QED
    BY <1>2, <2>1, <2>2 DEF CheckpointsComeFirst
<1>8. ASSUME NEW b \in Block, Invalidate(b) \/ Reconsider(b)
      PROVE  IndInv'
  <2>1. Sound'
    BY <1>1, <1>3, <1>8, InvalidateKeepsSound, ReconsiderKeepsSound DEF Invalidate, Reconsider
  <2>2. TaskTypeOK' /\ writer' # "checkpointing"
    BY <1>1, <1>8, <2>1, PublishedTipType DEF Invalidate, Reconsider
  <2> QED
    BY <1>2, <2>1, <2>2 DEF CheckpointsComeFirst
<1>9. CASE FinalizeBlock
  <2>1. Sound'
    BY <1>1, <1>9, FinalizeKeepsSound DEF FinalizeBlock
  <2> QED
    BY <1>1, <1>2, <1>9, <2>1
    DEF FinalizeBlock, taskVars, TaskTypeOK, CheckpointsComeFirst
<1>10. CASE UNCHANGED vars
  BY <1>1, <1>2, <1>3, <1>10 DEF vars, taskVars, nfsVars, dbVars, TaskTypeOK, CheckpointsComeFirst
<1> QED
  BY <1>4, <1>5, <1>6, <1>7, <1>8, <1>9, <1>10 DEF Next

(***************************************************************************)
(* Theorems.                                                               *)
(***************************************************************************)

(* IndInv holds in every state of the block write task.                    *)
THEOREM Inductive == Spec => []IndInv
BY InitSound, NextKeepsInv, PTL DEF Spec

(* The chains, the records and the database have their types.              *)
THEOREM TypeCorrect == Spec => []TypeOK
<1>1. IndInv => TypeOK
  BY DEF IndInv
<1> QED
  BY <1>1, Inductive, PTL

(* The database and each chain are a path of the block tree: no sequence   *)
(* of commits, forks, finalizations, invalidations and replays leaves a    *)
(* chain with a gap or above a block that is not its ancestor.             *)
THEOREM ChainsArePaths == Spec => []ChainsExtendFinalized
<1>1. IndInv => ChainsExtendFinalized
  BY DEF IndInv
<1> QED
  BY <1>1, Inductive, PTL

(* The indexes of a chain are those of its blocks.                         *)
THEOREM IndexesAreExact == Spec => []IndexesMatchBlocks
<1>1. IndInv => IndexesMatchBlocks
  BY DEF IndInv
<1> QED
  BY <1>1, Inductive, PTL

(* A record of invalidated blocks can be replayed without a gap.           *)
THEOREM RecordsAreReplayable == Spec => []RecordsArePaths
<1>1. IndInv => RecordsArePaths
  BY DEF IndInv
<1> QED
  BY <1>1, Inductive, PTL

(* The next height on the path of checkpoints is that of a child.          *)
LEMMA NextCheckpointIsChild ==
  ASSUME NEW f \in Checkpointed \cup {Genesis}, NEW b \in Checkpointed,
         Height[b] = HeightOf(f) + 1
  PROVE  Parent[b] = f
<1>1. b \in Block /\ Checkpointed \subseteq Block /\ Genesis \notin Block
  BY CheckpointAssumption, TreeAssumption
<1>2. Parent[b] \in Block \cup {Genesis} /\ HeightOf(Parent[b]) = HeightOf(f)
  BY <1>1, TreeAssumption DEF HeightOf
<1>3. \A x \in Block : HeightOf(x) = Height[x] /\ Height[x] \in Nat \ {0}
  BY <1>1, TreeAssumption DEF HeightOf
<1>4. CASE f = Genesis
  BY <1>2, <1>3, <1>4 DEF HeightOf
<1>5. CASE f \in Checkpointed
  <2>1. f \in Block /\ f \in Path(b) /\ f # b
    BY <1>1, <1>3, <1>5, CheckpointAssumption
  <2>2. f \in Path(Parent[b])
    BY <1>1, <2>1, PathFacts
  <2>3. Parent[b] \in Block
    BY <1>2, <2>2 DEF Path
  <2>4. f \notin Ancestors[Parent[b]]
    BY <1>2, <1>3, <2>1, <2>3, PathFacts
  <2> QED
    BY <2>2, <2>3, <2>4, PathFacts
<1> QED
  BY <1>4, <1>5

(* The assertion of commit_finalized_direct never fails: the block that    *)
(* finalize() or the checkpoint channel hands to it is a child of the      *)
(* finalized tip.                                                          *)
THEOREM FinalizedBlocksConnect == Spec => []FinalizedBlocksAreChildren
<1>1. ASSUME IndInv
      PROVE  FinalizedBlocksAreChildren
  <2>1. Sound /\ CheckpointsComeFirst
    BY <1>1, SoundForm
  <2>2. finalized = Path(finalized_tip) /\ finalized_tip \in Block \cup {Genesis}
    BY <2>1 DEF Sound, SoundDatabase
  <2>3. ASSUME NEW c \in chain_set, NEW r \in c.blocks, IsRoot(c, r)
        PROVE  Parent[r] = finalized_tip
    <3>1. PICK t \in c.blocks : OnPath(c, finalized, t)
      BY <2>1 DEF Sound, SoundChains
    <3> QED
      BY <2>2, <2>3, <3>1, EndIsTip, RootIsChild
  <2>4. ASSUME writer = "checkpointing", NEW b \in Checkpointed, IsNextHeight(b)
        PROVE  Parent[b] = finalized_tip
    <3>1. b \in Block /\ b \notin finalized
      BY <2>1, <2>4, CheckpointAssumption, NextHeightIsNew
    <3> QED
      BY <2>1, <2>4, <3>1, NextCheckpointIsChild DEF CheckpointsComeFirst, IsNextHeight
  <2> QED
    BY <2>3, <2>4 DEF FinalizedBlocksAreChildren
<1> QED
  BY <1>1, Inductive, PTL

(* No output is spent twice and no nullifier is revealed twice on the      *)
(* database and a chain, whatever forks, finalizations, invalidations and  *)
(* unchecked replays came before.                                          *)
THEOREM NoDoubleSpends == Spec => []NoDoubleSpend
<1>1. ASSUME IndInv
      PROVE  NoDoubleSpend
  <2> SUFFICES ASSUME NEW c \in chain_set,
                      NEW x \in finalized \cup c.blocks, NEW y \in finalized \cup c.blocks, x # y
               PROVE  Spends[x] \cap Spends[y] = {} /\ Reveals[x] \cap Reveals[y] = {}
    BY DEF NoDoubleSpend
  <2>1. PICK t \in c.blocks : OnPath(c, finalized, t)
    BY <1>1, SoundForm DEF Sound, SoundChains
  <2>2. t \in Block /\ x \in Path(t) /\ y \in Path(t) /\ ContextuallyValid(x) /\ ContextuallyValid(y)
    BY <2>1, EndIsTip DEF OnPath
  <2> QED
    BY <2>2, ValidBlocksAreDisjoint
<1> QED
  BY <1>1, Inductive, PTL

(* Every spent output was created by a block below on the same path.       *)
THEOREM SpendsHaveOutputs == Spec => []SpendsAreFunded
<1>1. ASSUME IndInv
      PROVE  SpendsAreFunded
  <2> SUFFICES ASSUME NEW c \in chain_set, NEW b \in c.blocks, NEW o \in Spends[b]
               PROVE  o \in GenesisOutputs \cup Entries(Creates,
                             {a \in finalized \cup c.blocks : HeightOf(a) <= Height[b]})
    BY DEF SpendsAreFunded
  <2>1. PICK t \in c.blocks : OnPath(c, finalized, t)
    BY <1>1, SoundForm DEF Sound, SoundChains
  <2>2. t \in Block /\ b \in Path(t) /\ ContextuallyValid(b) /\ finalized \cup c.blocks = Path(t)
    BY <2>1, EndIsTip DEF OnPath
  <2>3. Path(b) = {x \in Path(t) : Height[x] <= Height[b]} /\ Path(t) \subseteq Block
    BY <2>2, PathUpTo, PathFacts
  <2>4. Genesis \notin Block
    BY TreeAssumption
  <2>5. \A x \in Path(t) : HeightOf(x) = Height[x]
    BY <2>3, <2>4 DEF HeightOf
  <2>6. {a \in finalized \cup c.blocks : HeightOf(a) <= Height[b]} = Path(b)
    BY <2>2, <2>3, <2>5
  <2>7. o \in GenesisOutputs \cup Entries(Creates, Path(b))
    BY <2>2 DEF ContextuallyValid
  <2> QED
    BY <2>6, <2>7
<1> QED
  BY <1>1, Inductive, PTL
=============================================================================
