---------------------------- MODULE ChainProofs ----------------------------
(***************************************************************************)
(* What the operations on a chain preserve, for every block tree.          *)
(*                                                                         *)
(* OnPath(c, D, p) says that the database D and the chain c together are   *)
(* the path of the block tree to p, that the indexes of c are those of its *)
(* blocks, and that all of the blocks are contextually valid.  Each of     *)
(* Chain::push, fork, invalidate_block and pop_root takes a chain on a     *)
(* path to a chain on a path.                                              *)
(***************************************************************************)
EXTENDS Chain, TLAPS

OnPath(c, D, p) ==
  /\ c \in Chains
  /\ c.blocks \cap D = {}
  /\ D \cup c.blocks = Path(p)
  /\ c.created_utxos = Entries(Creates, c.blocks)
  /\ c.spent_utxos = Entries(Spends, c.blocks)
  /\ c.nullifiers = Entries(Reveals, c.blocks)
  /\ \A b \in D \cup c.blocks : ContextuallyValid(b)

(* The path to a block of the header tree: heights grow along it, and the  *)
(* path to each of its blocks is a part of it.                             *)
LEMMA PathFacts ==
  ASSUME NEW b \in Block
  PROVE  /\ Path(b) = Ancestors[b] \cup {b}
         /\ Path(Parent[b]) = Ancestors[b]
         /\ Parent[b] \in Block \cup {Genesis}
         /\ Path(b) \subseteq Block
         /\ Ancestors[b] \subseteq Block
         /\ Height[b] \in Nat \ {0}
         /\ \A x \in Ancestors[b] : Height[x] < Height[b]
         /\ \A x \in Path(b) : Height[x] <= Height[b] /\ Path(x) \subseteq Path(b)
BY TreeAssumption, AncestorsAssumption DEF Path

(* The blocks of a path are linearly ordered by their heights.             *)
LEMMA PathIsLinear ==
  ASSUME NEW b \in Block, NEW x \in Path(b), NEW y \in Path(b)
  PROVE  /\ x \in Block /\ y \in Block
         /\ Height[x] <= Height[y] => x \in Path(y)
         /\ Height[x] < Height[y] => x \in Ancestors[y]
         /\ x # y => x \in Ancestors[y] \/ y \in Ancestors[x]
<1>1. x \in Block /\ y \in Block
  BY PathFacts
<1>2. Height[x] \in Nat /\ Height[y] \in Nat
  BY <1>1, PathFacts
<1>3. Height[x] <= Height[y] => x \in Path(y)
  BY AncestorsAssumption
<1>4. Height[y] <= Height[x] => y \in Path(x)
  BY AncestorsAssumption
<1>5. Path(y) = Ancestors[y] \cup {y} /\ Path(x) = Ancestors[x] \cup {x}
  BY <1>1, PathFacts
<1> QED
  BY <1>1, <1>2, <1>3, <1>4, <1>5

(* Membership in the index entries of a set of blocks.                     *)
LEMMA EntriesMember ==
  ASSUME NEW f, NEW S, NEW o
  PROVE  o \in Entries(f, S) <=> \E b \in S : o \in f[b]
BY DEF Entries

(* Blocks of a path that are contextually valid share no index entry, so a *)
(* revert of some of them removes the entries of no other block.           *)
LEMMA ValidBlocksAreDisjoint ==
  ASSUME NEW t \in Block, NEW x \in Path(t), NEW y \in Path(t), x # y,
         ContextuallyValid(x), ContextuallyValid(y)
  PROVE  /\ Creates[x] \cap Creates[y] = {}
         /\ Spends[x] \cap Spends[y] = {}
         /\ Reveals[x] \cap Reveals[y] = {}
<1>1. x \in Block /\ y \in Block /\ (x \in Ancestors[y] \/ y \in Ancestors[x])
  BY PathIsLinear
<1>2. CASE x \in Ancestors[y]
  BY <1>1, <1>2, TransferAssumption DEF ContextuallyValid
<1>3. CASE y \in Ancestors[x]
  BY <1>1, <1>3, TransferAssumption DEF ContextuallyValid
<1> QED
  BY <1>1, <1>2, <1>3

(* The index entries after a push.                                         *)
LEMMA EntriesOfUnion ==
  ASSUME NEW f, NEW A, NEW S
  PROVE  Entries(f, A) \cup Entries(f, S) = Entries(f, A \cup S)
BY DEF Entries

(* The type of index entries.                                              *)
LEMMA EntriesType ==
  ASSUME NEW S \in SUBSET Block
  PROVE  /\ Entries(Creates, S) \subseteq OutPoint
         /\ Entries(Spends, S) \subseteq OutPoint
         /\ Entries(Reveals, S) \subseteq Nullifier
BY TransferAssumption DEF Entries

(* Chain::new above the finalized tip p.                                   *)
LEMMA NewChainOnPath ==
  ASSUME NEW p \in Block \cup {Genesis}, NEW pool \in Int,
         \A b \in Path(p) : ContextuallyValid(b)
  PROVE  OnPath(NewChain(pool), Path(p), p)
BY DEF OnPath, NewChain, Chains, Entries

(* Chain::push of the blocks S between p and t.                            *)
LEMMA PushOnPath ==
  ASSUME NEW c, NEW D, NEW p, NEW S \in SUBSET Block, NEW t \in S,
         OnPath(c, D, p),
         S \cap Path(p) = {}, S \cup Path(p) = Path(t),
         \A b \in S : ContextuallyValid(b)
  PROVE  OnPath(Push(c, S), D, t) /\ t \in Push(c, S).blocks
<1> DEFINE d == Push(c, S)
<1>1. c \in Chains /\ c.blocks \subseteq Block
  BY DEF OnPath, Chains
<1>2. Total(BlockWork, S) \in Int /\ Total(PoolChange, S) \in Int
  BY TotalAssumption
<1>3. d \in Chains
  BY <1>1, <1>2, EntriesType DEF Push, Chains
<1>4. d.blocks = c.blocks \cup S
  BY DEF Push
<1>5. d.blocks \cap D = {} /\ D \cup d.blocks = Path(t)
  BY <1>4 DEF OnPath
<1>6. /\ d.created_utxos = Entries(Creates, d.blocks)
      /\ d.spent_utxos = Entries(Spends, d.blocks)
      /\ d.nullifiers = Entries(Reveals, d.blocks)
  BY <1>4, EntriesOfUnion DEF OnPath, Push
<1>7. \A b \in D \cup d.blocks : ContextuallyValid(b)
  BY <1>4 DEF OnPath
<1> QED
  BY <1>3, <1>4, <1>5, <1>6, <1>7 DEF OnPath

(* A revert of the blocks S of a chain, whichever end they are at, when    *)
(* the rest of the chain and the new database E are again a path.          *)
LEMMA RevertOnPath ==
  ASSUME NEW c, NEW D, NEW t \in Block, NEW E, NEW p, NEW position,
         NEW S \in SUBSET c.blocks,
         OnPath(c, D, t),
         E \subseteq Path(t),
         E \cap (c.blocks \ S) = {}, E \cup (c.blocks \ S) = Path(p)
  PROVE  OnPath(Revert(c, S, position), E, p)
<1> DEFINE d == Revert(c, S, position)
<1>1. c \in Chains /\ c.blocks \subseteq Block /\ c.blocks \subseteq Path(t)
  BY DEF OnPath, Chains
<1>2. Total(BlockWork, S) \in Int /\ Total(PoolChange, S) \in Int
  BY <1>1, TotalAssumption
<1>3. d \in Chains
  BY <1>1, <1>2 DEF Revert, Chains
<1>4. d.blocks = c.blocks \ S
  BY DEF Revert
<1>5. \A x, y \in c.blocks : x # y =>
        /\ Creates[x] \cap Creates[y] = {}
        /\ Spends[x] \cap Spends[y] = {}
        /\ Reveals[x] \cap Reveals[y] = {}
  BY <1>1, ValidBlocksAreDisjoint DEF OnPath
<1>6. /\ d.created_utxos = Entries(Creates, d.blocks)
      /\ d.spent_utxos = Entries(Spends, d.blocks)
      /\ d.nullifiers = Entries(Reveals, d.blocks)
  <2>1. Entries(Creates, c.blocks) \ Entries(Creates, S) = Entries(Creates, c.blocks \ S)
    BY <1>5 DEF Entries
  <2>2. Entries(Spends, c.blocks) \ Entries(Spends, S) = Entries(Spends, c.blocks \ S)
    BY <1>5 DEF Entries
  <2>3. Entries(Reveals, c.blocks) \ Entries(Reveals, S) = Entries(Reveals, c.blocks \ S)
    BY <1>5 DEF Entries
  <2> QED
    BY <2>1, <2>2, <2>3 DEF OnPath, Revert
<1>7. \A b \in E \cup d.blocks : ContextuallyValid(b)
  BY <1>4 DEF OnPath
<1> QED
  BY <1>3, <1>4, <1>6, <1>7 DEF OnPath

(* The blocks of a path above and up to one of its blocks.                 *)
LEMMA PathUpTo ==
  ASSUME NEW t \in Block, NEW p \in Path(t)
  PROVE  /\ p \in Block
         /\ Path(p) = {x \in Path(t) : Height[x] <= Height[p]}
         /\ Ancestors[p] = {x \in Path(t) : Height[x] < Height[p]}
<1>1. p \in Block
  BY PathFacts
<1>2. \A x \in Path(t) :
        /\ x \in Block /\ Height[x] \in Nat
        /\ Height[x] <= Height[p] => x \in Path(p)
        /\ Height[x] < Height[p] => x \in Ancestors[p]
  BY PathFacts, PathIsLinear
<1>3. \A x \in Path(p) : x \in Path(t) /\ Height[x] <= Height[p]
  BY <1>1, PathFacts
<1>4. \A x \in Ancestors[p] : x \in Path(t) /\ Height[x] < Height[p]
  BY <1>1, <1>3, PathFacts
<1> QED
  BY <1>1, <1>2, <1>3, <1>4

(* The database is below the chain: every block of a path that is above a  *)
(* block of the chain is on the chain, too.                                *)
LEMMA DatabaseIsBelow ==
  ASSUME NEW c, NEW f \in Block \cup {Genesis}, NEW t \in Block,
         OnPath(c, Path(f), t)
  PROVE  \A x \in Path(f), y \in c.blocks : Height[x] < Height[y]
<1> SUFFICES ASSUME NEW x \in Path(f), NEW y \in c.blocks,
                    ~ (Height[x] < Height[y])
             PROVE  FALSE
  OBVIOUS
<1>1. f \in Block
  BY DEF Path
<1>2. x \in Path(t) /\ y \in Path(t)
  BY DEF OnPath
<1>3. x \in Block /\ y \in Block /\ Height[x] \in Nat /\ Height[y] \in Nat
  BY <1>2, PathFacts
<1>4. y \in Path(x)
  BY <1>2, <1>3, PathIsLinear
<1>5. y \in Path(f)
  BY <1>1, <1>4, PathFacts
<1> QED
  BY <1>5 DEF OnPath

(* Chain::fork at a block of the chain.                                    *)
LEMMA ForkOnPath ==
  ASSUME NEW c, NEW f \in Block \cup {Genesis}, NEW t \in Block,
         OnPath(c, Path(f), t), NEW p \in c.blocks
  PROVE  OnPath(Fork(c, p), Path(f), p) /\ p \in Fork(c, p).blocks
<1> DEFINE S == {x \in c.blocks : Height[x] > Height[p]}
<1>1. p \in Path(t) /\ c.blocks \subseteq Path(t) /\ Path(f) \subseteq Path(t)
  BY DEF OnPath
<1>2. p \in Block /\ Path(p) = {x \in Path(t) : Height[x] <= Height[p]}
  BY <1>1, PathUpTo
<1>3. \A x \in Path(t) : Height[x] \in Nat
  BY PathFacts
<1>4. \A x \in Path(f) : Height[x] < Height[p]
  BY DatabaseIsBelow
<1>5. Path(f) \cap (c.blocks \ S) = {}
  BY DEF OnPath
<1>6. Path(f) \cup (c.blocks \ S) = Path(p)
  BY <1>1, <1>2, <1>3, <1>4 DEF OnPath
<1>7. OnPath(Revert(c, S, "Tip"), Path(f), p)
  BY <1>1, <1>5, <1>6, RevertOnPath
<1>8. p \in c.blocks \ S
  BY <1>1, <1>3
<1> QED
  BY <1>7, <1>8 DEF Fork, Revert

(* Chain::invalidate_block of a block other than the root: the chain then  *)
(* ends at the parent of the block.                                        *)
LEMMA WithoutBlockOnPath ==
  ASSUME NEW c, NEW f \in Block \cup {Genesis}, NEW t \in Block,
         OnPath(c, Path(f), t), NEW b \in c.blocks, ~ IsRoot(c, b)
  PROVE  /\ OnPath(WithoutBlock(c, b), Path(f), Parent[b])
         /\ Parent[b] \in WithoutBlock(c, b).blocks
<1> DEFINE S == {x \in c.blocks : Height[x] >= Height[b]}
<1>1. b \in Path(t) /\ c.blocks \subseteq Path(t) /\ Path(f) \subseteq Path(t)
  BY DEF OnPath
<1>2. b \in Block /\ Ancestors[b] = {x \in Path(t) : Height[x] < Height[b]}
  BY <1>1, PathUpTo
<1>3. \A x \in Path(t) : x \in Block /\ Height[x] \in Nat
  BY PathFacts
<1>4. \A x \in Path(f) : Height[x] < Height[b]
  BY DatabaseIsBelow
<1>5. Path(Parent[b]) = Ancestors[b] /\ Parent[b] \in Block \cup {Genesis}
  BY <1>2, PathFacts
<1>6. Path(f) \cap (c.blocks \ S) = {}
  BY DEF OnPath
<1>7. Path(f) \cup (c.blocks \ S) = Path(Parent[b])
  BY <1>1, <1>2, <1>3, <1>4, <1>5 DEF OnPath
<1>8. OnPath(Revert(c, S, "Tip"), Path(f), Parent[b])
  BY <1>1, <1>6, <1>7, RevertOnPath
<1>9. Parent[b] \in c.blocks \ S
  <2>1. PICK r \in c.blocks : Height[r] < Height[b]
    BY <1>1, <1>3 DEF IsRoot
  <2>2. r \in Path(Parent[b])
    BY <1>1, <1>2, <1>5, <2>1
  <2>3. Parent[b] \in Block
    BY <2>2, <1>5 DEF Path
  <2>4. Parent[b] \in Path(Parent[b]) /\ Height[r] <= Height[Parent[b]]
    BY <2>2, <2>3, PathFacts
  <2>5. Parent[b] \notin Path(f)
    BY <2>1, <2>3, <2>4, <1>1, <1>3, DatabaseIsBelow, PathFacts
  <2> QED
    BY <1>7, <2>4, <2>5
<1> QED
  BY <1>8, <1>9 DEF WithoutBlock, ChildBlocks, Revert

(* A path has one end.                                                     *)
LEMMA PathDeterminesEnd ==
  ASSUME NEW x \in Block \cup {Genesis}, NEW y \in Block \cup {Genesis}, Path(x) = Path(y)
  PROVE  x = y
<1>1. CASE x = Genesis \/ y = Genesis
  BY <1>1 DEF Path
<1>2. CASE x \in Block /\ y \in Block
  <2>1. x \in Path(y) /\ y \in Path(x)
    BY <1>2, PathFacts
  <2>2. Height[x] <= Height[y] /\ Height[y] <= Height[x] /\ Height[x] \in Nat /\ Height[y] \in Nat
    BY <1>2, <2>1, PathFacts
  <2>3. x \notin Ancestors[y]
    BY <1>2, <2>2, PathFacts
  <2> QED
    BY <1>2, <2>1, <2>3, PathFacts
<1> QED
  BY <1>1, <1>2

(* The root of a chain is the child of the finalized tip.                  *)
LEMMA RootIsChild ==
  ASSUME NEW c, NEW f \in Block \cup {Genesis}, NEW t \in Block,
         OnPath(c, Path(f), t), NEW r, IsRoot(c, r)
  PROVE  r \in Block /\ Parent[r] = f /\ Path(r) = Path(f) \cup {r}
<1>1. r \in c.blocks /\ r \in Path(t) /\ c.blocks \subseteq Path(t) /\ Path(f) \subseteq Path(t)
  BY DEF OnPath, IsRoot
<1>2. r \in Block /\ Ancestors[r] = {x \in Path(t) : Height[x] < Height[r]}
  BY <1>1, PathUpTo
<1>3. \A x \in Path(t) : x \in Block /\ Height[x] \in Nat
  BY PathFacts
<1>4. Ancestors[r] = Path(f)
  <2>1. \A x \in Path(f) : x \in Ancestors[r]
    BY <1>1, <1>2, DatabaseIsBelow
  <2>2. \A x \in Ancestors[r] : x \notin c.blocks
    BY <1>1, <1>2, <1>3 DEF IsRoot
  <2> QED
    BY <1>2, <2>1, <2>2 DEF OnPath
<1>5. Path(Parent[r]) = Path(f) /\ Parent[r] \in Block \cup {Genesis}
  BY <1>2, <1>4, PathFacts
<1>6. Parent[r] = f
  BY <1>5, PathDeterminesEnd
<1>7. Path(r) = Path(f) \cup {r}
  BY <1>2, <1>4, PathFacts
<1> QED
  BY <1>2, <1>6, <1>7

(* Chain::pop_root of a chain with another block, when the root moves to   *)
(* the database.                                                           *)
LEMMA PopRootOnPath ==
  ASSUME NEW c, NEW f \in Block \cup {Genesis}, NEW t \in Block,
         OnPath(c, Path(f), t), NEW r, IsRoot(c, r)
  PROVE  OnPath(PopRoot(c, r), Path(r), t)
<1>1. r \in Block /\ Path(r) = Path(f) \cup {r} /\ r \in c.blocks
  BY RootIsChild DEF IsRoot
<1>2. Path(r) \cap (c.blocks \ {r}) = {} /\ Path(r) \cup (c.blocks \ {r}) = Path(t)
  BY <1>1 DEF OnPath
<1> QED
  BY <1>1, <1>2, RevertOnPath DEF PopRoot

(* The end of the path is the tip of the chain, and there is no other tip. *)
LEMMA EndIsTip ==
  ASSUME NEW c, NEW D, NEW t \in c.blocks, OnPath(c, D, t)
  PROVE  t \in Block /\ IsTip(c, t) /\ \A p : IsTip(c, p) => p = t
<1>1. t \in Block /\ c.blocks \subseteq Path(t)
  BY DEF OnPath, Chains
<1>2. IsTip(c, t)
  BY <1>1, PathFacts DEF IsTip
<1>3. ASSUME NEW p, IsTip(c, p), p # t
      PROVE  FALSE
  <2>1. p \in Path(t) /\ Height[t] <= Height[p]
    BY <1>1, <1>3 DEF IsTip
  <2>2. p \in Ancestors[t]
    BY <1>1, <1>3, <2>1, PathFacts
  <2>3. p \in Block /\ Height[p] < Height[t] /\ Height[p] \in Nat /\ Height[t] \in Nat
    BY <1>1, <2>2, PathFacts
  <2> QED
    BY <2>1, <2>3
<1> QED
  BY <1>1, <1>2, <1>3
=============================================================================
