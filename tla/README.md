# A TLA+ model of the Wcash node

Wolf is the node of the Wcash chain, a fork of Zebra. This directory specifies the
part of it that decides which blocks the node accepts, keeps and makes final: the
write path of `zebra-state`. TLC checks the modules on small block trees, and TLAPS
proves the main safety properties for every block tree and every limit.

Paths in this document are relative to `src/`; `state/` stands for
`zebra-state/src/`.

## The system

| Component | State | Operations | Works with |
| --- | --- | --- | --- |
| Non-finalized chain (`state/service/non_finalized_state/chain.rs`) | blocks by height; indexes of outputs, spends, nullifiers; work; value pools; trees | push, fork, pop the root, pop the tip, compare | owned by the non-finalized state |
| Non-finalized state (`state/service/non_finalized_state.rs`) | the set of chains, ordered by work; records of invalidated blocks | commit, invalidate, reconsider, finalize | validates against the database |
| Block write task (`state/service/write.rs`) | both of the above, the parent error map | one thread with two receive loops; finalizes past the reorg limit; publishes the tip | channels from and to the state service |
| State service (`state/service.rs`, `state/service/queued_blocks.rs`) | queues of blocks without a parent, hashes of sent blocks, oneshot responses | queue, send, hand off from checkpoints to full verification, prune, drop | called by the verifiers, RPC and the syncer |
| Finalized state (`state/service/finalized_state.rs`) | RocksDB | commit a child of the tip, read | written by the task, read by everyone |
| Chain tip channels (`state/service/chain_tip.rs`) | a watch channel; the last change each consumer saw | set the tip; wait for a change; tell growth from reset | mempool, syncer, RPC |
| Pending UTXOs (`state/service/pending_utxos.rs`) | broadcast channels by outpoint | await, respond, prune | transaction verifier |
| Backup (`state/service/non_finalized_state/backup.rs`) | a directory of blocks and coverage markers | publish, withdraw, remove, restore | crashes and restarts |
| Read state service (`state/service/read*`) | snapshots of the watch channel and the live database | queries | races the write task |
| Checkpoint verifier (`zebra-consensus/src/checkpoint.rs`) | queued blocks by height, progress, a reset channel | queue, verify a range, reset | the state service |
| Block and transaction verifiers (`zebra-consensus/src/`) | none between requests | check one block or transaction | batch workers, state |
| Batch worker, fallback (`tower-batch-control`, `tower-fallback`) | a pending batch, its timer, running batches, failure | receive, flush, fail | signature and proof verifiers |
| Syncer, inbound (`zebrad/src/components/`) | download tasks, cancel handles, lookahead limit | download, verify, cancel | network, verifier, chain tip |
| Mempool (`zebrad/src/components/mempool*`) | verified and rejected transactions, downloads, slots of peers | insert, reject, expire, reset with the tip | chain tip, verifier |
| Network (`zebra-network/src/`) | connection handlers, peer set, inventory, address book | request, respond, time out, rotate | peers |
| Merge miner (`wcash-merge-miner/src/`) | an append-only journal, winners, shares, generations of jobs | append, transition, replay, sample, close | two chains |
| Emission (`zebra-chain/src/parameters/network/subsidy/wcash_mainnet.rs`) | a curve counter per height | subsidy, advance | block verification |

What is hard here is rarely one function. A block is checked once, and that verdict
has to survive forks, finalization underneath it, invalidation and an unchecked
replay. A hash is "sent", "queued", "rejected" or "final" in four structures owned
by two threads that talk through five channels. `PROJECT.json` lists these hazards
at the lines where they bite.

What makes each component correct:

* chains are gapless paths above the database, and their indexes and totals are
  those of their blocks;
* no accepted path spends an output or reveals a nullifier twice;
* only deep blocks become final, each a child of the previous one, and no limit
  ever evicts the best chain;
* a caller always gets a response, a rejected block can be sent again, a child
  never overtakes its parent, and checkpoint sync recovers from a failed block;
* (planned) a consumer of the tip hears of every rollback, a crash leaves a backup
  that can be restored, a verifier that is reset makes progress again, a failed
  batch worker answers everyone, and a journal replays to what it acknowledged.

## Modules

`Chain` <- `NonFinalizedState` <- `WriteTask` <- `StateService` (each extends the one
before it). `MCWriteTask` and `MCStateService` give the constants values.
`ChainProofs` and `WriteTaskProofs` hold the proofs.

**Chain.** The block tree is constant because a header commits to its parent. A block
is a hash; parent, height, work, created and spent outputs, nullifiers and the change
of the value pool are functions of it. A chain is the record of the fields of
`ChainInner` that commits and reverts update. The `BTreeMap` from heights to blocks
is the set of its values, and `IsRoot` and `IsTip` are its first and last entries.
`Push`, `PopRoot`, `Fork`, `WithoutBlock` are the methods of the same purpose, `Revert`
is `revert_chain_with` and distinguishes the root from the tip as the code does,
`Less` is `Ord::cmp`. One deliberate simplification: operators that the code applies
block by block take the set of blocks, since the index updates commute. `PushSucceeds`
still checks the value pool after every single block.

**NonFinalizedState.** One predicate per method, split into `...Succeeds` (the path to
`Ok`) and the assignments. `LimitForks` is the eviction from the weak end of the
`BTreeSet`, `Insert` keeps an equal element, `RecordInvalidated` is the insertion into
the `IndexMap` with its eviction by age. Checks that only the block and its ancestors
decide (difficulty, time, anchors, commitments, coinbase maturity) are the boolean
`valid` of a delivered body.

**WriteTask.** The thread: `CommitCheckpoint` and `FinishCheckpoints` are the first
loop, `AcceptCommit`, `RejectCommit`, `Invalidate` and `Reconsider` the second one,
`FinalizeBlock` and `FinishFinalizing` the loop inside it, one step per block because
readers see the database in between. `UpdateLatestChainChannels` includes the panic on
an empty state. Messages are arbitrary here. A start is given by the constant `Restored`,
the tips of the chains that `restore_backup` commits again: none for a node that has no
backup or is below the last checkpoint. Since these are commits, a restored start differs
from a state in the middle of a run only in the thread, which passes through its first
loop once more.

**StateService.** Adds the queues and channels. A request is made once, and its
oneshot channel is an entry of `answer`. `queue_and_commit_to_non_finalized_state` is
split where it reads the database that the task writes: `CommitSemanticallyVerifiedBlock`,
then `DecideToSend`, then one `SendChildren` per turn of the loop, then `FinishSending`.
`HandOff` is the change from checkpoint sync to full verification. After a restored start
there is no sender for checkpoint blocks, and `RestoredSentHashes` has the restored blocks. The order of
children within a turn is that of a `HashSet`, so any.

## Runs

| Run | What it asks | Instance | Distinct states |
| --- | --- | --- | --- |
| `write_task` | the invariants and action properties of the task for any messages | 11 blocks, 2 roots, 4 forks | 13,332 |
| `checkpoint_sync` | checkpoint sync with corrupt and repeated blocks, reset, hand-off | 7 requests | 13,889 |
| `state_service` | full verification: resent bodies, invalidate, reconsider, finalization, failed sends | 7 requests | 93,662 |
| `restored_start` | a start with two chains from the backup: extending, forking, pruning and finalizing them | 7 requests | 106,106 |
| `service_liveness` | responses and the end of the task, under fairness | 7 requests | 7,723 |

What the runs show, in words:

* **Chains.** `ChainsExtendFinalized`, `IndexesMatchBlocks` and `TotalsMatchBlocks`: a
  chain is the part of a path above the database, with exactly the indexes and totals
  of its blocks, after any sequence of operations. `FinalizedBlocksAreChildren`: the
  assertions of `commit_finalized_direct` never fail.
* **Validity.** `NoDoubleSpend` and `SpendsAreFunded`, although `reconsider_block`
  replays blocks without `transparent_spend` and without the lookup of nullifiers in the
  database. `KnownBlocksAreValid` and `RecordsArePaths` say why this is sound,
  `ReplaySucceeds` that the assertions and errors of `Chain::push` never hit a replay.
* **Limits.** `FinalizedBlocksAreDeep`, `BestWorkNeverDecreases`.
* **Invalidated blocks.** `InvalidatedBlocksStayOut`: no commit brings back a block that
  has a record. `RecordsAreKept`: a record is lost only if it is reconsidered, overwritten
  by an invalidation at the same height, evicted as the oldest of a full map, or below the
  finalized tip; a reconsideration that fails leaves it alone. One of these cases deserves
  attention: at the fork limit a reconsidered chain can be the weakest, and is then dropped
  together with its record although the request succeeds.
* **Publication.** `PublishedTipIsBest`, also in the middle of finalization.
* **Responses.** `WaitingRequestsAreHeld`: a caller waits exactly as long as one queue
  or channel holds its response channel. `SentRequestsAreAnswered`, `DropEndsTask`.
* **Agreement of the two threads.** `SentHashesAreNotStale`, `ParentsAreSentFirst`,
  `NoStaleParentError`, `ResetIsCurrent`, `CheckpointsAreConnected`.
  `QueuedBlocksLackParents`: no block is left in the queue when its parent has been sent or
  is the finalized tip, after the hand-off from checkpoint sync, after a restored start, and
  while finalization moves the tip between the steps of a call.

Deadlock is not checked: a service that is dropped stops, a task that panicked stops,
and the requests of an instance are finite.

**Bounds.** The reorg limit is 2 (1 with checkpoints), so blocks become final with
forks above and beside them; the fork limit is 2, so a third fork evicts one; the limit
of records is 2, so records are evicted and, with invalidations at one height,
overwritten. The parent error map holds 1 or 2 hashes, so it also evicts. The tree of
`MCWriteTask` has a repeated nullifier, a repeated spend on the same path and one on
another fork, an output of another branch, an output spent in its own block, an overdrawn
pool, a heavy side root, and a fork long enough to finalize blocks above an old record. Each request is made once; two requests with different
bodies for a block stand for a resent block. Every property was also checked to fail
when the code it is about is changed in a plausible way; these changes are the
definitions marked "Mutant of".

**Fairness.** `FairServiceSpec` has weak fairness of the steps of the task and of the
steps that continue a call. The task is a thread of its own that blocks only on its
channels, and a call of the service runs to its end without awaiting. No fairness is
assumed of callers: `SentRequestsAreAnswered` says nothing of a block whose parent never
arrives, and of a message for the non-finalized state only after the sender of checkpoint
blocks has been dropped, because the task does not look at that channel earlier.

## Disagreements between comments and code

Seven runs state what a comment says and find a behaviour of the code that differs.

| Run | The comment | The behaviour |
| --- | --- | --- |
| `reorg_bound` | the reorg limit "bounds the length of the best non-finalized chain" | after an invalidate or reconsider message the best chain can be longer until the next commit |
| `invalidate_removes_block` | a block and its descendants are invalidated | if the block is a root, side chains keep it |
| `stays_populated` | "once the non-finalized state becomes active, it is always populated" | invalidating the root of the only chain empties it, and the channel update panics |
| `records_above_tip` | records "at or below" the finalized height are removed | `>=` keeps those at that height |
| `newer_request` | a newer request replaces the older one | it gets the response, the older body stays queued |
| `invalidate_checkpointing` | invalidation is refused during checkpoint sync | it is sent, and waits for the second loop of the task |
| `batch_order` | batches of sent hashes are in height order, sent breadth-first | a stack makes it depth-first, so `prune_by_height` can stop early |

## Proofs

`WriteTaskProofs` proves, for every finite block tree, every set of checkpointed blocks
on one path, every set of restored chains and every value of the limits, about `Spec` of `WriteTask`:

| Theorem | Statement |
| --- | --- |
| `Inductive` | `Spec => []IndInv` |
| `TypeCorrect` | `Spec => []TypeOK` |
| `ChainsArePaths` | `Spec => []ChainsExtendFinalized` |
| `IndexesAreExact` | `Spec => []IndexesMatchBlocks` |
| `RecordsAreReplayable` | `Spec => []RecordsArePaths` |
| `FinalizedBlocksConnect` | `Spec => []FinalizedBlocksAreChildren` |
| `NoDoubleSpends` | `Spec => []NoDoubleSpend` |
| `SpendsHaveOutputs` | `Spec => []SpendsAreFunded` |

The argument. `NoDoubleSpend` is not inductive: a replay of invalidated blocks checks
almost nothing. `IndInv` therefore adds that every block the node knows (final, on a
chain, or in a record) passed checks equivalent to a check against *all* its ancestors
(`KnownBlocksAreValid`), and that records are gapless parts of paths
(`RecordsArePaths`). For the commit checks to have that meaning, the indexes of a chain
must be exactly those of its blocks, and the chain and the database exactly the path
below the new block; these are two more conjuncts. The conjunct `CheckpointsComeFirst`
keeps checkpoint blocks from moving the database underneath chains: while the task is in
its first loop there are no chains, or, after a restored start, no checkpoint block is
missing from the database.

`ChainProofs` shows that each operation of a chain keeps the relation `OnPath` of a
chain, a database and an end: blocks, indexes and validity in one formula.
`ValidBlocksAreDisjoint` is the key fact for reverts: valid blocks of one path share no
index entries, so removing those of some blocks leaves those of the others.
`WriteTaskProofs` restates `IndInv` with `OnPath` (`SoundForm`), shows what a successful
commit establishes (`CommitIsValid`), and then takes the actions one at a time.

Assumptions, all evaluated by TLC on every run: the block tree is a finite tree with
heights (`TreeAssumption`, `AncestorsAssumption`), outputs are created once on a path
(`TransferAssumption`), sums of integers are integers (`TotalAssumption`), the checkpoint
list names valid blocks of one path (`CheckpointAssumption`), a backup has valid chains above
the last checkpoint (`RestoredAssumption`), limits are positive. The
transitivity of `Ancestors` would follow from its recursive equation by induction, and
`TotalAssumption` by induction on finite sets; both inductions are beyond the prover.

Only model-checked: `TotalsMatchBlocks` and what depends on totals, `ReplaySucceeds`,
`PublishedTipIsBest`, the action properties, everything about `StateService`, and
liveness, which is beyond the prover.

## Plan

In order of importance; the first four are done.

1. `Chain`, `NonFinalizedState`, `WriteTask` with the run `write_task`.
2. `StateService` composed with the task, and its four runs.
3. `ChainProofs`, `WriteTaskProofs`.
4. The comments the code does not keep, as runs of their own.
5. `Ledger`: an abstract append-only ledger with a set of candidate branches. The write
   task implements it (finalized blocks only ever grow along a path; the published tip
   extends them), and `ServiceSpec` implements `Spec` of the task. Both as properties of
   runs first, then as theorems.
6. `ChainTip`: `ChainTipSender`, `LatestChainTip` and `ChainTipChange` fed by the task. A
   consumer hears of every rollback as a reset, growth is reported only for the child of
   the last change, and mixing both ways to wait loses nothing. Two consumers, 5 blocks.
7. `PendingUtxos`: `AwaitUtxo` against a block that moves from the queue to the task to a
   chain; a request is answered once the output is known. Composed with `StateService`.
8. `Readers`: a snapshot of the watch channel combined with the live database.
9. `Backup`: publication, withdrawal and removal as separate steps of a volatile and a
   durable directory; a crash between any two. A restart finds covered blocks or none.
10. `CheckpointVerifier`: queues per height, range processing, reset. Its assertions never
    fail, and a range that failed to commit is verified again. Composed with a state that
    commits late or fails. 4 heights, 2 checkpoints.
11. `BatchWorker` (with the fallback future): every request is answered, batches and
    permits stay within limits, a failed worker drains its channel. 3 requests, 1 or 2
    batches.
12. `Journal` and `Currentness` of the merge miner: append, failed sync, poisoning and
    replay as an implementation of an atomic log; a closed generation never reopens.
13. `MempoolDownloads`, `MempoolStorage`, `SyncDownloads`: handles, slots and limits under
    cancellation and time-outs.
14. `Emission`: the subsidy as functions, with reduced parameters, against a reference.
15. `Connection`: one peer connection, last because its control is the largest.

Theorems to add: `TotalsMatchBlocks` from the additivity of `Total`; `PublishedTipIsBest`,
`FinalizedBlocksAreDeep` and `InvalidatedBlocksStayOut` from `IndInv` and the order of
chains; the step simulation of the ledger; the safety invariants of `ChainTip`,
`Backup`, `BatchWorker` and `Journal`.

## Not modelled

* Note commitment and history trees, anchors, address indexes: functions of the blocks of
  a chain. They grow and shrink with `Push` and `Revert` like the modelled indexes.
* RocksDB, format upgrades, metrics and logging: a commit is one step of the database.
  A crash of the node loses the non-finalized state; a start can restore chains from a
  backup, but how the backup is written is item 9.
* Width of work and value pools: work and pools are unbounded integers here. The code
  uses checked arithmetic; its overflow panic and its amount limits are not modelled,
  apart from the lower limit of a pool.
* Semantic verification, scripts, proofs and encodings: checks of single values.
* Peer selection, address book: heuristics over random choices.
* RPC, wallet, genesis and auxiliary proof of work crates, tools, tests and vendored code.
