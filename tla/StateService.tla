---------------------------- MODULE StateService ----------------------------
(***************************************************************************)
(* The state service in front of the block write task                      *)
(* (zebra-state/src/service.rs, service/queued_blocks.rs and write.rs):    *)
(* blocks arrive in any order, wait in a queue for their parents, and go   *)
(* to the task through channels.  Two more channels bring back the hashes  *)
(* of rejected blocks and the tip to restart checkpoint sync from.         *)
(*                                                                         *)
(* A request is a member of Request.  It is made at most once, and its     *)
(* oneshot response channel is the entry of the request in answer.  Two    *)
(* requests for one block can carry different bodies: a hash commits to    *)
(* the header, and the authorizing data of a body is checked late.         *)
(*                                                                         *)
(* A call of the service is one step up to each of its reads of the        *)
(* database, which the task writes at the same time.                       *)
(***************************************************************************)
EXTENDS WriteTask, SequencesExt

CONSTANTS
  Request,    \* the requests that callers make
  Kind,       \* "checkpoint", "commit", "invalidate" or "reconsider"
  BlockOf,    \* the hash that a request is about
  BodyIsValid,\* the body has the authorizing data of the hash, and more
  full_verifier_utxo_lookahead  \* the height where checkpoint sync is nearly done

(* The verifiers send a block to the state as checkpoint verified up to    *)
(* the last checkpoint, and as semantically verified above it.             *)
ASSUME RequestAssumption ==
  /\ Kind \in [Request -> {"checkpoint", "commit", "invalidate", "reconsider"}]
  /\ BlockOf \in [Request -> Block]
  /\ BodyIsValid \in [Request -> BOOLEAN]
  /\ full_verifier_utxo_lookahead \in Nat
  /\ \A q \in Request :
        /\ Kind[q] = "checkpoint" => BlockOf[q] \in Checkpointed
        /\ Kind[q] = "commit" =>
              \A b \in Checkpointed : Height[b] < Height[BlockOf[q]]

VARIABLES
  answer,            \* the response channels of the requests
  service,           \* the part of a call that the service does next
  new_parents,       \* the stack of send_ready_non_finalized_queued
  queued_blocks,     \* non_finalized_state_queued_blocks
  finalized_queue,   \* finalized_state_queued_blocks
  finalized_open,    \* block_write_sender.finalized is Some
  last_sent_hash,    \* finalized_block_write_last_sent_hash
  sent_hashes,       \* non_finalized_block_write_sent_hashes
  finalized_channel, \* checkpoint verified blocks on the way to the task
  write_channel,     \* NonFinalizedWriteMessages on the way to the task
  reset_channel,     \* invalid_block_write_reset
  rejected_channel   \* non_finalized_rejected

queueVars == <<queued_blocks, finalized_queue>>
channelVars == <<finalized_channel, write_channel, reset_channel, rejected_channel>>
callVars == <<service, new_parents>>
serviceVars == <<callVars, queueVars, finalized_open, last_sent_hash, sent_hashes>>
allVars == <<vars, answer, serviceVars, channelVars>>

(***************************************************************************)
(* Requests, queues and channels.  An entry of queued_blocks and a message *)
(* of write_channel has the request that gets the response, and the        *)
(* request that brought the block.                                         *)
(***************************************************************************)
Entry == [req : Request, body : Request]

EntryBlock(e) == BlockOf[e.body]

(* The responses after all requests of Q are answered.                     *)
Answer(Q, result) == [q \in Request |-> IF q \in Q THEN result ELSE answer[q]]

Requests(entries) == {e.req : e \in entries}

(* The receivers of the task are gone, and a send returns an error.        *)
TaskIsGone == writer \in {"panicked", "stopped"}

(***************************************************************************)
(* SentHashes.                                                             *)
(***************************************************************************)
EmptySentHashes(fork) ==
  [sent |-> {}, bufs |-> <<>>, curr_buf |-> <<>>, can_fork_chain_at_hashes |-> fork]

(* Mutant of AddSent: previous_block_hash for hash.                        *)
AddSentParents(s, blocks) ==
  [s EXCEPT !.sent = @ \cup {Parent[blocks[i]] : i \in DOMAIN blocks},
            !.curr_buf = @ \o blocks]

(* add, add_finalized: of the blocks of a sequence, one after the other.   *)
AddSent(s, blocks) ==
  [s EXCEPT !.sent = @ \cup ToSet(blocks), !.curr_buf = @ \o blocks]

(* Mutant of RestoredSentHashes: the chains can not be forked at them.     *)
RestoredWithoutForks ==
  LET chains == SetToSortSeq(chain_set, LAMBDA c, d : Less(d, c))
      inOrder(c) == SetToSortSeq(c.blocks, LAMBDA a, b : Height[a] < Height[b])
  IN  AddSent(EmptySentHashes(FALSE), FlattenSeq([i \in DOMAIN chains |-> inOrder(chains[i])]))

(* SentHashes::new: the blocks of the restored chains, from the best chain *)
(* to the worst, so that a block of two chains is added twice.             *)
RestoredSentHashes ==
  LET chains == SetToSortSeq(chain_set, LAMBDA c, d : Less(d, c))
      inOrder(c) == SetToSortSeq(c.blocks, LAMBDA a, b : Height[a] < Height[b])
  IN  AddSent(EmptySentHashes(chain_set # {}),
              FlattenSeq([i \in DOMAIN chains |-> inOrder(chains[i])]))

(* finish_batch                                                            *)
FinishBatch(s) ==
  [s EXCEPT !.bufs = IF s.curr_buf = <<>> THEN @ ELSE Append(@, s.curr_buf),
            !.curr_buf = <<>>]

(* The entries of a batch from the first one above a height.               *)
PruneBatch(buf, bound) ==
  LET above == {i \in DOMAIN buf : Height[buf[i]] > bound}
  IN  SubSeq(buf, Min(above \cup {Len(buf) + 1}), Len(buf))

(* prune_by_height: stops in each batch at the first block above bound.    *)
PruneSent(s, bound) ==
  LET finished == FinishBatch(s)
      pruned == [i \in DOMAIN finished.bufs |-> PruneBatch(finished.bufs[i], bound)]
      popped(i) == SubSeq(finished.bufs[i], 1, Len(finished.bufs[i]) - Len(pruned[i]))
      expired == UNION {ToSet(popped(i)) : i \in DOMAIN pruned}
  IN  [finished EXCEPT !.bufs = SelectSeq(pruned, LAMBDA buf : buf # <<>>),
                       !.sent = @ \ expired]

(* remove, of the hashes of a set.  It returns early for a hash that is    *)
(* not among the sent ones.                                                *)
RemoveSent(s, hashes) ==
  LET removed == hashes \cap s.sent
      kept(buf) == SelectSeq(buf, LAMBDA b : b \notin removed)
  IN  [s EXCEPT !.sent = @ \ removed, !.curr_buf = kept(@),
                !.bufs = [i \in DOMAIN @ |-> kept(@[i])]]

(* Mutant of DrainRejected: the hashes are received and dropped.           *)
DrainNothing == sent_hashes

(* drain_non_finalized_rejected_hashes                                     *)
DrainRejected == RemoveSent(sent_hashes, ToSet(rejected_channel))

(***************************************************************************)
(* Checkpoint verified blocks.                                             *)
(***************************************************************************)

(* Mutant of ReadyCheckpoints: the blocks need not connect.                *)
ReadyAboveTip(queue, tip) == {q \in queue : Height[BlockOf[q]] > HeightOf(tip)}

(* The queued blocks that connect to tip: drain_finalized_queue_and_commit *)
(* sends them from parent to child.                                        *)
ReadyCheckpoints(queue, tip) ==
  {q \in queue :
     /\ Height[BlockOf[q]] > HeightOf(tip)
     /\ \A x \in Path(BlockOf[q]) :
           Height[x] > HeightOf(tip) => \E p \in queue : BlockOf[p] = x}

(* queue_and_commit_to_finalized_state while the sender is open.  The task *)
(* receives until the sender is dropped, so no send fails.                 *)
QueueCheckpoint(q) ==
  LET replaced == {p \in finalized_queue : Parent[BlockOf[p]] = Parent[BlockOf[q]]}
      queue == (finalized_queue \ replaced) \cup {q}
      tip == IF reset_channel = <<>> THEN last_sent_hash ELSE Head(reset_channel)
      ready == ReadyCheckpoints(queue, tip)
      ordered == SetToSortSeq(ready, LAMBDA p, r : Height[BlockOf[p]] < Height[BlockOf[r]])
  IN  /\ finalized_open
      /\ answer' = [Answer(replaced, "duplicate") EXCEPT ![q] = "waiting"]
      /\ reset_channel' = IF reset_channel = <<>> THEN <<>> ELSE Tail(reset_channel)
      /\ finalized_queue' = queue \ ready
      /\ finalized_channel' = finalized_channel \o ordered
      /\ last_sent_hash' = IF ready = {} THEN tip ELSE BlockOf[Last(ordered)]

(* queue_and_commit_to_finalized_state after the sender is dropped.        *)
RefuseCheckpoint(q) ==
  /\ ~ finalized_open
  /\ answer' = Answer(finalized_queue \cup {q}, "duplicate")
  /\ finalized_queue' = {}
  /\ UNCHANGED <<reset_channel, finalized_channel, last_sent_hash>>

(* Request::CommitCheckpointVerifiedBlock                                  *)
CommitCheckpointVerifiedBlock(q) ==
  /\ service = "idle" /\ answer[q] = "unsent" /\ Kind[q] = "checkpoint"
  /\ sent_hashes' = IF Height[BlockOf[q]] >= full_verifier_utxo_lookahead
                    THEN AddSent(sent_hashes, <<BlockOf[q]>>) ELSE sent_hashes
  /\ QueueCheckpoint(q) \/ RefuseCheckpoint(q)
  /\ UNCHANGED <<vars, callVars, queued_blocks, finalized_open, write_channel,
                 rejected_channel>>

(***************************************************************************)
(* Semantically verified blocks.                                           *)
(***************************************************************************)

(* queue_and_commit_to_non_finalized_state up to the queue.  The entry of  *)
(* a block that is queued already keeps its body and gets a new request.   *)
CommitSemanticallyVerifiedBlock(q) ==
  LET b == BlockOf[q]
      older == {e \in queued_blocks : EntryBlock(e) = b}
      entry == IF older = {} THEN {[req |-> q, body |-> q]}
               ELSE {[e EXCEPT !.req = q] : e \in older}
  IN  /\ service = "idle" /\ answer[q] = "unsent" /\ Kind[q] = "commit"
      /\ sent_hashes' = DrainRejected
      /\ rejected_channel' = <<>>
      /\ IF b \in sent_hashes'.sent \/ Height[b] <= HeightOf(finalized_tip)
         THEN /\ answer' = Answer({q}, "duplicate")
              /\ UNCHANGED <<callVars, queued_blocks>>
         ELSE /\ answer' = [Answer(Requests(older), "duplicate") EXCEPT ![q] = "waiting"]
              /\ queued_blocks' = (queued_blocks \ older) \cup entry
              /\ service' = "queued"
              /\ new_parents' = <<Parent[b]>>
      /\ UNCHANGED <<vars, finalized_queue, finalized_open, last_sent_hash,
                     finalized_channel, write_channel, reset_channel>>

HasQueuedChildren(p) == \E e \in queued_blocks : Parent[EntryBlock(e)] = p

(* Mutant of CanForkChainAt: every block can be sent.                      *)
CanForkAnywhere(p) == TRUE

(* can_fork_chain_at                                                       *)
CanForkChainAt(p) ==
  \/ sent_hashes.can_fork_chain_at_hashes /\ p \in sent_hashes.sent
  \/ p = finalized_tip

(* Mutant of HandOff: the last checkpoint verified block is on its way.    *)
HandOffEarly ==
  /\ finalized_open /\ HasQueuedChildren(last_sent_hash)
  /\ finalized_open' = FALSE
  /\ sent_hashes' = EmptySentHashes(TRUE)
  /\ service' = "handing off"
  /\ new_parents' = <<last_sent_hash>>

(* Mutant of HandOff: what is queued already is not sent.                  *)
HandOffForgetsQueue ==
  /\ finalized_open /\ HasQueuedChildren(last_sent_hash)
  /\ finalized_tip = last_sent_hash
  /\ finalized_open' = FALSE
  /\ sent_hashes' = EmptySentHashes(TRUE)
  /\ service' = "handing off"
  /\ new_parents' = <<>>

(* The last checkpoint verified block is in the database and a child of it *)
(* is queued: drop the sender, and send what is queued above that block.   *)
HandOff ==
  /\ finalized_open /\ HasQueuedChildren(last_sent_hash)
  /\ finalized_tip = last_sent_hash
  /\ finalized_open' = FALSE
  /\ sent_hashes' = EmptySentHashes(TRUE)
  /\ service' = "handing off"
  /\ new_parents' = <<last_sent_hash>>

(* The queued block is a child of a block that the task has, or will have. *)
StartSending ==
  /\ ~ finalized_open /\ CanForkChainAt(Head(new_parents))
  /\ service' = "sending"
  /\ UNCHANGED <<new_parents, finalized_open, sent_hashes>>

(* The queued block waits for its parent or for the last checkpoint.       *)
WaitForParent ==
  /\ IF finalized_open
     THEN ~ HasQueuedChildren(last_sent_hash) \/ finalized_tip # last_sent_hash
     ELSE ~ CanForkChainAt(Head(new_parents))
  /\ service' = "idle"
  /\ new_parents' = <<>>
  /\ UNCHANGED <<finalized_open, sent_hashes>>

DecideToSend ==
  /\ service = "queued"
  /\ HandOff \/ StartSending \/ WaitForParent
  /\ UNCHANGED <<vars, answer, queueVars, last_sent_hash, channelVars>>

(* One turn of the loop of send_ready_non_finalized_queued: pop a parent,  *)
(* send its queued children in the order of a HashSet, and push them.      *)
(* finish_batch follows the last turn; a send that fails returns early.    *)
SendChildren ==
  LET children == {e \in queued_blocks : Parent[EntryBlock(e)] = Last(new_parents)}
  IN  /\ service \in {"sending", "handing off"}
      /\ new_parents # <<>>
      /\ children = {} \/ ~ TaskIsGone
      /\ \E order \in SetToSeqs(children) :
            LET blocks == [i \in DOMAIN order |-> EntryBlock(order[i])]
                added == AddSent(sent_hashes, blocks)
            IN  /\ write_channel' = write_channel \o order
                /\ new_parents' = Front(new_parents) \o blocks
                /\ sent_hashes' = IF new_parents' = <<>> THEN FinishBatch(added) ELSE added
      /\ queued_blocks' = queued_blocks \ children
      /\ UNCHANGED <<vars, answer, service, finalized_queue, finalized_open, last_sent_hash,
                     finalized_channel, reset_channel, rejected_channel>>

(* Mutant of SendFails: the queue is dropped without a response.           *)
SendFailsSilently ==
  /\ service \in {"sending", "handing off"}
  /\ new_parents # <<>>
  /\ TaskIsGone
  /\ \E e \in queued_blocks :
        /\ Parent[EntryBlock(e)] = Last(new_parents)
        /\ sent_hashes' = AddSent(sent_hashes, <<EntryBlock(e)>>)
  /\ queued_blocks' = {}
  /\ new_parents' = <<>>
  /\ UNCHANGED <<vars, answer, service, finalized_queue, finalized_open, last_sent_hash,
                 channelVars>>

(* A send fails: all queued blocks are dropped.                            *)
SendFails ==
  /\ service \in {"sending", "handing off"}
  /\ new_parents # <<>>
  /\ TaskIsGone
  /\ \E e \in queued_blocks :
        /\ Parent[EntryBlock(e)] = Last(new_parents)
        /\ sent_hashes' = AddSent(sent_hashes, <<EntryBlock(e)>>)
  /\ answer' = Answer(Requests(queued_blocks), "exited")
  /\ queued_blocks' = {}
  /\ new_parents' = <<>>
  /\ UNCHANGED <<vars, service, finalized_queue, finalized_open, last_sent_hash, channelVars>>

(* prune_by_height of both structures.                                     *)
PruneByHeight ==
  LET expired == {e \in queued_blocks : Height[EntryBlock(e)] <= HeightOf(finalized_tip)}
  IN  /\ service = "sending"
      /\ answer' = Answer(Requests(expired), "duplicate")
      /\ queued_blocks' = queued_blocks \ expired
      /\ sent_hashes' = PruneSent(sent_hashes, HeightOf(finalized_tip))
      /\ UNCHANGED finalized_queue

(* Mutant of ClearFinalizedQueue: the queue is dropped without a response. *)
ClearFinalizedQueueSilently ==
  /\ service = "handing off"
  /\ finalized_queue' = {}
  /\ UNCHANGED <<answer, queued_blocks, sent_hashes>>

(* clear_finalized_block_queue                                             *)
ClearFinalizedQueue ==
  /\ service = "handing off"
  /\ answer' = Answer(finalized_queue, "duplicate")
  /\ finalized_queue' = {}
  /\ UNCHANGED <<queued_blocks, sent_hashes>>

FinishSending ==
  /\ new_parents = <<>>
  /\ PruneByHeight \/ ClearFinalizedQueue
  /\ service' = "idle"
  /\ UNCHANGED <<vars, new_parents, finalized_open, last_sent_hash, channelVars>>

(***************************************************************************)
(* Other requests, and the end of the service.                             *)
(***************************************************************************)

(* send_invalidate_block, send_reconsider_block                            *)
SendToTask(q) ==
  /\ service = "idle" /\ answer[q] = "unsent" /\ Kind[q] \in {"invalidate", "reconsider"}
  /\ IF TaskIsGone
     THEN answer' = Answer({q}, "exited") /\ UNCHANGED write_channel
     ELSE /\ answer' = Answer({q}, "waiting")
          /\ write_channel' = Append(write_channel, [req |-> q, body |-> q])
  /\ UNCHANGED <<vars, serviceVars, finalized_channel, reset_channel, rejected_channel>>

(* Request::KnownBlock and Request::AwaitUtxo drain the rejected hashes.   *)
KnownBlock ==
  /\ service = "idle" /\ rejected_channel # <<>>
  /\ sent_hashes' = DrainRejected
  /\ rejected_channel' = <<>>
  /\ UNCHANGED <<vars, answer, callVars, queueVars, finalized_open, last_sent_hash,
                 finalized_channel, write_channel, reset_channel>>

(* Drop for StateService: close the channels, clear the queues.            *)
Drop ==
  /\ service = "idle"
  /\ service' = "dropped"
  /\ answer' = Answer(finalized_queue \cup Requests(queued_blocks), "exited")
  /\ queued_blocks' = {} /\ finalized_queue' = {}
  /\ finalized_open' = FALSE
  /\ UNCHANGED <<vars, new_parents, last_sent_hash, sent_hashes, channelVars>>

(***************************************************************************)
(* The write task, with the messages that the channels bring it.           *)
(***************************************************************************)

(* Mutant of ReceiveCheckpoint: a block at a wrong height sends a reset.   *)
ReceiveCheckpointAlwaysResets ==
  /\ writer = "checkpointing" /\ finalized_channel # <<>> /\ service # "dropped"
  /\ LET q == Head(finalized_channel)
     IN  \/ /\ ~ (IsNextHeight(BlockOf[q]) /\ BodyIsValid[q])
            /\ answer' = Answer({q}, "rejected")
            /\ reset_channel' = Append(reset_channel, finalized_tip)
            /\ UNCHANGED vars
         \/ /\ BodyIsValid[q] /\ CommitCheckpoint(BlockOf[q])
            /\ answer' = Answer({q}, "committed")
            /\ UNCHANGED reset_channel
  /\ finalized_channel' = Tail(finalized_channel)
  /\ UNCHANGED <<serviceVars, write_channel, rejected_channel>>

(* The first loop of WriteBlockWorkerTask::run: a block at another height  *)
(* than the next is dropped with its response channel, a block that fails  *)
(* makes the service start again from the finalized tip.                   *)
ReceiveCheckpoint ==
  /\ writer = "checkpointing" /\ finalized_channel # <<>> /\ service # "dropped"
  /\ LET q == Head(finalized_channel)
         b == BlockOf[q]
     IN  \/ /\ ~ IsNextHeight(b)
            /\ answer' = Answer({q}, "exited")
            /\ UNCHANGED <<vars, reset_channel>>
         \/ /\ IsNextHeight(b) /\ ~ BodyIsValid[q]
            /\ answer' = Answer({q}, "rejected")
            /\ reset_channel' = Append(reset_channel, finalized_tip)
            /\ UNCHANGED vars
         \/ /\ BodyIsValid[q] /\ CommitCheckpoint(b)
            /\ answer' = Answer({q}, "committed")
            /\ UNCHANGED reset_channel
  /\ finalized_channel' = Tail(finalized_channel)
  /\ UNCHANGED <<serviceVars, write_channel, rejected_channel>>

(* The service has dropped the sender and the channel is empty.            *)
LeaveCheckpoints ==
  /\ finalized_channel = <<>> /\ ~ finalized_open /\ service # "dropped"
  /\ FinishCheckpoints
  /\ UNCHANGED <<answer, serviceVars, channelVars>>

(* Mutant of ReceiveCommit: the service is not told of the rejection.      *)
ReceiveCommitSilently(m) ==
  /\ Kind[m.req] = "commit"
  /\ \/ /\ RejectCommit(EntryBlock(m), BodyIsValid[m.body])
        /\ answer' = Answer({m.req}, "rejected")
     \/ /\ AcceptCommit(EntryBlock(m), BodyIsValid[m.body])
        /\ answer' = Answer({m.req}, "committed")
  /\ write_channel' = Tail(write_channel)
  /\ UNCHANGED rejected_channel

(* A commit message.                                                       *)
ReceiveCommit(m) ==
  LET b == EntryBlock(m)
      valid == BodyIsValid[m.body]
  IN  /\ Kind[m.req] = "commit"
      /\ \/ /\ RejectCommit(b, valid)
            /\ answer' = Answer({m.req}, "rejected")
            /\ rejected_channel' = Append(rejected_channel, b)
         \/ /\ AcceptCommit(b, valid)
            /\ answer' = Answer({m.req}, "committed")
            /\ UNCHANGED rejected_channel
      /\ write_channel' = Tail(write_channel)

(* Mutant of ReceiveInvalidate: a panic keeps the receiver alive.          *)
ReceiveInvalidateLeaks(m) ==
  LET b == EntryBlock(m)
  IN  /\ \/ Kind[m.req] = "invalidate" /\ Invalidate(b)
         \/ Kind[m.req] = "reconsider" /\ Reconsider(b)
      /\ answer' = Answer({m.req}, "committed")
      /\ write_channel' = Tail(write_channel)
      /\ UNCHANGED rejected_channel

(* An invalidate or reconsider message.  The response is sent before the   *)
(* channel update, and a panic there drops the messages in the channel.    *)
ReceiveInvalidate(m) ==
  LET b == EntryBlock(m)
      succeeds == IF Kind[m.req] = "invalidate" THEN InvalidateSucceeds(b)
                  ELSE ReconsiderSucceeds(b)
      responded == Answer({m.req}, IF succeeds THEN "committed" ELSE "rejected")
  IN  /\ \/ Kind[m.req] = "invalidate" /\ Invalidate(b)
         \/ Kind[m.req] = "reconsider" /\ Reconsider(b)
      /\ IF writer' = "panicked"
         THEN /\ answer' = [q \in Request |-> IF q \in Requests(ToSet(Tail(write_channel)))
                                              THEN "exited" ELSE responded[q]]
              /\ write_channel' = <<>>
         ELSE answer' = responded /\ write_channel' = Tail(write_channel)
      /\ UNCHANGED rejected_channel

ReceiveMessage ==
  /\ writer = "receiving" /\ write_channel # <<>>
  /\ ReceiveCommit(Head(write_channel)) \/ ReceiveInvalidate(Head(write_channel))
  /\ UNCHANGED <<serviceVars, finalized_channel, reset_channel>>

FinalizePastReorgLimit ==
  /\ FinalizeBlock \/ FinishFinalizing
  /\ UNCHANGED <<answer, serviceVars, channelVars>>

(* Mutant of TaskExit: the first loop does not look for a closed channel.  *)
TaskExitLate ==
  /\ service = "dropped" /\ writer = "receiving" /\ write_channel = <<>>
  /\ Exit
  /\ answer' = Answer(ToSet(finalized_channel), "exited")
  /\ finalized_channel' = <<>>
  /\ UNCHANGED <<serviceVars, write_channel, reset_channel, rejected_channel>>

(* The service is dropped: the task returns from its first loop at once,   *)
(* from its second loop when the channel is empty.                         *)
TaskExit ==
  /\ service = "dropped" /\ (writer = "checkpointing" \/ write_channel = <<>>)
  /\ Exit
  /\ answer' = Answer(ToSet(finalized_channel) \cup Requests(ToSet(write_channel)), "exited")
  /\ finalized_channel' = <<>> /\ write_channel' = <<>>
  /\ UNCHANGED <<serviceVars, reset_channel, rejected_channel>>

(* StateService::new: with restored chains there is no sender for          *)
(* checkpoint verified blocks.                                             *)
ServiceInit ==
  /\ Init
  /\ answer = [q \in Request |-> "unsent"]
  /\ service = "idle" /\ new_parents = <<>>
  /\ queued_blocks = {} /\ finalized_queue = {}
  /\ finalized_open = (chain_set = {})
  /\ last_sent_hash = finalized_tip
  /\ sent_hashes = RestoredSentHashes
  /\ finalized_channel = <<>> /\ write_channel = <<>>
  /\ reset_channel = <<>> /\ rejected_channel = <<>>

(* The steps of a call after its first.                                    *)
ContinueCall == DecideToSend \/ SendChildren \/ SendFails \/ FinishSending

(* The steps of the task.                                                  *)
TaskStep ==
  ReceiveCheckpoint \/ LeaveCheckpoints \/ ReceiveMessage \/ FinalizePastReorgLimit \/ TaskExit

ServiceNext ==
  \/ \E q \in Request :
        \/ CommitCheckpointVerifiedBlock(q)
        \/ CommitSemanticallyVerifiedBlock(q)
        \/ SendToTask(q)
  \/ KnownBlock
  \/ Drop
  \/ ContinueCall
  \/ TaskStep

ServiceSpec == ServiceInit /\ [][ServiceNext]_allVars

(* The thread of the task and the thread that runs a call are scheduled.   *)
FairServiceSpec == ServiceSpec /\ WF_allVars(TaskStep) /\ WF_allVars(ContinueCall)

(***************************************************************************)
(* Properties.                                                             *)
(***************************************************************************)

(* The type of the queues, of the channels and of SentHashes.              *)
ServiceTypeOK ==
  /\ answer \in [Request -> {"unsent", "waiting", "committed", "rejected",
                             "duplicate", "exited"}]
  /\ service \in {"idle", "queued", "sending", "handing off", "dropped"}
  /\ new_parents \in Seq(Block \cup {Genesis})
  /\ queued_blocks \in SUBSET Entry
  /\ finalized_queue \in SUBSET Request
  /\ finalized_open \in BOOLEAN
  /\ last_sent_hash \in Block \cup {Genesis}
  /\ sent_hashes \in [sent : SUBSET Block, bufs : Seq(Seq(Block)), curr_buf : Seq(Block),
                      can_fork_chain_at_hashes : BOOLEAN]
  /\ finalized_channel \in Seq(Request)
  /\ write_channel \in Seq(Entry)
  /\ reset_channel \in Seq(Block \cup {Genesis})
  /\ rejected_channel \in Seq(Block)

ChannelRequests == ToSet(finalized_channel) \cup Requests(ToSet(write_channel))

QueuedRequests == finalized_queue \cup Requests(queued_blocks)

(* A caller waits exactly as long as a queue or a channel holds its        *)
(* response channel, and only one of them does: a replaced, pruned,        *)
(* dropped or cleared request is always answered.                          *)
WaitingRequestsAreHeld ==
  /\ \A q \in Request : answer[q] = "waiting" <=> q \in ChannelRequests \cup QueuedRequests
  /\ ChannelRequests \cap QueuedRequests = {}
  /\ Cardinality(ChannelRequests) = Len(finalized_channel) + Len(write_channel)

(* The blocks of the chains in the backup.                                 *)
RestoredBlocks == UNION {Path(t) : t \in Restored}

(* The commit of block b was answered with one of results.                 *)
CommitAnswered(b, results) ==
  \E q \in Request : Kind[q] = "commit" /\ BlockOf[q] = b /\ answer[q] \in results

(* A hash that makes the service refuse a block as a duplicate belongs to  *)
(* a block that is on its way to the task, that the task accepted, that    *)
(* was restored, or whose rejection is on its way back: a rejected block   *)
(* can be sent again.                                                      *)
SentHashesAreNotStale ==
  service # "dropped" /\ ~ finalized_open /\ ~ TaskIsGone =>
     \A b \in sent_hashes.sent :
        \/ b \in finalized \cup RestoredBlocks \cup ToSet(rejected_channel)
        \/ \E i \in DOMAIN write_channel :
              Kind[write_channel[i].req] = "commit" /\ EntryBlock(write_channel[i]) = b
        \/ CommitAnswered(b, {"committed"})

(* The task never receives a block before it has received the parent,      *)
(* whatever the order the requests arrive in.                              *)
ParentsAreSentFirst ==
  \A i \in DOMAIN write_channel :
     Kind[write_channel[i].req] = "commit" =>
        LET p == Parent[EntryBlock(write_channel[i])]
        IN  \/ p \in finalized \cup RestoredBlocks \cup {Genesis}
            \/ CommitAnswered(p, {"committed", "rejected"})
            \/ \E j \in 1 .. i - 1 : EntryBlock(write_channel[j]) = p

(* After checkpoint sync no block waits in the queue while the task has    *)
(* its parent or will get it: the parent is neither among the sent hashes  *)
(* nor the finalized tip when a call ends.  Nothing else would ever send   *)
(* the block, so the sync of the chain would stall.                        *)
QueuedBlocksLackParents ==
  service = "idle" /\ ~ finalized_open =>
     \A e \in queued_blocks :
        LET p == Parent[EntryBlock(e)]
        IN  p \notin sent_hashes.sent /\ p # finalized_tip

(* The children of a block on a chain are not refused because of an older  *)
(* rejection of that block: the hashes the service holds back keep the     *)
(* task from rejecting a block that a reconsideration brings back.         *)
NoStaleParentError ==
  \A b \in ToSet(parent_error_map) : ~ OnSomeChain(b, chain_set)

(* A reset brings the finalized tip of the moment it is read, so the       *)
(* service never sends a block that the task has committed since.          *)
ResetIsCurrent ==
  service # "dropped" /\ reset_channel # <<>> =>
     finalized_open /\ reset_channel = <<finalized_tip>>

(* Checkpoint sync cannot get stuck behind a failed block: the blocks from *)
(* the finalized tip to the last one sent are in the channel, or a reset   *)
(* is waiting for the service.                                             *)
CheckpointsAreConnected ==
  finalized_open /\ reset_channel = <<>> =>
     \A b \in Path(last_sent_hash) \ finalized :
        \E i \in DOMAIN finalized_channel : BlockOf[finalized_channel[i]] = b

(* The task answers every checkpoint verified block that reaches its       *)
(* channel, and every message for the non-finalized state once the service *)
(* has dropped the sender of checkpoint verified blocks.                   *)
SentRequestsAreAnswered ==
  \A q \in Request :
     /\ q \in ToSet(finalized_channel) ~> answer[q] # "waiting"
     /\ q \in ChannelRequests /\ ~ finalized_open ~> answer[q] # "waiting"

(* The thread of the task ends after the service is dropped, so the drop   *)
(* of the last read service, which joins it, returns.                      *)
DropEndsTask == service = "dropped" ~> TaskIsGone

(***************************************************************************)
(* Statements of the repository that the code does not keep.               *)
(***************************************************************************)

(* Request::CommitSemanticallyVerifiedBlock: "A request to commit a block  *)
(* which has been queued internally but not yet committed will fail the    *)
(* older request and replace it with the newer request."                   *)
NewerRequestReplacesOlder ==
  \A e \in queued_blocks \cup ToSet(write_channel) : e.body = e.req

(* InvalidateError::ProcessingCheckpointedBlocks: "The state is currently  *)
(* checkpointing blocks and cannot accept invalidation requests."          *)
InvalidateRefusedWhileCheckpointing ==
  \A i \in DOMAIN write_channel :
     finalized_open => Kind[write_channel[i].req] # "invalidate"

(* SentHashes::bufs: "each batch is in increasing height order".           *)
BatchesAreInHeightOrder ==
  \A buf \in ToSet(sent_hashes.bufs) :
     \A i, j \in DOMAIN buf : i < j => Height[buf[i]] <= Height[buf[j]]
=============================================================================
