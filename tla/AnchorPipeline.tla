--------------------------- MODULE AnchorPipeline ---------------------------
(***************************************************************************)
(* The anchoring pipeline of layer 3: a Redis list of pending records, the *)
(* scheduler of every replica (layer3/pipeline/scheduler.py), which drains *)
(* the list, builds a batch and hands it to the submitter                  *)
(* (layer3/pipeline/anchor_submitter.py), the account the submitters share,*)
(* and the contract BatchAnchor.                                           *)
(*                                                                         *)
(* One action is the code between two awaits whose effects another process *)
(* can see.  Reads that commute with everything else are merged with the   *)
(* step that follows them: one Prepare stands for getTransactionCount, the *)
(* base fee and estimateGas.                                               *)
(***************************************************************************)
EXTENDS BatchAnchor, FiniteSets, Functions

CONSTANTS
    Records,       \* batch records sessions enqueue
    Schedulers,    \* replicas running run_anchor_scheduler on one Redis
    Unconfigured,  \* those started without a key or a contract address
    Deployer,      \* the account of DEPLOYER_PRIVATE_KEY
    NumProviders,  \* how many of the two RPC URLs are set
    MaxBatches,    \* bound: batches ever built
    MaxFaults      \* bound: failures of each kind

FaultKinds == {"rpc", "timeout", "drop", "crash", "redis"}

ASSUME BoundsAssumption ==
    /\ MaxBatches \in Nat
    /\ BatchIds = 1..MaxBatches
    /\ MaxFaults \in [FaultKinds -> Nat]

ASSUME ConfigurationAssumption ==
    /\ NumProviders \in 0..2
    /\ Unconfigured \subseteq Schedulers

VARIABLES
    pending,    \* the Redis list anchor:pending_records
    sched,      \* per scheduler: the locals of build_and_submit_batch
    batches,    \* the BatchResults built so far; a batch's id is its index
    mempool,    \* transactions sent and not mined: [nonce, batch]
    mined,      \* the account's transactions, by nonce + 1: [batch, ok]
    \* history, read by no action
    enqueued,   \* every record enqueue_batch_record has stored
    abandoned,  \* records a scheduler let go of with neither receipt nor requeue
    unacked,    \* batches sent to the network by an attempt that then raised
    faults      \* failures so far, by kind

schedVars == <<pending, sched, batches>>
chainVars == <<mempool, mined, anchors, anchorCount>>
history == <<enqueued, abandoned, unacked>>
vars == <<pending, sched, batches, mempool, mined, anchors, anchorCount,
          enqueued, abandoned, unacked, faults>>

\* Between two cycles run_anchor_scheduler holds nothing.
Idle == [phase |-> "idle", raw |-> <<>>, batch |-> 0, failed |-> 0, nonce |-> 0]

Fault(kind) ==
    /\ faults[kind] < MaxFaults[kind]
    /\ faults' = [faults EXCEPT ![kind] = @ + 1]

Init ==
    /\ ContractInit
    /\ pending = <<>>
    /\ sched = [s \in Schedulers |-> Idle]
    /\ batches = <<>>
    /\ mempool = {}
    /\ mined = <<>>
    /\ enqueued = {}
    /\ abandoned = {}
    /\ unacked = {}
    /\ faults = [k \in FaultKinds |-> 0]

-----------------------------------------------------------------------------
(***************************************************************************)
(* The queue and the scheduler's cycle.                                    *)
(***************************************************************************)
Enqueue(r) ==
    /\ r \notin enqueued
    /\ enqueued' = enqueued \cup {r}
    /\ pending' = Append(pending, r)
    /\ UNCHANGED <<sched, batches, chainVars, abandoned, unacked, faults>>

LeaveQueue == UNCHANGED pending

EmptyQueue == pending' = <<>>

\* One batch of all drained records, under a fresh uuid.
BuildBatch == batches' = Append(batches, pending)

\* LRANGE and DEL in one MULTI/EXEC, then the batch.
DrainInto(s, locals) ==
    /\ sched[s].phase = "idle"
    /\ pending # <<>>
    /\ Len(batches) < MaxBatches
    /\ EmptyQueue
    /\ BuildBatch
    /\ sched' = [sched EXCEPT ![s] = locals]

Drain(s) ==
    /\ s \notin Unconfigured
    /\ DrainInto(s, [phase |-> "built", raw |-> pending,
                     batch |-> Len(batches) + 1, failed |-> 0, nonce |-> 0])
    /\ UNCHANGED <<chainVars, history, faults>>

\* Without a key or an address the built batch is returned, and dropped.
DrainUnconfigured(s) ==
    /\ s \in Unconfigured
    /\ DrainInto(s, Idle)
    /\ abandoned' = abandoned \cup Range(pending)
    /\ UNCHANGED <<chainVars, enqueued, unacked, faults>>

\* The EXEC runs and its reply is lost, or one of the records it gave cannot be
\* parsed, as when another version wrote it: the loop logs it and sleeps.
DrainReplyLost(s) ==
    /\ Fault("redis")
    /\ sched[s].phase = "idle"
    /\ pending # <<>>
    /\ EmptyQueue
    /\ abandoned' = abandoned \cup Range(pending)
    /\ UNCHANGED <<sched, batches, chainVars, enqueued, unacked>>

Release(s) == sched' = [sched EXCEPT ![s] = Idle]

\* AnchorSubmissionError: one RPUSH per record, then the loop sleeps.
StartRequeue(s) == sched' = [sched EXCEPT ![s].phase = "requeue"]

AfterRequeue(s) ==
    IF Len(sched[s].raw) = 1
    THEN Release(s)
    ELSE sched' = [sched EXCEPT ![s].raw = Tail(@)]

Requeue(s) ==
    /\ sched[s].phase = "requeue"
    /\ sched[s].raw # <<>>
    /\ pending' = Append(pending, Head(sched[s].raw))
    /\ AfterRequeue(s)
    /\ UNCHANGED <<batches, chainVars, history, faults>>

\* An RPUSH raises, with or without having been applied; the rest is lost.
RequeueFails(s) ==
    /\ Fault("redis")
    /\ sched[s].phase = "requeue"
    /\ sched[s].raw # <<>>
    /\ \/ /\ UNCHANGED pending
          /\ abandoned' = abandoned \cup Range(sched[s].raw)
       \/ /\ pending' = Append(pending, Head(sched[s].raw))
          /\ abandoned' = abandoned \cup Range(Tail(sched[s].raw))
    /\ Release(s)
    /\ UNCHANGED <<batches, chainVars, enqueued, unacked>>

\* The process dies, or the lifespan cancels the task, in mid-cycle.
Crash(s) ==
    /\ Fault("crash")
    /\ sched[s].phase # "idle"
    /\ abandoned' = abandoned \cup Range(sched[s].raw)
    /\ Release(s)
    /\ UNCHANGED <<pending, batches, chainVars, enqueued, unacked>>

-----------------------------------------------------------------------------
(***************************************************************************)
(* submit_anchor: one attempt per configured provider.                     *)
(***************************************************************************)
SkipsLast(s) == sched[s].phase = "built" /\ sched[s].failed + 1 < NumProviders

Trying(s) == sched[s].phase = "built" /\ sched[s].failed < NumProviders

AttemptFailed(s) ==
    sched' = [sched EXCEPT ![s].phase = "built", ![s].failed = @ + 1, ![s].nonce = 0]

NonceRange == 0..(2 * MaxBatches)

NonceFree(n) == \A tx \in mempool : tx.nonce # n

\* eth_getTransactionCount(account, "pending")
PendingNonce(n) ==
    /\ n >= Len(mined)
    /\ NonceFree(n)
    /\ \A k \in Len(mined)..(n - 1) : ~NonceFree(k)

Prepare(s) ==
    /\ Trying(s)
    /\ Accepts(Deployer, sched[s].batch)
    /\ \E n \in NonceRange :
         /\ PendingNonce(n)
         /\ sched' = [sched EXCEPT ![s].phase = "signed", ![s].nonce = n]
    /\ UNCHANGED <<pending, batches, chainVars, history, faults>>

\* eth_estimateGas executes the call, and fails if the contract reverts.
EstimateReverts(s) ==
    /\ Trying(s)
    /\ ~Accepts(Deployer, sched[s].batch)
    /\ AttemptFailed(s)
    /\ UNCHANGED <<pending, batches, chainVars, history, faults>>

RetriesForever(s) == sched[s].phase \in {"built", "signed"}

Calling(s) == Trying(s) \/ sched[s].phase = "signed"

\* A call up to and including the send fails, and nothing has been sent.
RpcFails(s) ==
    /\ Fault("rpc")
    /\ Calling(s)
    /\ AttemptFailed(s)
    /\ UNCHANGED <<pending, batches, chainVars, history>>

\* The network takes neither a used nonce nor, the tip being a constant, a
\* replacement of a transaction it already holds; a gap in the nonces it takes.
Sendable(s) ==
    /\ sched[s].phase = "signed"
    /\ sched[s].nonce >= Len(mined)
    /\ NonceFree(sched[s].nonce)

SignedTx(s) == [nonce |-> sched[s].nonce, batch |-> sched[s].batch]

Send(s) ==
    /\ Sendable(s)
    /\ mempool' = mempool \cup {SignedTx(s)}
    /\ sched' = [sched EXCEPT ![s].phase = "polling"]
    /\ UNCHANGED <<pending, batches, mined, contractVars, history, faults>>

\* Another replica signed with the same nonce and was faster.
SendRejected(s) ==
    /\ sched[s].phase = "signed"
    /\ ~Sendable(s)
    /\ AttemptFailed(s)
    /\ UNCHANGED <<pending, batches, chainVars, history, faults>>

\* The transaction is taken and the reply is lost: the attempt counts as failed.
SendReplyLost(s) ==
    /\ Fault("rpc")
    /\ Sendable(s)
    /\ mempool' = mempool \cup {SignedTx(s)}
    /\ unacked' = unacked \cup {sched[s].batch}
    /\ AttemptFailed(s)
    /\ UNCHANGED <<pending, batches, mined, contractVars, enqueued, abandoned>>

HasReceipt(s) ==
    /\ sched[s].phase = "polling"
    /\ sched[s].nonce < Len(mined)
    /\ mined[sched[s].nonce + 1].batch = sched[s].batch

Confirm(s) ==
    /\ HasReceipt(s)
    /\ mined[sched[s].nonce + 1].ok
    /\ Release(s)
    /\ UNCHANGED <<pending, batches, chainVars, history, faults>>

Reverted(s) ==
    /\ HasReceipt(s)
    /\ ~mined[sched[s].nonce + 1].ok
    /\ AttemptFailed(s)
    /\ UNCHANGED <<pending, batches, chainVars, history, faults>>

\* A poll raises something other than RuntimeError.
PollFails(s) ==
    /\ Fault("rpc")
    /\ sched[s].phase = "polling"
    /\ unacked' = unacked \cup {sched[s].batch}
    /\ AttemptFailed(s)
    /\ UNCHANGED <<pending, batches, chainVars, enqueued, abandoned>>

TimeoutIsFailure(s) == AttemptFailed(s) /\ UNCHANGED abandoned

\* _wait_for_receipt gives None, and the batch is reported as committed.
TreatAsCommitted(s) ==
    /\ Release(s)
    /\ abandoned' = abandoned \cup Range(sched[s].raw)

ReceiptTimeout(s) ==
    /\ Fault("timeout")
    /\ sched[s].phase = "polling"
    /\ TreatAsCommitted(s)
    /\ UNCHANGED <<pending, batches, chainVars, enqueued, unacked>>

\* Every provider has failed (or none is set): AnchorSubmissionError.
GiveUp(s) ==
    /\ sched[s].phase = "built"
    /\ sched[s].failed >= NumProviders
    /\ StartRequeue(s)
    /\ UNCHANGED <<pending, batches, chainVars, history, faults>>

-----------------------------------------------------------------------------
(***************************************************************************)
(* Base L2, outside this code: the sequencer takes the account's           *)
(* transactions in the order of their nonces, and may drop one.            *)
(***************************************************************************)
Mine(tx) ==
    /\ tx.nonce = Len(mined)
    /\ mempool' = mempool \ {tx}
    /\ mined' = Append(mined, [batch |-> tx.batch, ok |-> Accepts(Deployer, tx.batch)])
    /\ IF Accepts(Deployer, tx.batch)
       THEN AnchorBatch(tx.batch, batches[tx.batch], Len(mined) + 1)
       ELSE UNCHANGED contractVars
    /\ UNCHANGED <<schedVars, history, faults>>

Drop(tx) ==
    /\ Fault("drop")
    /\ mempool' = mempool \ {tx}
    /\ UNCHANGED <<schedVars, mined, contractVars, history>>

-----------------------------------------------------------------------------
\* What scheduler s does when nothing fails that the code could not prevent.
Progress(s) ==
    \/ Drain(s) \/ DrainUnconfigured(s) \/ Requeue(s)
    \/ Prepare(s) \/ EstimateReverts(s) \/ Send(s) \/ SendRejected(s)
    \/ Confirm(s) \/ Reverted(s) \/ ReceiptTimeout(s) \/ GiveUp(s)

Failure(s) ==
    \/ DrainReplyLost(s) \/ RequeueFails(s) \/ Crash(s)
    \/ RpcFails(s) \/ SendReplyLost(s) \/ PollFails(s)

MineNext == \E tx \in mempool : Mine(tx)

Next ==
    \/ \E r \in Records : Enqueue(r)
    \/ \E s \in Schedulers : Progress(s) \/ Failure(s)
    \/ MineNext
    \/ \E tx \in mempool : Drop(tx)

Spec == Init /\ [][Next]_vars

\* The event loop keeps running every scheduler's task, and the sequencer
\* keeps producing blocks.
Fairness ==
    /\ \A s \in Schedulers : WF_vars(Progress(s))
    /\ WF_vars(MineNext)

FairSpec == Spec /\ Fairness

-----------------------------------------------------------------------------
(***************************************************************************)
(* Properties.                                                             *)
(***************************************************************************)
Phases == {"idle", "built", "signed", "polling", "requeue"}

Locals == [phase : Phases, raw : Seq(Records), batch : 0..MaxBatches,
           failed : 0..NumProviders, nonce : NonceRange]

Transactions == [nonce : NonceRange, batch : BatchIds]

\* The type invariant; "failed" in its range says that submit_anchor never
\* tries a third provider.
TypeOK ==
    /\ pending \in Seq(Records)
    /\ sched \in [Schedulers -> Locals]
    /\ batches \in Seq(Seq(Records))
    /\ Len(batches) <= MaxBatches
    /\ mempool \subseteq Transactions
    /\ mined \in Seq([batch : BatchIds, ok : BOOLEAN])
    /\ anchors \in [BatchIds -> [root : Seq(Records), timestamp : Nat]]
    /\ anchorCount \in Nat
    /\ enqueued \subseteq Records
    /\ abandoned \subseteq Records
    /\ unacked \subseteq BatchIds
    /\ faults \in [FaultKinds -> Nat]

Held == UNION {Range(sched[s].raw) : s \in Schedulers}

OnChain == UNION {Range(anchors[b].root) : b \in Anchored}

\* No record disappears: one that was enqueued is in the queue, in a
\* scheduler's hands or on the chain, unless a scheduler let go of it in one
\* of the places that abandon records (crash or cancellation, a Redis error,
\* a receipt timeout, a worker without a key).  RPC errors, reverts, dropped
\* transactions and nonce races between replicas lose nothing by themselves
\* (build_and_submit_batch, the except clause).
NoRecordLost == enqueued \subseteq Range(pending) \cup Held \cup OnChain \cup abandoned

\* Records have one owner: the queue and the schedulers' batches hold no
\* record twice, even while one replica requeues record by record and another
\* drains (the atomic LRANGE and DEL of build_and_submit_batch).
SingleCustody ==
    /\ IsInjective(pending)
    /\ \A s \in Schedulers :
         /\ IsInjective(sched[s].raw)
         /\ Range(sched[s].raw) \cap Range(pending) = {}
         /\ \A t \in Schedulers \ {s} :
              Range(sched[s].raw) \cap Range(sched[t].raw) = {}

\* A record is anchored a second time only when an earlier batch holding it
\* was sent by an attempt that raised afterwards: a lost reply or a failed poll
\* (submit_anchor's except clause cannot tell "not sent" from "sent").
AnchoredTwiceOnlyIfUnacked ==
    \A b, c \in Anchored :
        b < c /\ Range(anchors[b].root) \cap Range(anchors[c].root) # {}
            => b \in unacked

\* The pipeline is an append-only ledger of distinct, accepted records, though
\* one batch may reach the contract in several transactions (anchorBatch).
Ledger == INSTANCE AnchorLedger WITH
    accepted <- enqueued, ledger <- anchors, count <- anchorCount

LedgerSpec == Ledger!Spec

\* With a chain that answers within the minute and no crash, every enqueued
\* record gets anchored, through RPC errors, requeues and replicas that race
\* for nonces (run_anchor_scheduler's retry by requeueing).
EventuallyAnchored == \A r \in Records : r \in enqueued ~> r \in OnChain

\* Whatever fails, a record does not stay in the queue or in a batch for ever:
\* it is anchored, or abandoned.
EventuallySettled ==
    \A r \in Records : r \in enqueued ~> r \in OnChain \cup abandoned

\* README.md:194, "On failure: re-enqueues all records for next cycle": the
\* records of a batch whose transaction the network no longer holds, and which
\* is not on the chain, are in the queue or still in a scheduler's hands.
FailureRequeues ==
    \A i \in DOMAIN batches :
        (\A tx \in mempool : tx.batch # i) =>
            Range(batches[i]) \subseteq Range(pending) \cup Held \cup OnChain
=============================================================================
