----------------------- MODULE AnchorPipeline_proofs -----------------------
(***************************************************************************)
(* Proofs about AnchorPipeline, for any number of records, replicas and    *)
(* batches and any number of failures of each kind.                        *)
(***************************************************************************)
EXTENDS AnchorPipeline, TLAPS, SequenceTheorems

(***************************************************************************)
(* The inductive invariant: the properties to prove, and what ties a       *)
(* scheduler's locals, the batches built, the transactions sent and the    *)
(* rows of the contract to each other.                                     *)
(***************************************************************************)
\* An idle scheduler holds nothing; until it requeues, a scheduler holds its
\* batch; while an attempt runs there is a provider it is made with.
LocalsOK(s) ==
    /\ sched[s].phase = "idle" => sched[s].raw = <<>>
    /\ sched[s].phase \in {"built", "signed", "polling"} =>
         /\ sched[s].batch \in 1..Len(batches)
         /\ sched[s].raw = batches[sched[s].batch]
    /\ sched[s].phase \in {"signed", "polling"} => sched[s].failed < NumProviders

LocalsInv == \A s \in Schedulers : LocalsOK(s)

\* Batches are made of distinct records that were enqueued.
BatchesInv ==
    \A i \in 1..Len(batches) :
        /\ batches[i] # <<>>
        /\ IsInjective(batches[i])
        /\ Range(batches[i]) \subseteq enqueued

\* Every transaction carries a batch that was built, one that succeeded has
\* its row, and a row holds the batch it is named after.
ChainInv ==
    /\ \A tx \in mempool : tx.batch <= Len(batches)
    /\ \A i \in 1..Len(mined) :
         /\ mined[i].batch <= Len(batches)
         /\ mined[i].ok => mined[i].batch \in Anchored
    /\ \A b \in Anchored : b <= Len(batches) /\ anchors[b].root = batches[b]

\* What is in the queue or in a scheduler's hands was enqueued.
SourceInv ==
    /\ Range(pending) \subseteq enqueued
    /\ \A s \in Schedulers : Range(sched[s].raw) \subseteq enqueued

IInv ==
    /\ TypeOK
    /\ LocalsInv
    /\ BatchesInv
    /\ ChainInv
    /\ SourceInv
    /\ SingleCustody
    /\ NoRecordLost

-----------------------------------------------------------------------------
(***************************************************************************)
(* Facts about sequences.                                                  *)
(***************************************************************************)
LEMMA RangeEmpty == Range(<<>>) = {} /\ IsInjective(<<>>)
BY DEF Range, IsInjective

LEMMA RangeIn ==
    ASSUME NEW S, NEW q \in Seq(S)
    PROVE  Range(q) \subseteq S
BY DEF Range

LEMMA AppendFacts ==
    ASSUME NEW S, NEW q \in Seq(S), NEW e \in S
    PROVE  /\ Append(q, e) \in Seq(S)
           /\ Range(Append(q, e)) = Range(q) \cup {e}
           /\ IsInjective(q) /\ e \notin Range(q) => IsInjective(Append(q, e))
<1>1. /\ Append(q, e) \in Seq(S)
      /\ Len(Append(q, e)) = Len(q) + 1
      /\ \A i \in 1..Len(q) : Append(q, e)[i] = q[i]
      /\ Append(q, e)[Len(q) + 1] = e
  BY AppendProperties
<1>2. DOMAIN Append(q, e) = 1..(Len(q) + 1) /\ DOMAIN q = 1..Len(q) /\ Len(q) \in Nat
  BY <1>1, LenProperties
<1>3. Range(Append(q, e)) = Range(q) \cup {e}
  BY <1>1, <1>2 DEF Range
<1>4. IsInjective(q) /\ e \notin Range(q) => IsInjective(Append(q, e))
  BY <1>1, <1>2 DEF Range, IsInjective
<1> QED BY <1>1, <1>3, <1>4

LEMMA TailFacts ==
    ASSUME NEW S, NEW q \in Seq(S), q # <<>>
    PROVE  /\ Head(q) \in S
           /\ Tail(q) \in Seq(S)
           /\ Range(q) = {Head(q)} \cup Range(Tail(q))
           /\ IsInjective(q) => IsInjective(Tail(q)) /\ Head(q) \notin Range(Tail(q))
           /\ Len(q) = 1 => Tail(q) = <<>>
<1>1. /\ Head(q) = q[1] /\ Head(q) \in S
      /\ Tail(q) \in Seq(S)
      /\ Len(Tail(q)) = Len(q) - 1
      /\ \A i \in 1..Len(Tail(q)) : Tail(q)[i] = q[i + 1]
  BY HeadTailProperties
<1>2. /\ Len(q) \in Nat \ {0}
      /\ DOMAIN q = 1..Len(q)
      /\ DOMAIN Tail(q) = 1..(Len(q) - 1)
  BY <1>1, LenProperties, EmptySeq
<1>3. Range(q) = {Head(q)} \cup Range(Tail(q))
  <2>1. ASSUME NEW x \in Range(q) PROVE x \in {Head(q)} \cup Range(Tail(q))
    <3>1. PICK i \in 1..Len(q) : x = q[i]
      BY <1>2 DEF Range
    <3>2. CASE i = 1
      BY <3>1, <3>2, <1>1
    <3>3. CASE i # 1
      <4>1. i - 1 \in 1..(Len(q) - 1) /\ Tail(q)[i - 1] = q[i]
        BY <3>3, <1>1, <1>2
      <4> QED BY <4>1, <3>1, <1>2 DEF Range
    <3> QED BY <3>2, <3>3
  <2>2. Head(q) \in Range(q)
    BY <1>1, <1>2 DEF Range
  <2>3. Range(Tail(q)) \subseteq Range(q)
    BY <1>1, <1>2 DEF Range
  <2> QED BY <2>1, <2>2, <2>3
<1>4. ASSUME IsInjective(q)
      PROVE  IsInjective(Tail(q)) /\ Head(q) \notin Range(Tail(q))
  BY <1>1, <1>2, <1>4 DEF IsInjective, Range
<1>5. Len(q) = 1 => Tail(q) = <<>>
  <2>1. Tail(q) # <<>> => Len(Tail(q)) \in Nat \ {0}
    BY <1>1, EmptySeq
  <2> QED BY <2>1, <1>1, <1>2
<1> QED BY <1>1, <1>3, <1>4, <1>5

-----------------------------------------------------------------------------
(***************************************************************************)
(* The initial states.                                                     *)
(***************************************************************************)
LEMMA InitIInv == Init => IInv
<1> SUFFICES ASSUME Init PROVE IInv
  OBVIOUS
<1> USE BoundsAssumption, ConfigurationAssumption
<1>1. Idle \in Locals
  BY DEF Idle, Locals, Phases, NonceRange
<1>2. TypeOK
  BY <1>1 DEF Init, ContractInit, NoAnchor, TypeOK
<1>3. Anchored = {}
  BY DEF Init, ContractInit, NoAnchor, Anchored, BatchAlreadyAnchored
<1>4. LocalsInv
  BY DEF Init, Idle, LocalsInv, LocalsOK
<1>5. BatchesInv /\ ChainInv
  BY <1>3 DEF Init, BatchesInv, ChainInv
<1>6. SourceInv /\ SingleCustody
  BY RangeEmpty DEF Init, Idle, SourceInv, SingleCustody
<1>7. NoRecordLost
  BY DEF Init, NoRecordLost
<1> QED BY <1>2, <1>4, <1>5, <1>6, <1>7 DEF IInv

-----------------------------------------------------------------------------
(***************************************************************************)
(* Frames: what a step keeps because of the variables it leaves alone.     *)
(***************************************************************************)
LEMMA ChainFrame ==
    ASSUME IInv, UNCHANGED <<batches, enqueued, mempool, mined, anchors, anchorCount>>
    PROVE  BatchesInv' /\ ChainInv' /\ OnChain' = OnChain
BY DEF IInv, BatchesInv, ChainInv, OnChain, Anchored, BatchAlreadyAnchored

\* A step of s between "built" and "requeue": it keeps its batch.
LEMMA LocalStep ==
    ASSUME IInv, NEW s \in Schedulers,
           sched' \in [Schedulers -> Locals],
           \A t \in Schedulers \ {s} : sched'[t] = sched[t],
           sched[s].phase \in {"built", "signed", "polling"},
           sched'[s].phase # "idle",
           sched'[s].batch = sched[s].batch,
           sched'[s].raw = sched[s].raw,
           sched'[s].phase \in {"signed", "polling"} => sched'[s].failed < NumProviders,
           UNCHANGED <<pending, batches, enqueued>>
    PROVE  LocalsInv' /\ SourceInv' /\ SingleCustody' /\ Held' = Held
<1>1. \A t \in Schedulers : sched'[t].raw = sched[t].raw
  OBVIOUS
<1>2. LocalsInv'
  BY DEF IInv, LocalsInv, LocalsOK
<1>3. SourceInv' /\ SingleCustody' /\ Held' = Held
  BY <1>1 DEF IInv, SourceInv, SingleCustody, Held
<1> QED BY <1>2, <1>3

\* An attempt that raises hands its batch to the next provider, if any.
LEMMA AttemptFailedStep ==
    ASSUME IInv, NEW s \in Schedulers,
           sched[s].phase \in {"built", "signed", "polling"},
           sched[s].failed < NumProviders,
           AttemptFailed(s),
           UNCHANGED <<pending, batches, enqueued>>
    PROVE  /\ sched' \in [Schedulers -> Locals]
           /\ LocalsInv' /\ SourceInv' /\ SingleCustody' /\ Held' = Held
<1> USE BoundsAssumption, ConfigurationAssumption
<1>1. sched \in [Schedulers -> Locals]
  BY DEF IInv, TypeOK
<1>2. /\ sched' \in [Schedulers -> Locals]
      /\ sched'[s] = [sched[s] EXCEPT !.phase = "built",
                        !.failed = sched[s].failed + 1, !.nonce = 0]
      /\ \A t \in Schedulers \ {s} : sched'[t] = sched[t]
  BY <1>1 DEF AttemptFailed, Locals, Phases, NonceRange
<1>3. /\ sched'[s].phase = "built"
      /\ sched'[s].batch = sched[s].batch
      /\ sched'[s].raw = sched[s].raw
  BY <1>1, <1>2 DEF Locals
<1> QED BY <1>2, <1>3, LocalStep

\* A scheduler that ends its cycle leaves its records behind.
LEMMA ReleaseStep ==
    ASSUME IInv, NEW s \in Schedulers, Release(s), UNCHANGED <<batches, enqueued>>
    PROVE  /\ sched' \in [Schedulers -> Locals]
           /\ LocalsInv'
           /\ \A t \in Schedulers \ {s} : sched'[t] = sched[t]
           /\ sched'[s].raw = <<>>
           /\ Held \subseteq Held' \cup Range(sched[s].raw)
<1> USE BoundsAssumption, ConfigurationAssumption
<1>1. sched \in [Schedulers -> Locals]
  BY DEF IInv, TypeOK
<1>2. Idle \in Locals
  BY DEF Idle, Locals, Phases, NonceRange
<1>3. /\ sched' \in [Schedulers -> Locals]
      /\ sched'[s] = Idle
      /\ \A t \in Schedulers \ {s} : sched'[t] = sched[t]
  BY <1>1, <1>2 DEF Release
<1>4. LocalsInv'
  BY <1>3 DEF IInv, LocalsInv, LocalsOK, Idle
<1>5. sched'[s].raw = <<>>
  BY <1>3 DEF Idle
<1>6. Held \subseteq Held' \cup Range(sched[s].raw)
  BY <1>3 DEF Held
<1> QED BY <1>3, <1>4, <1>5, <1>6

LEMMA FaultType ==
    ASSUME TypeOK, NEW k \in FaultKinds, Fault(k)
    PROVE  faults' \in [FaultKinds -> Nat]
BY BoundsAssumption DEF TypeOK, Fault

-----------------------------------------------------------------------------
(***************************************************************************)
(* The steps of an attempt.                                                *)
(***************************************************************************)
LEMMA AttemptStep ==
    ASSUME IInv, NEW s \in Schedulers,
           \/ Prepare(s) \/ EstimateReverts(s) \/ RpcFails(s) \/ Send(s)
           \/ SendRejected(s) \/ SendReplyLost(s) \/ Reverted(s) \/ PollFails(s)
           \/ GiveUp(s)
    PROVE  IInv'
<1> USE BoundsAssumption, ConfigurationAssumption
<1>1. sched \in [Schedulers -> Locals] /\ TypeOK
  BY DEF IInv, TypeOK
<1>2. UNCHANGED <<pending, batches, mined, contractVars, enqueued, abandoned>>
  BY DEF Prepare, EstimateReverts, RpcFails, Send, SendRejected, SendReplyLost,
         Reverted, PollFails, GiveUp, chainVars, history, contractVars
<1>3. /\ sched[s].phase \in {"built", "signed", "polling"}
      /\ sched[s].batch \in 1..Len(batches)
      /\ sched[s].phase \in {"signed", "polling"} => sched[s].failed < NumProviders
  BY DEF IInv, LocalsInv, LocalsOK, Prepare, EstimateReverts, RpcFails, Send, SendRejected,
         SendReplyLost, Reverted, PollFails, GiveUp, Trying, Calling, Sendable, HasReceipt
<1> DEFINE CustodyKept ==
        /\ sched' \in [Schedulers -> Locals]
        /\ LocalsInv' /\ SourceInv' /\ SingleCustody' /\ Held' = Held
<1>4. CustodyKept
  <2>1. CASE AttemptFailed(s) /\ sched[s].failed < NumProviders
    BY <2>1, <1>2, <1>3, AttemptFailedStep
  <2>2. ASSUME NEW n \in NonceRange, Trying(s),
               sched' = [sched EXCEPT ![s].phase = "signed", ![s].nonce = n]
        PROVE  CustodyKept
    <3>1. /\ sched' \in [Schedulers -> Locals]
          /\ sched'[s].phase = "signed"
          /\ sched'[s].batch = sched[s].batch
          /\ sched'[s].raw = sched[s].raw
          /\ sched'[s].failed = sched[s].failed
          /\ \A t \in Schedulers \ {s} : sched'[t] = sched[t]
      BY <1>1, <2>2 DEF Locals, Phases
    <3> QED BY <3>1, <2>2, <1>2, <1>3, LocalStep DEF Trying
  <2>3. ASSUME NEW p \in {"polling", "requeue"},
               sched[s].failed < NumProviders \/ p = "requeue",
               sched' = [sched EXCEPT ![s].phase = p]
        PROVE  CustodyKept
    <3>1. /\ sched' \in [Schedulers -> Locals]
          /\ sched'[s].phase = p
          /\ sched'[s].batch = sched[s].batch
          /\ sched'[s].raw = sched[s].raw
          /\ sched'[s].failed = sched[s].failed
          /\ \A t \in Schedulers \ {s} : sched'[t] = sched[t]
      BY <1>1, <2>3 DEF Locals, Phases
    <3> QED BY <3>1, <2>3, <1>2, <1>3, LocalStep
  <2>4. CASE Prepare(s)
    BY <2>2, <2>4 DEF Prepare
  <2>5. CASE Send(s)
    BY <2>3, <2>5, <1>3 DEF Send, Sendable
  <2>6. CASE GiveUp(s)
    BY <2>3, <2>6 DEF GiveUp, StartRequeue
  <2>7. CASE \/ EstimateReverts(s) \/ RpcFails(s) \/ SendRejected(s)
             \/ SendReplyLost(s) \/ Reverted(s) \/ PollFails(s)
    BY <2>1, <2>7, <1>3 DEF EstimateReverts, RpcFails, SendRejected, SendReplyLost,
       Reverted, PollFails, Trying, Calling, Sendable, HasReceipt
  <2> QED BY <2>4, <2>5, <2>6, <2>7
<1>5. /\ mempool' \subseteq Transactions
      /\ \A tx \in mempool' : tx.batch <= Len(batches)
      /\ unacked' \subseteq BatchIds
      /\ faults' \in [FaultKinds -> Nat]
  <2>1. SignedTx(s) \in Transactions /\ SignedTx(s).batch <= Len(batches)
    BY <1>1, <1>3 DEF SignedTx, Transactions, Locals, TypeOK
  <2>2. mempool' \subseteq mempool \cup {SignedTx(s)}
    BY DEF Prepare, EstimateReverts, RpcFails, Send, SendRejected, SendReplyLost,
           Reverted, PollFails, GiveUp, chainVars
  <2>3. unacked' \subseteq unacked \cup {sched[s].batch} /\ sched[s].batch \in BatchIds
    BY <1>1, <1>3 DEF Prepare, EstimateReverts, RpcFails, Send, SendRejected,
       SendReplyLost, Reverted, PollFails, GiveUp, history, TypeOK
  <2>4. Fault("rpc") \/ UNCHANGED faults
    BY DEF Prepare, EstimateReverts, RpcFails, Send, SendRejected, SendReplyLost,
           Reverted, PollFails, GiveUp
  <2>5. faults' \in [FaultKinds -> Nat]
    BY <2>4, <1>1, FaultType DEF TypeOK, FaultKinds
  <2> QED BY <2>1, <2>2, <2>3, <2>5, <1>1 DEF IInv, ChainInv, TypeOK
<1>6. TypeOK'
  BY <1>1, <1>2, <1>4, <1>5 DEF TypeOK, contractVars
<1>7. BatchesInv' /\ ChainInv' /\ OnChain' = OnChain
  BY <1>2, <1>5 DEF IInv, BatchesInv, ChainInv, OnChain, Anchored,
     BatchAlreadyAnchored, contractVars
<1>8. NoRecordLost'
  BY <1>2, <1>4, <1>7 DEF IInv, NoRecordLost
<1> QED BY <1>4, <1>6, <1>7, <1>8 DEF IInv

-----------------------------------------------------------------------------
(***************************************************************************)
(* The steps that move records: into the queue, out of it, and back.       *)
(***************************************************************************)
LEMMA EnqueueStep ==
    ASSUME IInv, NEW r \in Records, Enqueue(r)
    PROVE  IInv'
<1> USE DEF Enqueue
<1>1. /\ r \notin enqueued /\ r \notin Range(pending)
      /\ \A s \in Schedulers : r \notin Range(sched[s].raw)
  BY DEF IInv, SourceInv
<1>2. /\ pending' \in Seq(Records)
      /\ Range(pending') = Range(pending) \cup {r}
      /\ IsInjective(pending) => IsInjective(pending')
  BY <1>1, AppendFacts DEF IInv, TypeOK
<1>3. TypeOK'
  BY <1>2 DEF IInv, TypeOK, chainVars
<1>4. LocalsInv' /\ SourceInv' /\ SingleCustody'
  <2>1. LocalsInv'
    BY DEF IInv, LocalsInv, LocalsOK
  <2>2. SourceInv'
    BY <1>2 DEF IInv, SourceInv
  <2>3. SingleCustody'
    BY <1>1, <1>2 DEF IInv, SingleCustody
  <2> QED BY <2>1, <2>2, <2>3
<1>5. BatchesInv' /\ ChainInv' /\ OnChain' = OnChain /\ Held' = Held
  BY DEF IInv, BatchesInv, ChainInv, OnChain, Held, Anchored, BatchAlreadyAnchored, chainVars
<1>6. NoRecordLost'
  BY <1>2, <1>5 DEF IInv, NoRecordLost
<1> QED BY <1>3, <1>4, <1>5, <1>6 DEF IInv

\* Emptying the queue into a new batch, with or without a scheduler holding it.
LEMMA DrainStep ==
    ASSUME IInv, NEW s \in Schedulers, Drain(s) \/ DrainUnconfigured(s)
    PROVE  IInv'
<1> USE BoundsAssumption, ConfigurationAssumption
<1> DEFINE n == Len(batches) + 1
           locals == [phase |-> "built", raw |-> pending, batch |-> n,
                      failed |-> 0, nonce |-> 0]
<1>1. /\ sched \in [Schedulers -> Locals] /\ batches \in Seq(Seq(Records))
      /\ pending \in Seq(Records) /\ pending # <<>>
      /\ Len(batches) \in Nat /\ n \in 1..MaxBatches
      /\ sched[s].phase = "idle" /\ sched[s].raw = <<>>
  BY LenProperties DEF IInv, TypeOK, LocalsInv, LocalsOK, Drain, DrainUnconfigured, DrainInto
<1>2. /\ pending' = <<>>
      /\ batches' = Append(batches, pending)
      /\ UNCHANGED <<mempool, mined, anchors, anchorCount, enqueued, unacked, faults>>
  BY DEF Drain, DrainUnconfigured, DrainInto, EmptyQueue, BuildBatch, chainVars, history
<1>3. \/ sched' = [sched EXCEPT ![s] = locals] /\ abandoned' = abandoned
      \/ sched' = [sched EXCEPT ![s] = Idle] /\ abandoned' = abandoned \cup Range(pending)
  BY DEF Drain, DrainUnconfigured, DrainInto, history
<1>4. locals \in Locals /\ Idle \in Locals
  BY <1>1 DEF Locals, Idle, Phases, NonceRange
<1>5. /\ sched' \in [Schedulers -> Locals]
      /\ \A t \in Schedulers \ {s} : sched'[t] = sched[t]
      /\ \/ sched'[s] = locals /\ abandoned' = abandoned
         \/ sched'[s] = Idle /\ abandoned' = abandoned \cup Range(pending)
  BY <1>1, <1>3, <1>4
<1>6. /\ batches' \in Seq(Seq(Records))
      /\ Len(batches') = n
      /\ batches'[n] = pending
      /\ \A i \in 1..Len(batches) : batches'[i] = batches[i]
  BY <1>1, <1>2, AppendProperties
<1>7. TypeOK'
  <2>1. Range(pending) \subseteq Records
    BY <1>1, RangeIn
  <2>2. /\ mempool \subseteq Transactions
        /\ mined \in Seq([batch : BatchIds, ok : BOOLEAN])
        /\ anchors \in [BatchIds -> [root : Seq(Records), timestamp : Nat]]
        /\ anchorCount \in Nat
        /\ enqueued \subseteq Records /\ abandoned \subseteq Records
        /\ unacked \subseteq BatchIds /\ faults \in [FaultKinds -> Nat]
    BY DEF IInv, TypeOK
  <2>3. abandoned' \subseteq Records
    BY <2>1, <2>2, <1>5
  <2>4. pending' \in Seq(Records) /\ Len(batches') <= MaxBatches
    BY <1>1, <1>2, <1>6, EmptySeq
  <2> HIDE DEF n, locals
  <2> QED BY <2>2, <2>3, <2>4, <1>2, <1>5, <1>6 DEF TypeOK
<1>8. LocalsInv'
  <2> SUFFICES ASSUME NEW t \in Schedulers PROVE LocalsOK(t)'
    BY DEF LocalsInv
  <2>1. CASE t = s
    <3>1. CASE sched'[s] = locals
      BY <2>1, <3>1, <1>1, <1>6 DEF LocalsOK
    <3>2. CASE sched'[s] = Idle
      BY <2>1, <3>2 DEF LocalsOK, Idle
    <3> QED BY <3>1, <3>2, <1>5
  <2>2. CASE t # s
    <3>1. LocalsOK(t) /\ sched'[t] = sched[t]
      BY <2>2, <1>5 DEF IInv, LocalsInv
    <3>2. \A b \in 1..Len(batches) : b \in 1..Len(batches') /\ batches'[b] = batches[b]
      BY <1>1, <1>6
    <3> QED BY <3>1, <3>2 DEF LocalsOK
  <2> QED BY <2>1, <2>2
<1>9. BatchesInv'
  <2>1. IsInjective(pending) /\ Range(pending) \subseteq enqueued
    BY DEF IInv, SourceInv, SingleCustody
  <2> SUFFICES ASSUME NEW i \in 1..n
               PROVE  /\ batches'[i] # <<>> /\ IsInjective(batches'[i])
                      /\ Range(batches'[i]) \subseteq enqueued
    BY <1>2, <1>6 DEF BatchesInv
  <2>2. CASE i = n
    BY <2>1, <2>2, <1>1, <1>6
  <2>3. CASE i \in 1..Len(batches)
    BY <2>3, <1>6 DEF IInv, BatchesInv
  <2> QED BY <2>2, <2>3, <1>1
<1>10. ChainInv'
  <2>1. \A tx \in mempool : tx.batch \in 1..MaxBatches
    BY DEF IInv, TypeOK, Transactions
  <2>2. \A i \in 1..Len(mined) : mined[i].batch \in 1..MaxBatches
    <3>1. mined \in Seq([batch : BatchIds, ok : BOOLEAN])
      BY DEF IInv, TypeOK
    <3>2. mined \in [1..Len(mined) -> [batch : BatchIds, ok : BOOLEAN]]
      BY <3>1, LenProperties
    <3>3. ASSUME NEW i \in 1..Len(mined) PROVE mined[i].batch \in BatchIds
      BY <3>2
    <3> QED BY <3>3
  <2>3. \A b \in 1..MaxBatches : b <= Len(batches) =>
            b <= Len(batches') /\ batches'[b] = batches[b]
    BY <1>1, <1>6
  <2>4. Anchored' = Anchored /\ Anchored \subseteq 1..MaxBatches
    BY <1>2 DEF Anchored, BatchAlreadyAnchored
  <2> QED BY <2>1, <2>2, <2>3, <2>4, <1>2 DEF IInv, ChainInv
<1>11. Range(pending') = {} /\ IsInjective(pending')
  BY <1>2, RangeEmpty
<1>12. \/ sched'[s].raw = pending /\ abandoned' = abandoned
       \/ /\ sched'[s].raw = <<>>
          /\ abandoned' = abandoned \cup Range(pending)
  BY <1>5 DEF Idle
<1>13. SourceInv' /\ SingleCustody'
  BY <1>2, <1>5, <1>11, <1>12, RangeEmpty DEF IInv, SourceInv, SingleCustody
<1>14. NoRecordLost'
  <2>1. OnChain' = OnChain
    BY <1>2 DEF OnChain, Anchored, BatchAlreadyAnchored
  <2>2. Held \cup Range(pending) \subseteq Held' \cup abandoned'
    BY <1>1, <1>5, <1>12, RangeEmpty DEF Held
  <2>3. abandoned \subseteq abandoned' /\ enqueued' = enqueued
    BY <1>2, <1>12
  <2> QED BY <2>1, <2>2, <2>3 DEF IInv, NoRecordLost
<1> QED BY <1>7, <1>8, <1>9, <1>10, <1>13, <1>14 DEF IInv

LEMMA DrainReplyLostStep ==
    ASSUME IInv, NEW s \in Schedulers, DrainReplyLost(s)
    PROVE  IInv'
<1> USE DEF DrainReplyLost, EmptyQueue, chainVars
<1>1. Range(pending) \subseteq Records /\ Range(pending') = {} /\ IsInjective(pending')
  BY RangeIn, RangeEmpty DEF IInv, TypeOK
<1>2. faults' \in [FaultKinds -> Nat]
  BY FaultType DEF IInv, FaultKinds
<1>3. TypeOK'
  BY <1>1, <1>2, EmptySeq DEF IInv, TypeOK
<1>4. BatchesInv' /\ ChainInv' /\ OnChain' = OnChain
  BY ChainFrame
<1>5. LocalsInv' /\ SourceInv' /\ SingleCustody' /\ Held' = Held
  BY <1>1 DEF IInv, LocalsInv, LocalsOK, SourceInv, SingleCustody, Held
<1>6. NoRecordLost'
  BY <1>4, <1>5 DEF IInv, NoRecordLost
<1> QED BY <1>3, <1>4, <1>5, <1>6 DEF IInv

\* Ending a cycle without touching the queue is sound when the records are on
\* the chain, or counted as abandoned.
LEMMA LetGoStep ==
    ASSUME IInv, NEW s \in Schedulers, Release(s),
           UNCHANGED <<pending, batches, mempool, mined, contractVars, enqueued, unacked>>,
           faults' \in [FaultKinds -> Nat],
           \/ abandoned' = abandoned /\ Range(sched[s].raw) \subseteq OnChain
           \/ abandoned' = abandoned \cup Range(sched[s].raw)
    PROVE  IInv'
<1> USE DEF contractVars
<1>1. /\ sched' \in [Schedulers -> Locals]
      /\ LocalsInv'
      /\ \A t \in Schedulers \ {s} : sched'[t] = sched[t]
      /\ sched'[s].raw = <<>>
      /\ Held \subseteq Held' \cup Range(sched[s].raw)
  BY ReleaseStep
<1>2. Range(sched[s].raw) \subseteq Records
  BY RangeIn DEF IInv, TypeOK, Locals
<1>3. TypeOK'
  BY <1>1, <1>2 DEF IInv, TypeOK
<1>4. BatchesInv' /\ ChainInv' /\ OnChain' = OnChain
  BY ChainFrame
<1>5. SourceInv' /\ SingleCustody'
  BY <1>1, RangeEmpty DEF IInv, SourceInv, SingleCustody
<1>6. NoRecordLost'
  BY <1>1, <1>4 DEF IInv, NoRecordLost
<1> QED BY <1>1, <1>3, <1>4, <1>5, <1>6 DEF IInv

LEMMA CrashStep ==
    ASSUME IInv, NEW s \in Schedulers, Crash(s) \/ ReceiptTimeout(s)
    PROVE  IInv'
<1>1. faults' \in [FaultKinds -> Nat]
  BY FaultType DEF IInv, FaultKinds, Crash, ReceiptTimeout
<1> QED BY <1>1, LetGoStep
    DEF Crash, ReceiptTimeout, TreatAsCommitted, chainVars, contractVars

\* A receipt with status 1 proves that the records are on the chain.
LEMMA ConfirmStep ==
    ASSUME IInv, NEW s \in Schedulers, Confirm(s)
    PROVE  IInv'
<1> DEFINE b == sched[s].batch
<1>1. sched[s].raw = batches[b] /\ b \in 1..Len(batches)
  BY DEF IInv, LocalsInv, LocalsOK, Confirm, HasReceipt
<1>2. b \in Anchored
  <2>1. sched[s].nonce \in Nat /\ Len(mined) \in Nat
    BY BoundsAssumption, LenProperties DEF IInv, TypeOK, Locals, NonceRange
  <2>2. sched[s].nonce + 1 \in 1..Len(mined)
    BY <2>1 DEF Confirm, HasReceipt
  <2> QED BY <2>2 DEF IInv, ChainInv, Confirm, HasReceipt
<1>3. Range(sched[s].raw) \subseteq OnChain
  BY <1>1, <1>2 DEF IInv, ChainInv, OnChain
<1>4. faults' \in [FaultKinds -> Nat]
  BY DEF Confirm, IInv, TypeOK
<1> QED BY <1>3, <1>4, LetGoStep DEF Confirm, chainVars, contractVars, history

\* One RPUSH of a requeue: the record moves from the scheduler to the queue.
\* Whatever the scheduler gives up beyond that is counted as abandoned.
LEMMA RequeueOneStep ==
    ASSUME IInv, NEW s \in Schedulers,
           sched[s].phase = "requeue", sched[s].raw # <<>>,
           pending' = Append(pending, Head(sched[s].raw)),
           \/ AfterRequeue(s) /\ abandoned' = abandoned
           \/ /\ Release(s)
              /\ abandoned' = abandoned \cup Range(Tail(sched[s].raw)),
           UNCHANGED <<batches, mempool, mined, contractVars, enqueued, unacked>>,
           faults' \in [FaultKinds -> Nat]
    PROVE  IInv'
<1> USE DEF contractVars
<1> DEFINE h == Head(sched[s].raw)
           rest == Tail(sched[s].raw)
<1>1. /\ sched \in [Schedulers -> Locals]
      /\ sched[s].raw \in Seq(Records) /\ pending \in Seq(Records)
  BY DEF IInv, TypeOK, Locals
<1>2. /\ h \in Records
      /\ rest \in Seq(Records)
      /\ Range(sched[s].raw) = {h} \cup Range(rest)
      /\ IsInjective(rest) /\ h \notin Range(rest)
      /\ Len(sched[s].raw) = 1 => rest = <<>>
  BY <1>1, TailFacts DEF IInv, SingleCustody
<1>3. h \notin Range(pending)
  BY <1>2 DEF IInv, SingleCustody
<1>4. /\ pending' \in Seq(Records)
      /\ Range(pending') = Range(pending) \cup {h}
      /\ IsInjective(pending')
  BY <1>1, <1>2, <1>3, AppendFacts DEF IInv, SingleCustody
<1>5. /\ sched' \in [Schedulers -> Locals]
      /\ LocalsInv'
      /\ \A t \in Schedulers \ {s} : sched'[t] = sched[t]
      /\ \/ sched'[s].raw = rest /\ abandoned' = abandoned
         \/ sched'[s].raw = <<>> /\ abandoned' = abandoned \cup Range(rest)
  <2>1. CASE Release(s)
    <3>1. /\ sched' \in [Schedulers -> Locals]
          /\ LocalsInv'
          /\ \A t \in Schedulers \ {s} : sched'[t] = sched[t]
          /\ sched'[s].raw = <<>>
      BY <2>1, ReleaseStep
    <3>2. CASE abandoned' = abandoned \cup Range(rest)
      BY <3>1, <3>2
    <3>3. CASE AfterRequeue(s) /\ abandoned' = abandoned /\ Len(sched[s].raw) = 1
      BY <3>1, <3>3, <1>2
    <3>4. CASE AfterRequeue(s) /\ abandoned' = abandoned /\ Len(sched[s].raw) # 1
      <4>1. sched' = [sched EXCEPT ![s].raw = rest]
        BY <3>4 DEF AfterRequeue
      <4>2. sched'[s].raw = rest
        BY <4>1, <1>1 DEF Locals
      <4> QED BY <3>1, <3>4, <4>2
    <3> QED BY <3>2, <3>3, <3>4
  <2>2. CASE sched' = [sched EXCEPT ![s].raw = rest] /\ abandoned' = abandoned
    <3>1. /\ sched' \in [Schedulers -> Locals]
          /\ \A t \in Schedulers \ {s} : sched'[t] = sched[t]
          /\ sched'[s].phase = "requeue" /\ sched'[s].raw = rest
      BY <2>2, <1>1, <1>2 DEF Locals
    <3> QED BY <3>1, <2>2 DEF IInv, LocalsInv, LocalsOK
  <2> QED BY <2>1, <2>2 DEF AfterRequeue
<1>6. Range(sched'[s].raw) \subseteq Range(rest) /\ IsInjective(sched'[s].raw)
  BY <1>2, <1>5, RangeEmpty
<1>7. TypeOK'
  <2>1. abandoned' \subseteq Records
    BY <1>2, <1>5, RangeIn DEF IInv, TypeOK
  <2> QED BY <2>1, <1>4, <1>5 DEF IInv, TypeOK
<1>8. BatchesInv' /\ ChainInv' /\ OnChain' = OnChain
  BY ChainFrame
<1>9. SourceInv'
  BY <1>2, <1>4, <1>5, <1>6 DEF IInv, SourceInv
<1>10. SingleCustody'
  <2>1. \A t \in Schedulers \ {s} :
            h \notin Range(sched[t].raw) /\ Range(rest) \cap Range(sched[t].raw) = {}
    BY <1>2 DEF IInv, SingleCustody
  <2>2. Range(rest) \cap Range(pending) = {}
    BY <1>2 DEF IInv, SingleCustody
  <2>3. /\ IsInjective(sched'[s].raw)
        /\ Range(sched'[s].raw) \cap Range(pending') = {}
        /\ \A t \in Schedulers \ {s} :
             Range(sched'[s].raw) \cap Range(sched'[t].raw) = {}
    BY <2>1, <2>2, <1>2, <1>4, <1>5, <1>6
  <2>4. ASSUME NEW t \in Schedulers \ {s}
        PROVE  /\ IsInjective(sched'[t].raw)
               /\ Range(sched'[t].raw) \cap Range(pending') = {}
               /\ \A u \in Schedulers \ {t} :
                    Range(sched'[t].raw) \cap Range(sched'[u].raw) = {}
    <3>1. /\ sched'[t] = sched[t]
          /\ IsInjective(sched[t].raw)
          /\ Range(sched[t].raw) \cap Range(pending) = {}
      BY <1>5 DEF IInv, SingleCustody
    <3>2. ASSUME NEW u \in Schedulers \ {t}
          PROVE  Range(sched'[t].raw) \cap Range(sched'[u].raw) = {}
      <4>1. CASE u = s
        BY <4>1, <2>3
      <4>2. CASE u # s
        BY <4>2, <1>5 DEF IInv, SingleCustody
      <4> QED BY <4>1, <4>2
    <3> QED BY <3>1, <3>2, <2>1, <1>4
  <2> QED BY <2>3, <2>4, <1>4 DEF SingleCustody
<1>11. NoRecordLost'
  <2>1. Held \subseteq Held' \cup {h} \cup Range(rest)
    BY <1>2, <1>5 DEF Held
  <2>2. Range(rest) \subseteq Held' \cup abandoned'
    BY <1>5 DEF Held
  <2> QED BY <2>1, <2>2, <1>4, <1>5, <1>8 DEF IInv, NoRecordLost
<1> QED BY <1>5, <1>7, <1>8, <1>9, <1>10, <1>11 DEF IInv

LEMMA RequeueStep ==
    ASSUME IInv, NEW s \in Schedulers, Requeue(s) \/ RequeueFails(s)
    PROVE  IInv'
<1>1. faults' \in [FaultKinds -> Nat]
  BY FaultType DEF IInv, TypeOK, FaultKinds, Requeue, RequeueFails
<1>2. CASE Requeue(s)
  BY <1>1, <1>2, RequeueOneStep DEF Requeue, chainVars, contractVars, history
<1>3. CASE RequeueFails(s) /\ UNCHANGED pending
  BY <1>1, <1>3, LetGoStep DEF RequeueFails, chainVars, contractVars
<1>4. CASE RequeueFails(s) /\ pending' = Append(pending, Head(sched[s].raw))
  BY <1>1, <1>4, RequeueOneStep DEF RequeueFails, chainVars, contractVars
<1> QED BY <1>2, <1>3, <1>4 DEF RequeueFails

-----------------------------------------------------------------------------
(***************************************************************************)
(* The steps of the chain.                                                 *)
(***************************************************************************)
LEMMA MineStep ==
    ASSUME IInv, NEW tx \in mempool, Mine(tx)
    PROVE  IInv'
<1> USE BoundsAssumption
<1> DEFINE b == tx.batch
           ok == Accepts(Deployer, b)
           entry == [batch |-> b, ok |-> ok]
<1>1. /\ b \in BatchIds /\ b \in 1..Len(batches)
      /\ Len(mined) \in Nat
      /\ anchors \in [BatchIds -> [root : Seq(Records), timestamp : Nat]]
      /\ batches[b] \in Seq(Records)
      /\ UNCHANGED <<pending, sched, batches, enqueued, abandoned, unacked, faults>>
  BY LenProperties, ElementOfSeq
     DEF IInv, TypeOK, ChainInv, Transactions, Mine, schedVars, history
<1>2. /\ mined' = Append(mined, entry)
      /\ mined' \in Seq([batch : BatchIds, ok : BOOLEAN])
      /\ Len(mined') = Len(mined) + 1
      /\ mined'[Len(mined) + 1] = entry
      /\ \A i \in 1..Len(mined) : mined'[i] = mined[i]
  <2>1. entry \in [batch : BatchIds, ok : BOOLEAN]
    BY <1>1 DEF Accepts
  <2> QED BY <2>1, AppendProperties DEF IInv, TypeOK, Mine
<1>3. /\ anchors' \in [BatchIds -> [root : Seq(Records), timestamp : Nat]]
      /\ anchorCount' \in Nat
      /\ \A c \in BatchIds \ {b} : anchors'[c] = anchors[c]
      /\ \/ /\ ok
            /\ anchors'[b] = [root |-> batches[b], timestamp |-> Len(mined) + 1]
            /\ anchors[b].timestamp = 0
         \/ ~ok /\ anchors' = anchors
  <2>1. CASE ok
    <3>1. /\ anchors' = [anchors EXCEPT ![b] =
                          [root |-> batches[b], timestamp |-> Len(mined) + 1]]
          /\ anchorCount' = anchorCount + 1
          /\ anchors[b].timestamp = 0
      BY <2>1 DEF Mine, AnchorBatch, Accepts, BatchAlreadyAnchored
    <3>2. [root |-> batches[b], timestamp |-> Len(mined) + 1]
             \in [root : Seq(Records), timestamp : Nat]
      BY <1>1
    <3> QED BY <2>1, <3>1, <3>2, <1>1 DEF IInv, TypeOK
  <2>2. CASE ~ok
    BY <2>2, <1>1 DEF IInv, TypeOK, Mine, contractVars
  <2> QED BY <2>1, <2>2
<1>4. /\ Anchored \subseteq Anchored'
      /\ Anchored' \subseteq Anchored \cup {b}
      /\ ok => b \in Anchored'
      /\ b \in Anchored' => anchors'[b].root = batches[b]
      /\ \A c \in Anchored : anchors'[c] = anchors[c]
  <2>1. CASE ok
    <3>1. anchors'[b].timestamp = Len(mined) + 1 /\ anchors'[b].root = batches[b]
      BY <2>1, <1>3
    <3>2. b \notin Anchored /\ b \in Anchored'
      BY <2>1, <3>1, <1>1, <1>3 DEF Anchored, BatchAlreadyAnchored
    <3> QED BY <3>1, <3>2, <1>3 DEF Anchored, BatchAlreadyAnchored
  <2>2. CASE ~ok
    <3>1. Anchored' = Anchored /\ anchors' = anchors
      BY <2>2, <1>3 DEF Anchored, BatchAlreadyAnchored
    <3> QED BY <2>2, <3>1 DEF IInv, ChainInv
  <2> QED BY <2>1, <2>2
<1>5. TypeOK'
  BY <1>1, <1>2, <1>3 DEF IInv, TypeOK, Mine
<1>6. LocalsInv' /\ BatchesInv' /\ SourceInv' /\ SingleCustody' /\ Held' = Held
  BY <1>1 DEF IInv, LocalsInv, LocalsOK, BatchesInv, SourceInv, SingleCustody, Held
<1>7. ChainInv'
  <2>1. \A t \in mempool' : t.batch <= Len(batches')
    BY <1>1 DEF IInv, ChainInv, Mine
  <2>2. \A i \in 1..Len(mined') :
          /\ mined'[i].batch <= Len(batches')
          /\ mined'[i].ok => mined'[i].batch \in Anchored'
    <3> SUFFICES ASSUME NEW i \in 1..Len(mined')
                 PROVE  /\ mined'[i].batch <= Len(batches')
                        /\ mined'[i].ok => mined'[i].batch \in Anchored'
      OBVIOUS
    <3>1. CASE i \in 1..Len(mined)
      BY <3>1, <1>1, <1>2, <1>4 DEF IInv, ChainInv
    <3>2. CASE i = Len(mined) + 1
      <4>1. mined'[i].batch = b /\ mined'[i].ok = ok
        BY <3>2, <1>2
      <4> QED BY <4>1, <1>1, <1>4
    <3> QED BY <3>1, <3>2, <1>1, <1>2
  <2>3. \A c \in Anchored' : c <= Len(batches') /\ anchors'[c].root = batches'[c]
    BY <1>1, <1>4 DEF IInv, ChainInv
  <2> QED BY <2>1, <2>2, <2>3 DEF ChainInv
<1>8. NoRecordLost'
  <2>1. OnChain \subseteq OnChain'
    BY <1>4 DEF OnChain
  <2> QED BY <2>1, <1>1, <1>6 DEF IInv, NoRecordLost
<1> QED BY <1>5, <1>6, <1>7, <1>8 DEF IInv

LEMMA DropStep ==
    ASSUME IInv, NEW tx \in mempool, Drop(tx)
    PROVE  IInv'
<1> USE DEF Drop, schedVars, contractVars, history
<1>1. TypeOK'
  BY FaultType DEF IInv, TypeOK, FaultKinds
<1>2. LocalsInv' /\ BatchesInv' /\ SourceInv' /\ SingleCustody' /\ Held' = Held
  BY DEF IInv, LocalsInv, LocalsOK, BatchesInv, SourceInv, SingleCustody, Held
<1>3. ChainInv' /\ OnChain' = OnChain
  BY DEF IInv, ChainInv, OnChain, Anchored, BatchAlreadyAnchored
<1>4. NoRecordLost'
  BY <1>2, <1>3 DEF IInv, NoRecordLost
<1> QED BY <1>1, <1>2, <1>3, <1>4 DEF IInv

-----------------------------------------------------------------------------
(***************************************************************************)
(* The invariant, and what follows from it.                                *)
(***************************************************************************)
LEMMA NextIInv == IInv /\ [Next]_vars => IInv'
<1> SUFFICES ASSUME IInv, [Next]_vars PROVE IInv'
  OBVIOUS
<1>1. CASE UNCHANGED vars
  <2>1. UNCHANGED <<pending, sched, batches, mempool, mined, anchors, anchorCount,
                    enqueued, abandoned, unacked, faults>>
    BY <1>1 DEF vars
  <2>2. TypeOK' /\ LocalsInv' /\ SourceInv' /\ SingleCustody' /\ Held' = Held
    BY <2>1 DEF IInv, TypeOK, LocalsInv, LocalsOK, SourceInv, SingleCustody, Held
  <2>3. BatchesInv' /\ ChainInv' /\ OnChain' = OnChain
    BY <2>1, ChainFrame
  <2> QED BY <2>1, <2>2, <2>3 DEF IInv, NoRecordLost
<1>2. ASSUME NEW r \in Records, Enqueue(r) PROVE IInv'
  BY <1>2, EnqueueStep
<1>3. ASSUME NEW s \in Schedulers, Progress(s) PROVE IInv'
  BY <1>3, DrainStep, RequeueStep, AttemptStep, ConfirmStep, CrashStep DEF Progress
<1>4. ASSUME NEW s \in Schedulers, Failure(s) PROVE IInv'
  BY <1>4, DrainReplyLostStep, RequeueStep, CrashStep, AttemptStep DEF Failure
<1>5. ASSUME NEW tx \in mempool, Mine(tx) PROVE IInv'
  BY <1>5, MineStep
<1>6. ASSUME NEW tx \in mempool, Drop(tx) PROVE IInv'
  BY <1>6, DropStep
<1> QED BY <1>1, <1>2, <1>3, <1>4, <1>5, <1>6 DEF Next, MineNext

LEMMA Invariance == Spec => []IInv
BY InitIInv, NextIInv, PTL DEF Spec

\* Every variable keeps its type; in particular no scheduler tries a provider
\* beyond those that are configured.
THEOREM TypeCorrect == Spec => []TypeOK
<1>1. IInv => TypeOK
  BY DEF IInv
<1> QED BY <1>1, Invariance, PTL

\* For any number of replicas, records and failures, a record that is neither
\* queued, held nor anchored was let go of in one of the places that abandon
\* records.
THEOREM NothingLostSilently == Spec => []NoRecordLost
<1>1. IInv => NoRecordLost
  BY DEF IInv
<1> QED BY <1>1, Invariance, PTL

\* For any number of replicas, the queue and the schedulers never hold a record
\* twice.
THEOREM OneOwner == Spec => []SingleCustody
<1>1. IInv => SingleCustody
  BY DEF IInv
<1> QED BY <1>1, Invariance, PTL

-----------------------------------------------------------------------------
(***************************************************************************)
(* Refinement: the pipeline implements the append-only ledger.             *)
(***************************************************************************)
LEMMA LedgerInit == Init => Ledger!Init
BY DEF Init, ContractInit, NoAnchor, Ledger!Init

LEMMA LedgerStutter ==
    ASSUME UNCHANGED <<enqueued, anchors, anchorCount>>
    PROVE  [Ledger!Next]_(Ledger!ledgerVars)
BY DEF Ledger!ledgerVars

\* Mining the first transaction of a batch writes its row; any other
\* transaction changes nothing an auditor sees.
LEMMA MineCommits ==
    ASSUME IInv, NEW tx \in mempool, Mine(tx)
    PROVE  [Ledger!Next]_(Ledger!ledgerVars)
<1> USE BoundsAssumption
<1> DEFINE b == tx.batch
<1>1. /\ b \in BatchIds /\ b \in 1..Len(batches)
      /\ Len(mined) \in Nat
      /\ anchors \in [BatchIds -> [root : Seq(Records), timestamp : Nat]]
      /\ enqueued' = enqueued
  <2>1. /\ mempool \subseteq Transactions /\ batches \in Seq(Seq(Records))
        /\ mined \in Seq([batch : BatchIds, ok : BOOLEAN])
        /\ anchors \in [BatchIds -> [root : Seq(Records), timestamp : Nat]]
        /\ tx.batch <= Len(batches)
    BY DEF IInv, TypeOK, ChainInv
  <2>2. b \in BatchIds
    BY <2>1 DEF Transactions
  <2>3. Len(mined) \in Nat /\ Len(batches) \in Nat
    BY <2>1, LenProperties
  <2>4. b \in 1..Len(batches)
    BY <2>1, <2>2, <2>3
  <2> QED BY <2>1, <2>2, <2>3, <2>4 DEF Mine, schedVars, history
<1>2. CASE ~Accepts(Deployer, b)
  BY <1>1, <1>2, LedgerStutter DEF Mine, contractVars
<1>3. CASE Accepts(Deployer, b)
  <2>1. /\ anchors' = [anchors EXCEPT ![b] =
                        [root |-> batches[b], timestamp |-> Len(mined) + 1]]
        /\ anchorCount' = anchorCount + 1
        /\ anchors[b].timestamp = 0
    BY <1>3 DEF Mine, AnchorBatch, Accepts, BatchAlreadyAnchored
  <2>2. /\ anchors'[b].root = batches[b]
        /\ anchors'[b].timestamp > 0
        /\ \A c \in BatchIds \ {b} : anchors'[c] = anchors[c]
    BY <2>1, <1>1
  <2>3. Ledger!Committable(batches[b])
    BY <1>1 DEF IInv, BatchesInv, Ledger!Committable, Ledger!Range, Ledger!IsInjective,
       Range, IsInjective
  <2>4. Ledger!Commit(b)
    BY <1>1, <2>1, <2>2, <2>3 DEF Ledger!Commit
  <2> QED BY <1>1, <2>4 DEF Ledger!Next
<1> QED BY <1>2, <1>3

LEMMA LedgerNext == IInv /\ [Next]_vars => [Ledger!Next]_(Ledger!ledgerVars)
<1> SUFFICES ASSUME IInv, [Next]_vars PROVE [Ledger!Next]_(Ledger!ledgerVars)
  OBVIOUS
<1>1. CASE UNCHANGED vars
  BY <1>1, LedgerStutter DEF vars
<1>2. ASSUME NEW r \in Records, Enqueue(r) PROVE [Ledger!Next]_(Ledger!ledgerVars)
  BY <1>2 DEF Enqueue, chainVars, Ledger!Next, Ledger!Accept
<1>3. ASSUME NEW s \in Schedulers, Progress(s) \/ Failure(s)
      PROVE  UNCHANGED <<enqueued, anchors, anchorCount>>
  BY <1>3 DEF Progress, Failure, Drain, DrainUnconfigured, Requeue, Prepare,
     EstimateReverts, Send, SendRejected, Confirm, Reverted, ReceiptTimeout, GiveUp,
     DrainReplyLost, RequeueFails, Crash, RpcFails, SendReplyLost, PollFails,
     chainVars, contractVars, history
<1>4. ASSUME NEW tx \in mempool, Mine(tx) PROVE [Ledger!Next]_(Ledger!ledgerVars)
  BY <1>4, MineCommits
<1>5. ASSUME NEW tx \in mempool, Drop(tx) PROVE [Ledger!Next]_(Ledger!ledgerVars)
  BY <1>5, LedgerStutter DEF Drop, contractVars, history
<1> QED BY <1>1, <1>2, <1>3, <1>4, <1>5, LedgerStutter DEF Next, MineNext

\* Whatever fails, and however many transactions carry a batch, the contract's
\* table is an append-only ledger of lists of distinct, enqueued records.
THEOREM ImplementsLedger == Spec => LedgerSpec
BY LedgerInit, LedgerNext, Invariance, PTL DEF Spec, LedgerSpec, Ledger!Spec

-----------------------------------------------------------------------------
(***************************************************************************)
(* Anchored twice.                                                         *)
(***************************************************************************)
\* submit_anchor is at work on the batch of s.
Working(s) == sched[s].phase \in {"built", "signed", "polling"}

Disjoint(S, T) == S \cap T = {}

\* The records in the queue, or on their way back to it: those that may come
\* into a further batch.
Loose ==
    Range(pending) \cup
    UNION {Range(sched[s].raw) : s \in {t \in Schedulers : sched[t].phase = "requeue"}}

\* A transaction of b may still be mined, or was.
Live(b) == b \in Anchored \/ \E tx \in mempool : tx.batch = b

\* Later batches share no record with b.
Last(b) == \A c \in 1..Len(batches) : b < c => Disjoint(Range(batches[b]), Range(batches[c]))

\* The records of a live batch, unless an attempt of it raised after the send,
\* are in no later batch and cannot come into one.
SettledInv ==
    \A b \in 1..Len(batches) \ unacked :
        Live(b) => Last(b) /\ Disjoint(Range(batches[b]), Loose)

\* Nor are those of a batch that is being submitted, live or not.
WorkedInv == \A s \in Schedulers : Working(s) => Last(sched[s].batch)

\* Before the send no transaction of the batch exists, unless an earlier
\* attempt's; after it, there is that of the nonce being polled, and if the
\* batch is on the chain then by that transaction.
SentOK(s) ==
    sched[s].batch \notin unacked =>
        IF sched[s].phase = "polling"
        THEN /\ \A tx \in mempool : tx.batch = sched[s].batch => tx.nonce = sched[s].nonce
             /\ sched[s].batch \in Anchored =>
                  sched[s].nonce < Len(mined) /\ mined[sched[s].nonce + 1].ok
        ELSE ~Live(sched[s].batch)

SentInv == \A s \in Schedulers : Working(s) => SentOK(s)

\* The mempool holds one transaction per nonce, none of a used one.
NonceInv ==
    /\ \A tx \in mempool : tx.nonce >= Len(mined)
    /\ \A tx, ux \in mempool : tx.nonce = ux.nonce => tx = ux

OnceInv == IInv /\ SettledInv /\ WorkedInv /\ SentInv /\ NonceInv

\* The records of a batch that is being submitted are in the hands of its
\* scheduler only, so no two schedulers work on one batch.
LEMMA WorkingFacts ==
    ASSUME IInv, NEW s \in Schedulers, Working(s)
    PROVE  /\ sched[s].batch \in 1..Len(batches) /\ sched[s].raw = batches[sched[s].batch]
           /\ Disjoint(Range(batches[sched[s].batch]), Range(pending))
           /\ Disjoint(Range(batches[sched[s].batch]), Loose)
           /\ \A t \in Schedulers \ {s} : Working(t) => sched[t].batch # sched[s].batch
<1> DEFINE b == sched[s].batch
<1>1. b \in 1..Len(batches) /\ sched[s].raw = batches[b]
  BY DEF IInv, LocalsInv, LocalsOK, Working
<1>2. Disjoint(Range(batches[b]), Range(pending))
  BY <1>1 DEF IInv, SingleCustody, Disjoint
<1>3. \A t \in Schedulers \ {s} : Disjoint(Range(batches[b]), Range(sched[t].raw))
  BY <1>1 DEF IInv, SingleCustody, Disjoint
<1>4. Disjoint(Range(batches[b]), Loose)
  <2>1. \A t \in Schedulers : sched[t].phase = "requeue" => t # s
    BY DEF Working
  <2> QED BY <2>1, <1>2, <1>3 DEF Loose, Disjoint
<1>5. Range(batches[b]) # {}
  <2>1. batches[b] # <<>> /\ batches \in Seq(Seq(Records))
    BY <1>1 DEF IInv, BatchesInv, TypeOK
  <2>2. batches[b] \in Seq(Records)
    BY <1>1, <2>1, ElementOfSeq
  <2> HIDE DEF b
  <2>3. Range(batches[b]) = {Head(batches[b])} \cup Range(Tail(batches[b]))
    BY <2>1, <2>2, TailFacts
  <2> QED BY <2>3
<1>6. ASSUME NEW t \in Schedulers \ {s}, Working(t)
      PROVE  sched[t].batch # b
  <2>1. sched[t].raw = batches[sched[t].batch]
    BY <1>6 DEF IInv, LocalsInv, LocalsOK, Working
  <2> QED BY <2>1, <1>3, <1>5 DEF Disjoint
<1> QED BY <1>1, <1>2, <1>4, <1>6

\* A step that moves records and sends nothing keeps every batch as live as it
\* was.
LEMMA LiveKept ==
    ASSUME UNCHANGED <<mempool, anchors>>
    PROVE  Anchored' = Anchored /\ \A b : Live(b)' <=> Live(b)
BY DEF Live, Anchored, BatchAlreadyAnchored

LEMMA LastKept ==
    ASSUME UNCHANGED batches
    PROVE  \A b : Last(b)' <=> Last(b)
BY DEF Last

\* No record becomes loose but those just enqueued, and nobody starts to work.
LEMMA LooseStep ==
    ASSUME OnceInv, UNCHANGED <<batches, mempool, mined, anchors, unacked>>,
           Loose' \cap enqueued \subseteq Loose,
           \A s \in Schedulers : Working(s)' => Working(s) /\ sched'[s] = sched[s]
    PROVE  (SettledInv /\ WorkedInv /\ SentInv /\ NonceInv)'
<1>1. Anchored' = Anchored /\ (\A b : Live(b)' <=> Live(b)) /\ (\A b : Last(b)' <=> Last(b))
  BY LiveKept, LastKept
<1>2. SettledInv'
  <2>1. ASSUME NEW b \in 1..Len(batches), Disjoint(Range(batches[b]), Loose)
        PROVE  Disjoint(Range(batches[b]), Loose')
    BY <2>1 DEF OnceInv, IInv, BatchesInv, Disjoint
  <2> QED BY <2>1, <1>1 DEF OnceInv, SettledInv, Disjoint
<1>3. WorkedInv'
  BY <1>1 DEF OnceInv, WorkedInv
<1>4. SentInv'
  BY <1>1 DEF OnceInv, SentInv, SentOK
<1>5. NonceInv'
  BY DEF OnceInv, NonceInv
<1> QED BY <1>2, <1>3, <1>4, <1>5

LEMMA LooseSteps ==
    ASSUME OnceInv, IInv',
           \/ \E r \in Records : Enqueue(r)
           \/ \E s \in Schedulers :
                \/ DrainReplyLost(s) \/ Requeue(s) \/ RequeueFails(s) \/ Crash(s)
                \/ Confirm(s) \/ ReceiptTimeout(s)
    PROVE  OnceInv'
<1> USE DEF chainVars, history
<1>t. /\ sched \in [Schedulers -> Locals] /\ pending \in Seq(Records)
      /\ \A s \in Schedulers : sched[s].raw \in Seq(Records)
  BY DEF OnceInv, IInv, TypeOK, Locals
<1>1. ASSUME NEW r \in Records, Enqueue(r)
      PROVE  OnceInv'
  <2>1. /\ UNCHANGED <<sched, batches, mempool, mined, anchors, unacked>>
        /\ r \notin enqueued /\ Range(pending') = Range(pending) \cup {r}
    BY <1>1, <1>t, AppendFacts DEF Enqueue
  <2>2. Loose' \cap enqueued \subseteq Loose
    BY <2>1 DEF Loose
  <2>3. \A s \in Schedulers : Working(s)' => Working(s) /\ sched'[s] = sched[s]
    BY <2>1 DEF Working
  <2> QED BY <2>1, <2>2, <2>3, LooseStep DEF OnceInv
<1>2. ASSUME NEW s \in Schedulers,
             UNCHANGED <<batches, mempool, mined, anchors, unacked>>,
             \A t \in Schedulers \ {s} : sched'[t] = sched[t],
             ~Working(s)' \/ sched'[s] = sched[s],
             sched'[s].phase = "requeue" =>
                 sched[s].phase = "requeue" /\ Range(sched'[s].raw) \subseteq Range(sched[s].raw),
             Range(pending') \subseteq Loose
      PROVE  OnceInv'
  <2>1. \A t \in Schedulers : sched'[t].phase = "requeue" =>
            sched[t].phase = "requeue" /\ Range(sched'[t].raw) \subseteq Range(sched[t].raw)
    BY <1>2
  <2>2. Loose' \subseteq Loose
    BY <2>1, <1>2 DEF Loose
  <2>3. \A t \in Schedulers : Working(t)' => Working(t) /\ sched'[t] = sched[t]
    BY <1>2 DEF Working
  <2> QED BY <2>2, <2>3, <1>2, LooseStep DEF OnceInv
<1>3. Range(pending) \subseteq Loose
  BY DEF Loose
<1>4. ASSUME NEW s \in Schedulers, Release(s)
      PROVE  /\ \A t \in Schedulers \ {s} : sched'[t] = sched[t]
             /\ ~Working(s)' /\ sched'[s].phase # "requeue"
  BY <1>4, <1>t DEF Release, Idle, Working
<1>5. ASSUME NEW s \in Schedulers, DrainReplyLost(s)
      PROVE  OnceInv'
  <2>1. /\ UNCHANGED <<sched, batches, mempool, mined, anchors, unacked>> /\ pending' = <<>>
    BY <1>5 DEF DrainReplyLost, EmptyQueue
  <2> QED BY <2>1, <1>2, RangeEmpty DEF Working
<1>6. ASSUME NEW s \in Schedulers, Crash(s) \/ Confirm(s) \/ ReceiptTimeout(s)
      PROVE  OnceInv'
  <2>1. UNCHANGED <<pending, batches, mempool, mined, anchors, unacked>> /\ Release(s)
    BY <1>6 DEF Crash, Confirm, ReceiptTimeout, TreatAsCommitted
  <2> QED BY <2>1, <1>2, <1>3, <1>4
<1>7. ASSUME NEW s \in Schedulers, sched[s].phase = "requeue", sched[s].raw # <<>>
      PROVE  /\ Head(sched[s].raw) \in Loose /\ Head(sched[s].raw) \in Records
             /\ Range(Tail(sched[s].raw)) \subseteq Range(sched[s].raw)
  <2>1. Range(sched[s].raw) \subseteq Loose
    BY <1>7 DEF Loose
  <2> QED BY <2>1, <1>7, <1>t, TailFacts
<1>8. ASSUME NEW s \in Schedulers, sched[s].phase = "requeue", sched[s].raw # <<>>,
             pending' = Append(pending, Head(sched[s].raw))
      PROVE  Range(pending') \subseteq Loose
  BY <1>3, <1>7, <1>8, <1>t, AppendFacts
<1>9. ASSUME NEW s \in Schedulers, Requeue(s)
      PROVE  OnceInv'
  <2>1. /\ UNCHANGED <<batches, mempool, mined, anchors, unacked>>
        /\ sched[s].phase = "requeue" /\ sched[s].raw # <<>>
        /\ pending' = Append(pending, Head(sched[s].raw)) /\ AfterRequeue(s)
    BY <1>9 DEF Requeue
  <2>2. CASE Release(s)
    BY <2>1, <2>2, <1>2, <1>4, <1>8
  <2>3. CASE sched' = [sched EXCEPT ![s].raw = Tail(@)]
    <3>1. /\ \A t \in Schedulers \ {s} : sched'[t] = sched[t]
          /\ sched'[s].phase = "requeue" /\ sched'[s].raw = Tail(sched[s].raw)
      BY <2>1, <2>3, <1>t DEF Locals
    <3> QED BY <3>1, <2>1, <1>2, <1>7, <1>8 DEF Working
  <2> QED BY <2>1, <2>2, <2>3 DEF AfterRequeue
<1>10. ASSUME NEW s \in Schedulers, RequeueFails(s)
       PROVE  OnceInv'
  <2>1. /\ UNCHANGED <<batches, mempool, mined, anchors, unacked>>
        /\ sched[s].phase = "requeue" /\ sched[s].raw # <<>> /\ Release(s)
        /\ pending' = pending \/ pending' = Append(pending, Head(sched[s].raw))
    BY <1>10 DEF RequeueFails
  <2> QED BY <2>1, <1>2, <1>3, <1>4, <1>8
<1> QED BY <1>1, <1>5, <1>6, <1>9, <1>10

\* All providers have failed: the records of s become loose, which is why none
\* of its transactions may be under way.
LEMMA GiveUpStep ==
    ASSUME OnceInv, IInv', NEW s \in Schedulers, GiveUp(s)
    PROVE  OnceInv'
<1> USE DEF chainVars, history
<1> DEFINE d == sched[s].batch
<1>1. /\ UNCHANGED <<pending, batches, mempool, mined, anchors, unacked>>
      /\ sched[s].phase = "built" /\ Working(s)
      /\ sched' = [sched EXCEPT ![s].phase = "requeue"]
      /\ sched \in [Schedulers -> Locals]
  BY DEF GiveUp, StartRequeue, Working, OnceInv, IInv, TypeOK
<1>2. /\ \A t \in Schedulers \ {s} : sched'[t] = sched[t]
      /\ sched'[s].phase = "requeue" /\ sched'[s].raw = sched[s].raw
  BY <1>1 DEF Locals
<1>3. d \in 1..Len(batches) /\ sched[s].raw = batches[d]
  BY <1>1, WorkingFacts DEF OnceInv
<1>4. Loose' \subseteq Loose \cup Range(batches[d])
  BY <1>1, <1>2, <1>3 DEF Loose
<1>5. Anchored' = Anchored /\ (\A b : Live(b)' <=> Live(b)) /\ (\A b : Last(b)' <=> Last(b))
  BY <1>1, LiveKept, LastKept
<1>6. \A t \in Schedulers : Working(t)' => Working(t) /\ sched'[t] = sched[t]
  BY <1>2 DEF Working
<1>7. SettledInv'
  <2> SUFFICES ASSUME NEW b \in 1..Len(batches), b \notin unacked, Live(b)
               PROVE  Last(b) /\ Disjoint(Range(batches[b]), Loose')
    BY <1>1, <1>5 DEF SettledInv, Disjoint
  <2>1. Last(b) /\ Disjoint(Range(batches[b]), Loose)
    BY DEF OnceInv, SettledInv
  <2>2. b # d
    BY <1>1 DEF OnceInv, SentInv, SentOK
  <2>3. Last(d)
    BY <1>1 DEF OnceInv, WorkedInv
  <2>4. b < d \/ d < b
    BY <2>2, <1>3
  <2>5. Disjoint(Range(batches[b]), Range(batches[d]))
    BY <2>1, <2>3, <2>4, <1>3 DEF Last, Disjoint
  <2> QED BY <2>1, <2>5, <1>4 DEF Disjoint
<1>8. WorkedInv'
  BY <1>5, <1>6 DEF OnceInv, WorkedInv
<1>9. SentInv'
  BY <1>1, <1>5, <1>6 DEF OnceInv, SentInv, SentOK
<1>10. NonceInv'
  BY <1>1 DEF OnceInv, NonceInv
<1> QED BY <1>7, <1>8, <1>9, <1>10 DEF OnceInv

\* The new batch is the queue, which shares nothing with a live batch nor with
\* one that is being submitted; it is not live itself.
LEMMA DrainOnce ==
    ASSUME OnceInv, IInv', NEW s \in Schedulers, Drain(s) \/ DrainUnconfigured(s)
    PROVE  OnceInv'
<1> USE DEF chainVars, history
<1>n. PICK n : n = Len(batches) + 1
  OBVIOUS
<1>1. /\ sched \in [Schedulers -> Locals] /\ batches \in Seq(Seq(Records))
      /\ pending \in Seq(Records) /\ Len(batches) \in Nat
      /\ sched[s].phase = "idle"
  BY LenProperties DEF OnceInv, IInv, TypeOK, Drain, DrainUnconfigured, DrainInto
<1>2. /\ pending' = <<>> /\ batches' = Append(batches, pending)
      /\ UNCHANGED <<mempool, mined, anchors, unacked>>
      /\ \A t \in Schedulers \ {s} : sched'[t] = sched[t]
      /\ sched'[s].phase \in {"idle", "built"}
      /\ sched'[s].phase = "built" => sched'[s].batch = n
  BY <1>1, <1>n DEF Drain, DrainUnconfigured, DrainInto, EmptyQueue, BuildBatch, Idle
<1>3. /\ Len(batches') = n /\ batches'[n] = pending
      /\ \A i \in 1..Len(batches) : batches'[i] = batches[i]
  BY <1>1, <1>2, <1>n, AppendProperties
<1>4. Anchored' = Anchored /\ \A b : Live(b)' <=> Live(b)
  BY <1>2, LiveKept
<1>5. ~Live(n)
  <2>1. \A tx \in mempool : tx.batch <= Len(batches)
    BY DEF OnceInv, IInv, ChainInv
  <2>2. \A b \in Anchored : b <= Len(batches)
    BY DEF OnceInv, IInv, ChainInv
  <2>3. ~(n <= Len(batches))
    BY <1>1, <1>n
  <2> QED BY <2>1, <2>2, <2>3 DEF Live
<1>6. Loose' \subseteq Loose /\ Range(pending) \subseteq Loose
  <2>1. \A t \in Schedulers : sched'[t].phase = "requeue" =>
            sched[t].phase = "requeue" /\ sched'[t].raw = sched[t].raw
    BY <1>2
  <2> QED BY <2>1, <1>2, RangeEmpty DEF Loose
<1>7. ASSUME NEW b \in 1..Len(batches), Last(b), Disjoint(Range(batches[b]), Range(pending))
      PROVE  Last(b)'
  <2> SUFFICES ASSUME NEW c \in 1..n, b < c
               PROVE  Disjoint(Range(batches'[b]), Range(batches'[c]))
    BY <1>3 DEF Last, Disjoint
  <2>1. CASE c = n
    BY <2>1, <1>3, <1>7
  <2>2. CASE c \in 1..Len(batches)
    BY <2>2, <1>3, <1>7 DEF Last
  <2>3. c = n \/ c \in 1..Len(batches)
    BY <1>1, <1>n
  <2> QED BY <2>1, <2>2, <2>3
<1>8. Last(n)'
  BY <1>1, <1>n, <1>3 DEF Last
<1>9. SettledInv'
  <2> SUFFICES ASSUME NEW b \in 1..n, b \notin unacked, Live(b)
               PROVE  Last(b)' /\ Disjoint(Range(batches'[b]), Loose')
    BY <1>2, <1>3, <1>4 DEF SettledInv, Disjoint
  <2>1. b # n
    BY <1>5
  <2>2. b \in 1..Len(batches)
    BY <2>1, <1>1, <1>n
  <2>3. Last(b) /\ Disjoint(Range(batches[b]), Loose)
    BY <2>2 DEF OnceInv, SettledInv
  <2>4. Disjoint(Range(batches[b]), Range(pending)) /\ Disjoint(Range(batches[b]), Loose')
    BY <2>3, <1>6 DEF Disjoint
  <2> QED BY <2>2, <2>3, <2>4, <1>3, <1>7
<1>10. WorkedInv'
  <2> SUFFICES ASSUME NEW t \in Schedulers, Working(t)'
               PROVE  \A b : b = sched'[t].batch => Last(b)'
    BY DEF WorkedInv, Last
  <2>1. CASE t = s
    BY <2>1, <1>2, <1>8 DEF Working
  <2>2. CASE t # s
    <3>1. Working(t) /\ sched'[t] = sched[t]
      BY <2>2, <1>2 DEF Working
    <3>2. /\ sched[t].batch \in 1..Len(batches) /\ Last(sched[t].batch)
          /\ Disjoint(Range(batches[sched[t].batch]), Range(pending))
      BY <3>1, WorkingFacts DEF OnceInv, WorkedInv
    <3> QED BY <3>1, <3>2, <1>7
  <2> QED BY <2>1, <2>2
<1>11. SentInv'
  <2> SUFFICES ASSUME NEW t \in Schedulers, Working(t)', sched'[t].batch \notin unacked
               PROVE  IF sched'[t].phase = "polling"
                      THEN /\ \A tx \in mempool : tx.batch = sched'[t].batch => tx.nonce = sched'[t].nonce
                           /\ sched'[t].batch \in Anchored =>
                                sched'[t].nonce < Len(mined) /\ mined[sched'[t].nonce + 1].ok
                      ELSE ~Live(sched'[t].batch)
    BY <1>2, <1>4 DEF SentInv, SentOK
  <2>1. CASE t = s
    BY <2>1, <1>2, <1>5 DEF Working
  <2>2. CASE t # s
    <3>1. Working(t) /\ sched'[t] = sched[t]
      BY <2>2, <1>2 DEF Working
    <3> QED BY <3>1 DEF OnceInv, SentInv, SentOK
  <2> QED BY <2>1, <2>2
<1>12. NonceInv'
  BY <1>2 DEF OnceInv, NonceInv
<1> QED BY <1>9, <1>10, <1>11, <1>12 DEF OnceInv

\* A step of submit_anchor for s sends at most a transaction of the batch of s,
\* whose records nobody else holds; what is left to show is what is known of
\* its own transactions.
LEMMA AttemptFrame ==
    ASSUME OnceInv, NEW s \in Schedulers, Working(s), Working(s)',
           UNCHANGED <<pending, batches, mined, anchors>>,
           \A t \in Schedulers \ {s} : sched'[t] = sched[t],
           sched'[s].batch = sched[s].batch,
           unacked \subseteq unacked', mempool \subseteq mempool',
           \A tx \in mempool' \ mempool : tx.batch = sched[s].batch,
           SentOK(s)', NonceInv'
    PROVE  SettledInv' /\ WorkedInv' /\ SentInv'
<1>1. PICK d : d = sched[s].batch
  OBVIOUS
<1>2. /\ d \in 1..Len(batches) /\ Disjoint(Range(batches[d]), Loose)
      /\ \A t \in Schedulers \ {s} : Working(t) => sched[t].batch # d
      /\ Last(d)
  BY <1>1, WorkingFacts DEF OnceInv, WorkedInv
<1>3. \A b : Last(b)' <=> Last(b)
  BY LastKept
<1>4. Loose' = Loose
  <2>1. \A t \in Schedulers : (sched'[t].phase = "requeue" <=> sched[t].phase = "requeue")
            /\ (t # s => sched'[t].raw = sched[t].raw)
    BY DEF Working
  <2>2. sched[s].phase # "requeue"
    BY DEF Working
  <2> QED BY <2>1, <2>2 DEF Loose
<1>5. Anchored' = Anchored
  BY DEF Anchored, BatchAlreadyAnchored
<1>6. ASSUME NEW b, b # d
      PROVE  Live(b)' <=> Live(b)
  BY <1>1, <1>5, <1>6 DEF Live
<1>7. SettledInv'
  <2> SUFFICES ASSUME NEW b \in 1..Len(batches), b \notin unacked', Live(b)'
               PROVE  Last(b) /\ Disjoint(Range(batches[b]), Loose)
    BY <1>3, <1>4 DEF SettledInv, Disjoint
  <2>1. CASE b = d
    BY <2>1, <1>2
  <2>2. CASE b # d
    BY <2>2, <1>6 DEF OnceInv, SettledInv
  <2> QED BY <2>1, <2>2
<1>8. WorkedInv'
  <2> SUFFICES ASSUME NEW t \in Schedulers, Working(t)'
               PROVE  Last(sched'[t].batch)
    BY <1>3 DEF WorkedInv
  <2>1. CASE t = s
    BY <2>1, <1>1, <1>2
  <2>2. CASE t # s
    BY <2>2 DEF OnceInv, WorkedInv, Working
  <2> QED BY <2>1, <2>2
<1>9. ASSUME NEW t \in Schedulers, Working(t)'
      PROVE  SentOK(t)'
  <2>1. CASE t # s
    <3>1. PICK e : e = sched[t].batch
      OBVIOUS
    <3>2. /\ Working(t) /\ sched'[t] = sched[t] /\ e # d
      BY <2>1, <3>1, <1>2, <1>9 DEF Working
    <3>3. SentOK(t)
      BY <3>2 DEF OnceInv, SentInv
    <3>4. (Live(e)' <=> Live(e)) /\ \A tx \in mempool' : tx.batch = e => tx \in mempool
      BY <3>2, <1>1, <1>6
    <3>5. Live(sched[t].batch)' <=> Live(e)'
      BY <3>1, <3>2 DEF Live
    <3> QED BY <3>1, <3>2, <3>3, <3>4, <3>5, <1>5 DEF SentOK
  <2> QED BY <2>1
<1>10. SentInv'
  BY <1>9 DEF SentInv
<1> QED BY <1>7, <1>8, <1>10

LEMMA AttemptOnce ==
    ASSUME OnceInv, IInv', NEW s \in Schedulers,
           \/ Prepare(s) \/ EstimateReverts(s) \/ RpcFails(s) \/ Send(s)
           \/ SendRejected(s) \/ SendReplyLost(s) \/ Reverted(s) \/ PollFails(s)
    PROVE  OnceInv'
<1> USE DEF chainVars, history, contractVars
<1>1. PICK d : d = sched[s].batch
  OBVIOUS
<1>2. /\ sched \in [Schedulers -> Locals] /\ Working(s)
      /\ UNCHANGED <<pending, batches, mined, anchors>>
  BY DEF Prepare, EstimateReverts, RpcFails, Send, SendRejected, SendReplyLost, Reverted,
     PollFails, Trying, Calling, Sendable, HasReceipt, Working, OnceInv, IInv, TypeOK
<1>3. Anchored' = Anchored
  BY <1>2 DEF Anchored, BatchAlreadyAnchored
<1>4. d \notin unacked => SentOK(s)
  BY <1>1, <1>2 DEF OnceInv, SentInv
<1>5. ASSUME AttemptFailed(s)
      PROVE  /\ Working(s)' /\ \A t \in Schedulers \ {s} : sched'[t] = sched[t]
             /\ sched'[s].batch = d /\ sched'[s].phase = "built"
  BY <1>1, <1>2, <1>5 DEF AttemptFailed, Locals, Working
<1>6. CASE Prepare(s) \/ EstimateReverts(s) \/ RpcFails(s) \/ SendRejected(s)
  <2>1. /\ UNCHANGED <<mempool, unacked>> /\ sched[s].phase # "polling"
        /\ \/ AttemptFailed(s)
           \/ \E n \in NonceRange : sched' = [sched EXCEPT ![s].phase = "signed", ![s].nonce = n]
    BY <1>6 DEF Prepare, EstimateReverts, RpcFails, SendRejected, Trying, Calling
  <2>2. /\ Working(s)' /\ \A t \in Schedulers \ {s} : sched'[t] = sched[t]
        /\ sched'[s].batch = d /\ sched'[s].phase # "polling"
    <3>1. CASE AttemptFailed(s)
      BY <3>1, <1>5
    <3>2. ASSUME NEW n \in NonceRange,
                 sched' = [sched EXCEPT ![s].phase = "signed", ![s].nonce = n]
          PROVE  /\ Working(s)' /\ \A t \in Schedulers \ {s} : sched'[t] = sched[t]
                 /\ sched'[s].batch = d /\ sched'[s].phase # "polling"
      BY <3>2, <1>1, <1>2 DEF Locals, Working
    <3> QED BY <3>1, <3>2, <2>1
  <2>3. Live(sched[s].batch)' <=> Live(sched[s].batch)
    BY <2>1, <2>2, <1>1, <1>3 DEF Live
  <2>4. SentOK(s)' /\ NonceInv'
    BY <2>1, <2>2, <2>3, <1>1, <1>2, <1>4 DEF SentOK, OnceInv, NonceInv
  <2> QED BY <2>1, <2>2, <2>4, <1>1, <1>2, AttemptFrame DEF OnceInv
<1>7. CASE Reverted(s)
  <2>1. /\ UNCHANGED <<mempool, unacked>> /\ AttemptFailed(s) /\ sched[s].phase = "polling"
        /\ sched[s].nonce < Len(mined) /\ ~mined[sched[s].nonce + 1].ok
    BY <1>7 DEF Reverted, HasReceipt
  <2>2. d \notin unacked => ~Live(d)
    <3> SUFFICES ASSUME d \notin unacked
                 PROVE  ~Live(d)
      OBVIOUS
    <3>1. d \notin Anchored /\ \A tx \in mempool : tx.batch = d => tx.nonce = sched[s].nonce
      BY <2>1, <1>1, <1>4 DEF SentOK
    <3>2. \A tx \in mempool : tx.nonce >= Len(mined)
      BY DEF OnceInv, NonceInv
    <3>3. sched[s].nonce \in Nat /\ Len(mined) \in Nat /\ \A tx \in mempool : tx.nonce \in Nat
      BY <1>2, LenProperties DEF Locals, Transactions, NonceRange, OnceInv, IInv, TypeOK
    <3> QED BY <3>1, <3>2, <3>3, <2>1 DEF Live
  <2>3. Live(sched[s].batch)' <=> Live(d)
    BY <2>1, <1>3, <1>5 DEF Live
  <2>4. SentOK(s)' /\ NonceInv'
    BY <2>1, <2>2, <2>3, <1>2, <1>5 DEF SentOK, OnceInv, NonceInv
  <2> QED BY <2>1, <2>4, <1>1, <1>2, <1>5, AttemptFrame DEF OnceInv
<1>8. CASE PollFails(s)
  <2>1. mempool' = mempool /\ AttemptFailed(s) /\ unacked' = unacked \cup {d}
    BY <1>8, <1>1 DEF PollFails
  <2>2. SentOK(s)' /\ NonceInv'
    BY <2>1, <1>2, <1>5 DEF SentOK, OnceInv, NonceInv
  <2> QED BY <2>1, <2>2, <1>1, <1>2, <1>5, AttemptFrame DEF OnceInv
<1>9. ASSUME Sendable(s), mempool' = mempool \cup {SignedTx(s)}
      PROVE  NonceInv' /\ SignedTx(s).batch = d /\ SignedTx(s).nonce = sched[s].nonce
  BY <1>1, <1>2, <1>9 DEF Sendable, NonceFree, SignedTx, OnceInv, NonceInv
<1>10. CASE SendReplyLost(s)
  <2>1. /\ Sendable(s) /\ mempool' = mempool \cup {SignedTx(s)}
        /\ AttemptFailed(s) /\ unacked' = unacked \cup {d}
    BY <1>10, <1>1 DEF SendReplyLost
  <2>2. SentOK(s)' /\ NonceInv'
    BY <2>1, <1>5, <1>9 DEF SentOK
  <2> QED BY <2>1, <2>2, <1>1, <1>2, <1>5, <1>9, AttemptFrame DEF OnceInv
<1>11. CASE Send(s)
  <2>1. /\ Sendable(s) /\ mempool' = mempool \cup {SignedTx(s)} /\ unacked' = unacked
        /\ sched' = [sched EXCEPT ![s].phase = "polling"] /\ sched[s].phase = "signed"
    BY <1>11 DEF Send, Sendable
  <2>2. /\ Working(s)' /\ \A t \in Schedulers \ {s} : sched'[t] = sched[t]
        /\ sched'[s].batch = d /\ sched'[s].phase = "polling" /\ sched'[s].nonce = sched[s].nonce
    BY <2>1, <1>1, <1>2 DEF Locals, Working
  <2>3. d \notin unacked => d \notin Anchored /\ \A tx \in mempool : tx.batch # d
    BY <2>1, <1>1, <1>4 DEF SentOK, Live
  <2>4. SentOK(s)'
    BY <2>1, <2>2, <2>3, <1>3, <1>9 DEF SentOK
  <2> QED BY <2>1, <2>2, <2>4, <1>1, <1>2, <1>9, AttemptFrame DEF OnceInv
<1> QED BY <1>6, <1>7, <1>8, <1>10, <1>11

\* The sequencer brings no batch to life, and a batch that gets on the chain
\* while it is polled does so by the transaction that is polled.
LEMMA ChainFrameOnce ==
    ASSUME OnceInv, UNCHANGED <<pending, sched, batches, unacked>>,
           mempool' \subseteq mempool, \A b : Live(b)' => Live(b),
           \A s \in Schedulers : Working(s) /\ SentOK(s) => SentOK(s)',
           NonceInv'
    PROVE  SettledInv' /\ WorkedInv' /\ SentInv'
<1>1. (\A b : Last(b)' <=> Last(b)) /\ Loose' = Loose /\ \A s \in Schedulers : Working(s)' <=> Working(s)
  BY LastKept DEF Loose, Working
<1>2. SettledInv'
  BY <1>1 DEF OnceInv, SettledInv, Disjoint
<1>3. WorkedInv'
  BY <1>1 DEF OnceInv, WorkedInv
<1>4. \A s \in Schedulers : Working(s)' => SentOK(s)'
  BY <1>1 DEF OnceInv, SentInv
<1>5. SentInv'
  BY <1>4 DEF SentInv
<1> QED BY <1>2, <1>3, <1>5

LEMMA DropOnce ==
    ASSUME OnceInv, IInv', NEW tx \in mempool, Drop(tx)
    PROVE  OnceInv'
<1>1. /\ mempool' = mempool \ {tx}
      /\ UNCHANGED <<pending, sched, batches, unacked, mined, anchors>>
  BY DEF Drop, schedVars, history, contractVars
<1>2. Anchored' = Anchored
  BY <1>1 DEF Anchored, BatchAlreadyAnchored
<1>3. \A b : Live(b)' => Live(b)
  BY <1>1, <1>2 DEF Live
<1>4. \A s \in Schedulers : SentOK(s) => SentOK(s)'
  <2> SUFFICES ASSUME NEW s \in Schedulers, SentOK(s)
               PROVE  SentOK(s)'
    OBVIOUS
  <2>1. Live(sched[s].batch)' => Live(sched[s].batch)
    BY <1>1, <1>2 DEF Live
  <2> QED BY <2>1, <1>1, <1>2 DEF SentOK
<1>5. NonceInv'
  BY <1>1 DEF OnceInv, NonceInv
<1> QED BY <1>1, <1>3, <1>4, <1>5, ChainFrameOnce DEF OnceInv

LEMMA MineOnce ==
    ASSUME OnceInv, IInv', NEW tx \in mempool, Mine(tx)
    PROVE  OnceInv'
<1> USE DEF schedVars, history, contractVars
<1>1. /\ tx.nonce = Len(mined) /\ mempool' = mempool \ {tx}
      /\ mined' = Append(mined, [batch |-> tx.batch, ok |-> Accepts(Deployer, tx.batch)])
      /\ UNCHANGED <<pending, sched, batches, unacked>>
  BY DEF Mine
<1>2. /\ mined \in Seq([batch : BatchIds, ok : BOOLEAN]) /\ Len(mined) \in Nat
      /\ \A ux \in mempool : ux.nonce \in Nat /\ ux.batch \in BatchIds
      /\ \A s \in Schedulers : sched[s].nonce \in Nat
  BY LenProperties DEF OnceInv, IInv, TypeOK, Transactions, NonceRange, Locals
<1>3. [batch |-> tx.batch, ok |-> Accepts(Deployer, tx.batch)] \in [batch : BatchIds, ok : BOOLEAN]
  BY <1>2 DEF Accepts, BatchAlreadyAnchored
<1>4. /\ Len(mined') = Len(mined) + 1
      /\ mined'[Len(mined) + 1].ok = Accepts(Deployer, tx.batch)
      /\ \A i \in 1..Len(mined) : mined'[i] = mined[i]
  BY <1>1, <1>2, <1>3, AppendProperties
<1>5. \A b : b \in Anchored' => b \in Anchored \/ (b = tx.batch /\ Accepts(Deployer, b))
  BY DEF Mine, AnchorBatch, Anchored, BatchAlreadyAnchored, OnceInv, IInv, TypeOK
<1>6. \A b : Live(b)' => Live(b)
  BY <1>1, <1>5 DEF Live
<1>7. NonceInv'
  <2>1. \A ux \in mempool' : ux \in mempool /\ ux.nonce >= Len(mined) + 1
    <3> SUFFICES ASSUME NEW ux \in mempool'
                 PROVE  ux \in mempool /\ ux.nonce >= Len(mined) + 1
      OBVIOUS
    <3>1. ux \in mempool /\ ux.nonce >= Len(mined) /\ ux.nonce # Len(mined)
      BY <1>1 DEF OnceInv, NonceInv
    <3> QED BY <3>1, <1>2
  <2> QED BY <2>1, <1>4 DEF OnceInv, NonceInv
<1>8. ASSUME NEW s \in Schedulers, SentOK(s)
      PROVE  SentOK(s)'
  <2>1. PICK d : d = sched[s].batch
    OBVIOUS
  <2> SUFFICES ASSUME d \notin unacked
               PROVE  IF sched[s].phase = "polling"
                      THEN /\ \A ux \in mempool' : ux.batch = d => ux.nonce = sched[s].nonce
                           /\ d \in Anchored' =>
                                sched[s].nonce < Len(mined') /\ mined'[sched[s].nonce + 1].ok
                      ELSE ~Live(d)'
    <3>1. Live(sched[s].batch)' <=> Live(d)'
      BY <2>1, <1>1 DEF Live
    <3> QED BY <3>1, <2>1, <1>1 DEF SentOK
  <2>2. CASE sched[s].phase # "polling"
    BY <2>1, <2>2, <1>6, <1>8 DEF SentOK
  <2>3. CASE sched[s].phase = "polling"
    <3>1. /\ \A ux \in mempool : ux.batch = d => ux.nonce = sched[s].nonce
          /\ d \in Anchored => sched[s].nonce < Len(mined) /\ mined[sched[s].nonce + 1].ok
      BY <2>1, <2>3, <1>8 DEF SentOK
    <3>2. CASE d \in Anchored
      <4>1. sched[s].nonce + 1 \in 1..Len(mined)
        BY <3>1, <3>2, <1>2
      <4> QED BY <4>1, <3>1, <3>2, <2>3, <1>1, <1>2, <1>4
    <3>3. CASE d \notin Anchored
      <4>1. d \in Anchored' => d = tx.batch /\ Accepts(Deployer, tx.batch)
        BY <3>3, <1>5
      <4>2. d = tx.batch => sched[s].nonce = Len(mined)
        BY <3>1, <1>1
      <4> QED BY <4>1, <4>2, <3>1, <2>3, <1>1, <1>2, <1>4
    <3> QED BY <3>2, <3>3
  <2> QED BY <2>2, <2>3
<1> QED BY <1>1, <1>6, <1>7, <1>8, ChainFrameOnce DEF OnceInv

LEMMA OnceInvariance == Spec => []OnceInv
<1>1. Init => OnceInv
  <2> SUFFICES ASSUME Init
               PROVE  OnceInv
    OBVIOUS
  <2>1. Len(batches) = 0 /\ \A s \in Schedulers : ~Working(s)
    BY DEF Init, Idle, Working
  <2>2. SettledInv /\ WorkedInv /\ SentInv
    BY <2>1 DEF SettledInv, WorkedInv, SentInv
  <2>3. NonceInv
    BY DEF Init, NonceInv
  <2> QED BY <2>2, <2>3, InitIInv DEF OnceInv
<1>2. OnceInv /\ [Next]_vars => OnceInv'
  <2> SUFFICES ASSUME OnceInv, [Next]_vars
               PROVE  OnceInv'
    OBVIOUS
  <2>1. IInv'
    BY NextIInv DEF OnceInv
  <2>2. CASE UNCHANGED vars
    BY <2>1, <2>2, LooseStep DEF OnceInv, vars, Loose, Working
  <2>3. ASSUME NEW s \in Schedulers, Progress(s) \/ Failure(s)
        PROVE  OnceInv'
    BY <2>1, <2>3, LooseSteps, GiveUpStep, DrainOnce, AttemptOnce DEF Progress, Failure
  <2>4. ASSUME NEW tx \in mempool, Mine(tx) \/ Drop(tx)
        PROVE  OnceInv'
    BY <2>1, <2>4, MineOnce, DropOnce
  <2> QED BY <2>1, <2>2, <2>3, <2>4, LooseSteps DEF Next, MineNext
<1> QED BY <1>1, <1>2, PTL DEF Spec

\* No record is anchored twice, for any number of replicas, providers and
\* failures, unless a batch holding it was sent by an attempt that then raised
\* (submit_anchor).
THEOREM AnchoredOnceUnlessUnacked == Spec => []AnchoredTwiceOnlyIfUnacked
<1>1. ASSUME OnceInv
      PROVE  AnchoredTwiceOnlyIfUnacked
  <2> SUFFICES ASSUME NEW b \in Anchored, NEW c \in Anchored, b < c, b \notin unacked
               PROVE  Disjoint(Range(anchors[b].root), Range(anchors[c].root))
    BY DEF AnchoredTwiceOnlyIfUnacked, Disjoint
  <2>1. /\ anchors[b].root = batches[b] /\ anchors[c].root = batches[c]
        /\ b \in 1..Len(batches) /\ c \in 1..Len(batches)
    BY <1>1, BoundsAssumption, LenProperties DEF OnceInv, IInv, ChainInv, TypeOK, Anchored
  <2>2. Last(b)
    BY <1>1, <2>1 DEF OnceInv, SettledInv, Live
  <2> QED BY <2>1, <2>2 DEF Last
<1> QED BY <1>1, OnceInvariance, PTL
=============================================================================
