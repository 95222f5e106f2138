# Verification of the sovereign-agent provenance stack

TLA+ specifications of this repository's code, TLC runs on small instances, and
theorems checked by TLAPS. Paths are relative to the root of the repository;
`layer1`, `layer3` and `shared` stand for `src/layer1`, `src/layer3` and
`src/shared`.

## 1. The system

Layer 3 records what an AI agent does (a *session*), seals the session under a
Merkle root, and hands the root to an *anchoring pipeline*, which collects roots
into batches and commits each batch's root to a contract on Base L2. It also
sends the session's metrics to layer 1, which keeps a behavioural baseline per
agent, registers agents (KYA), assigns trust tiers and can revoke in bulk.
Layer 2 (ASOR) is another system.

| component | state | operations | interacts with | hard behaviour | correct when |
|---|---|---|---|---|---|
| anchor contract `BatchAnchor.sol` | `anchors`, `anchorCount` | `anchorBatch`, `getAnchor` | submitter, through the chain | the same batch sent twice | a row is written once, by the owner |
| anchor scheduler `layer3/pipeline/scheduler.py` | Redis list `anchor:pending_records` | enqueue, drain, requeue, loop | sessions push, the submitter takes | replicas on one list, lost replies, crash between drain and receipt | no record lost or owned twice; all of them anchored in the end |
| anchor submitter `anchor_submitter.py` | locals of a call | nonce, estimate, send, poll | two RPC providers, contract | lost replies, timeouts, nonce races | an error means "not sent", success means "on the chain" (neither always holds) |
| batch extension, Merkle tree | layers of a tree | build, `get_proof`, `verify_proof` | scheduler, sessions | odd layers, unsided proofs | every inclusion proof verifies, for its leaf only |
| capture `layer3/sdk/capture.py` | records, counters, `_finalized` | eleven `record_` methods, `finalize`, `verify_integrity`, `to_5w_artifacts` | agent code shares nested dicts | aliasing; counting before hashing; a verification that raises | the root covers what was accepted |
| session manager `session.py` | `_ended` | `end_session` | storage thread, Redis list and stream | overlapping ends, cancellation, partial failure | published once, with the whole session |
| session service, router | dicts of active sessions and summaries | start, record, end, get | session manager | restart loses memory | as above |
| storage `storage.py` | five files | `write_session` | a thread beside the event loop | failure between files, mutation while writing | a reported path means five files |
| feedback emitter | stream `stream:behavioral_session` | `emit_session_feedback` | behavioural consumer | lost reply | one event, same numbers as the records |
| behavioural consumer, scoring `layer1/behavioral` | baseline and score per agent, consumer group | process, update, score, ack | stream, Redis | events delivered and not acknowledged, lost updates, stale scores | every event counted once, in order; the score is that of the last session, and bounded |
| KYA engine | rows of `agents` | register, verify, suspend, revoke | Postgres, event stream | read, check, unguarded UPDATE | REVOKED is terminal |
| trust tiers `layer1/trust` | cached tier with TTL, stream `stream:trust_tier_change` | promote, demote, read | Redis, rows of `agents` | a cache nothing writes back, promotions that overwrite each other, SET without event | every tier shown was announced; a promotion moves it up by one (it does so once) |
| circuit breaker | flag, stream `stream:vc_revoke` | activate, deactivate, bulk revoke | KYA rows, stream | half-done revocation, replicas that disagree | everyone in scope is revoked |

## 2. The modules

| module | what it is |
|---|---|
| `BatchAnchor` | the contract: its guard (`Accepts`) and its update, as operators for `AnchorPipeline` |
| `AnchorLedger` | abstract: an append-only ledger of distinct accepted records |
| `AnchorPipeline` | queue, schedulers, submitters, account, sequencer, contract |
| `AnchorPipeline_proofs` | its inductive invariant, and the refinement of `AnchorLedger` |
| `SealedLogs` | abstract: logs that grow, close once, and are published at most once |
| `SessionCapture` | capture, session manager and service, storage thread, emitter |
| `SessionCapture_proofs` | its inductive invariant, its five safety properties, and the refinement of `SealedLogs` |
| `MerkleTree` | `_build`, `get_proof`, `verify_proof`, one action per iteration |
| `MerkleTree_proofs` | inclusion proofs are exact; a root determines the set of leaves |
| `AgentLifecycle` | the lifecycle machine: source and target states of each event |
| `AgentRegistry` | KYA requests and bulk revocations on the table of agents and two streams |
| `AgentRegistry_proofs` | rows against the lifecycle machine, events against rows, whom a bulk revocation reaches and how many it announces |
| `SumTheorems` | lemmas: induction in the form the provers can use, and what `MapThenSumSet` adds up |
| `TrustTiers` | tier changes composed with the registry whose rows they read |
| `TrustTiers_proofs` | the composition implements the registry; tiers against announcements |
| `AnomalyScoring` | `baselines.py` and `scoring.py` in exact arithmetic |
| `BehavioralConsumer` | the consumer group, its workers, baselines and scores |
| `BehavioralConsumer_proofs` | counted once, forgotten only for a reason, scores current and bounded, baselines in closed form |
| `MCAnchorPipeline`, `MCSessionCapture`, `MCMerkleTree`, `MCAgentRegistry`, `MCTrustTiers` | failure bounds and symmetry for TLC |

### AnchorPipeline

`pending` is the Redis list. `sched[s]` holds the locals of
`build_and_submit_batch` and `submit_anchor` in replica `s`: the phase, the raw
records, the batch, the number of failed attempts and the nonce. `batches` are
the `BatchResult`s, identified by position (a uuid in the code). `mempool` and
`mined` are the deployer's account as the network sees it, and are external,
with `Mine`, `Drop`, `NonceFree` and `Sendable`: nonces are used in order, a used
or held nonce is refused, a gap is accepted. `anchors` and `anchorCount` are the
contract's. `enqueued`, `abandoned`, `unacked` are history and `faults` counts
failures; no action reads the history, and `faults` is only the bound. The one
exception is that `Enqueue` takes a record only once: the id of a record is fresh.

An action is the code between two awaits whose effect another process can see.
`Drain` is MULTI/EXEC and everything up to the first RPC call; `Prepare` merges
`eth_getTransactionCount`, the base fee and the estimate, which only read;
`Send`, `SendReplyLost` and `SendRejected` are the three outcomes of
`eth_sendRawTransaction`; `Confirm`, `Reverted`, `PollFails` and
`ReceiptTimeout` are those of polling. `ReceiptTimeout` may happen at any time
while polling: 60 s is a bound on nothing the chain promises. A `RuntimeError`
while polling is swallowed by the code and is a stuttering step here.

A root is represented by the sequence of records it commits to. Roots are less
precise than that: pairs are sorted and an odd last node is doubled, so `<<a, b>>`
and `<<b, a>>` share a root. Nothing in the properties compares roots of
different batches. On-chain ids are 64 bits of a hash and are taken to differ.

### SessionCapture

A process is a layer-3 server (sessions driven over HTTP, plain JSON data) or an
agent with its own `SessionManager`, as the README of the repository shows it;
`wiring` says which, whether Redis was reachable at start, and where artifacts
go (`none` is a manager without settings). `phase` is the manager's `_ended`,
`active` the service's dict, `results` the summaries handed out and kept in
`_completed_summaries`, `calls` the suspended `end_session` coroutines.

`records[s][i]` has the hash taken when the record was appended (a content) and
the present content of `data`. They differ after `Mutate`: the agent changed a
dict or list that it had passed in. `Unserializable` contents are those
`json.dumps` refuses without `default=str`, which the transcript meets, and the
event if they are among the data sources of a tool (`CannotEmit`). `Unsortable`
contents have keys that `_canonical_json` cannot sort, because `default=str` does
not apply to keys: no such content is ever appended (`RecordRaises`), but a
recorded dict may become one.

`tally[s]` holds the four numbers the event reports: tool invocations, dead ends,
cost (each call that costs adds one unit) and data sources. `feeds` in a record
names those it added to. Four of the eleven `record_` methods feed one:
`RecordToolInvocation` counts a tool and, as `ToolExtras` allows, a cost and a
data source; `RecordObservation` and `RecordLlmCall`, which have no endpoint in
the router, feed the data sources and the cost; `RecordDeadEnd` the dead ends.
`RecordStep` stands for the seven others, and for an observation or an LLM call
without a source or a cost. `RecordRaises` is an append whose hashing raises after
the counters moved. Dead ends and cost reach the event through the summary, tools
and data sources through the capture at the time it is sent. The event's duration
and its identifiers are left out.

`EndSession` is everything up to the first await: pop, `_ended`, finalize,
verify, root, summary, artifacts. Where a record has become unsortable,
`verify_integrity` raises when `_ended` is set already, outside any `try`
(`session.py:136-142`): `EndRaises` ends the session, and nothing is stored, pushed
or sent (`raised` remembers it). `StorageReturns`, `Enqueue`, `Emit` resume the
coroutine; each has its failures, and `Cancel` may come at any await, after
which the storage thread (`WriteArtifact`, `WriteRaises`) still runs. A failed
RPUSH or XADD may or may not have been applied. The artifact `operations.json`
and the others are counted but only the transcript's contents are kept. The S3 writer of the repository is a placeholder that writes
nothing and reports a path, and is modelled as that.

Several replicas are several instances of the module: sessions share nothing
but the death of their process.

### MerkleTree

`layers` is `_layers`, `trail` the values of `idx`, `proof` the list,
`current` and `checked` the loop of `verify_proof`. SHA-256 is a free
constructor and the prefixes are tags; a node is the set of its children,
because `_hash_node` sorts them. `RootOf` is the same construction as a
function, and `RootFixesLeaves` compares the roots of all lists with the root of
the tree that was built: a root commits to the set of its leaves and, as the code
is, to neither their order nor their number.

### AgentRegistry

`status` and `created` are the table `agents`; `trustEvents` and `vcRevoke` are
the streams `stream:trust_event` and `stream:vc_revoke`; `req[q]` holds the
locals of the handler of request `q`, which is answered once (`ok`, `refused`,
`error`). Which replica serves a request makes no difference: the code keeps no
agent in memory. `outdated`, `unheard` and `targets` are history.

A handler is cut at its commands, because asyncpg commits each of them on its
own: there is no transaction in this code. `Check` is `get_agent` with the
machine's verdict (`Refuse` the 404 or 409), `Update` the UPDATE, `Publish` the
XADD of a registration or revocation; `Register` is the INSERT. `Query` is
`list_agents` with the router's two filters, `Announce` and `RevokeNext` are the
XADDs of the bulk revocation. `Raises` is a command that fails without effect,
`UpdateReplyLost`, `RegisterReplyLost` and `XaddReplyLost` one whose effect stays.
A SELECT or INSERT that fails without effect changes nothing but the answer, and
is left out. A replica that dies ends its requests like a failing command.

`created_at` is the clock of the replica, so `InsertRow` puts a row at any place
in that order. The order of the list of a bulk revocation is left open, which
allows more than the code does. A scope is a set of agents: those of a class or
of an authorizer; for the scope `trust_tier` it is everybody or nobody, since
`register_agent` writes tier 0 and nothing updates it.

`metadata` is a dict given to a `jsonb` parameter. The repository's tests mock
the connection; the model takes that encoding to work as they do. The breaker's
own flag (`activate`, `deactivate`) is read by nothing in the repository and is
not modelled.

### TrustTiers

It extends `AgentRegistry`: a request is either one of the registry's or a tier
change, and each step is one of the registry's with the tiers unchanged, or the
other way round. The only coupling is `Lookup`, the SELECT of the row.
`tierCache` is the key `trust:tier:{agent_id}`, with `ExpireTier` for its 300 s;
`tierEvents` is `stream:trust_tier_change`; `treq` holds the locals of a handler:
SET, XADD, and the GET the answer is read from. A promotion starts from the tier
of the row (`RowTier`), not from the one the cache shows, and no statement of the
repository writes that column after registration: `RowTier` is the constant 0,
`NewTiers` still states both checks. Each command may fail before or after it is
applied. The weight of a tier is a table of constants and is left out.

### AnomalyScoring and BehavioralConsumer

`stream` is `stream:behavioral_session`, `cursor` and `pending` are the state of
the group `behavioral_engine`, `work[w]` the locals of a worker: what remains
of the batch XREADGROUP gave it, the phase of the first of these messages, and
the baseline it computed. A message is cut at its commands: GET of the baseline
(`Load`, with `update_baseline`), SET of the baseline (`Store`), SET of the score
(`Cache`, with `compute_z_scores` and the composite score), XACK (`Ack`).
`Raises` is a command that fails without effect, `StoreReplyLost`,
`CacheReplyLost`, `AckReplyLost` one whose effect stays: the exception is logged
and the next message is taken. An exception of XREADGROUP ends the process, as
`Crash` does, and `Restart` is what Kubernetes does then. `Expire` is the 30
minutes of a score. `values.yaml` runs one worker, and two exist while a new
version is rolled out; all call themselves `worker-1`, which changes nothing,
because no code asks for pending entries.

The arithmetic is exact. With `alpha = 2 / (Span + 1)` the mean of a baseline of n
sessions is a multiple of `1 / (Span + 1)^(n-1)` and its variance a multiple of
the square of that; a baseline keeps the two integers and the scale, and
a score stands for the square of its z-score, as a fraction. One metric stands
for the four, which the code treats alike and independently. Rounding (four
digits), the tolerance 1e-10 below which a deviation counts as none, and the names
of the contributing factors are left out. `total_sessions` is the length of
`sessions`, which also records which sessions they were.

`cutShort`, `contended` and `stale` are history: sessions whose handling a failure
ended, agents whose baseline two workers touched at once, agents whose score
expired or was not written.

## 3. The runs

| run | instance | shows |
|---|---|---|
| `anchor_safety` | 3 records, 2 replicas, 2 providers, 3 batches; 2 RPC failures, 1 of each other kind | `TypeOK`, `NoRecordLost`, `SingleCustody`, `AnchoredTwiceOnlyIfUnacked`, and the refinement `LedgerSpec` |
| `anchor_live` | 2 records, 2 replicas, 6 batches, 2 RPC failures | `EventuallyAnchored` |
| `anchor_settle` | 2 records, 2 replicas and one unconfigured worker, 1 provider, 5 batches, 5 timeouts, 1 of each other kind | `EventuallySettled` |
| `anchor_timeout_doc` | as `anchor_safety`, smaller | violates `FailureRequeues`: a receipt timeout is reported as success |
| `session` | 1 session, 2 overlapping calls, 2 records, 3 contents (plain, not serialisable, not sortable), 1 failure of each kind, all 10 wirings, fair | `TypeOK`, `PathMeansStored`, `TamperingReported`, `FeedbackMatchesRecords`, `SessionIsFindable`, the refinement `SealedLogSpec`, `EndReturns`, `RootReachesQueue` |
| `session_frozen_doc` | as `session`, with 3 records | violates `RecordsFrozen`: a recorded dict can change |
| `merkle` | all trees of 1 to 6 leaves over 3 values, all positions and claims | `TypeOK`, `VerifiesExactly`, `RootFixesLeaves` |
| `registry` | registry and tiers together: 3 agents, 4 requests of any kind, every scope, a list of at most 2 rows, 2 failing commands of each part | `TypeOK`, `RowsAreHeardOf`, `StreamMatchesRow`, `BulkCoversScope`, `BulkAccounted`, `LifecycleFollowed`; `TierTypeOK`, `TierIsHeardOf` |
| `revoked_terminal` | the registry alone, smaller | violates `RevokedIsTerminal`: a status change checked earlier overwrites REVOKED |
| `promote_doc` | registry and tiers: 1 agent, 3 requests, no failures | violates `PromotesByOneLevel`: a second promotion repeats the first |
| `behavioral` | 2 agents, 2 workers, 3 sessions of 2 values, batches of 2, 1 failure; span 3, cold start 2, clip 2; fair | `TypeOK`, `CountedOnce`, `NoSessionForgotten`, `ScoreIsCurrent`, `ScoreBounded`, `BaselineIsWeightedMoments`, `EventuallyHandled` |
| `replay_doc` | 1 worker, 2 sessions, 1 failure, fair | violates `PendingIsReplayed`: what was delivered and not acknowledged is never read again |

Why the bounds suffice. Anchoring: the hazards need two replicas, one requeue
and a second batch for the same record; three records let a requeue be
interrupted with records on both sides of the cut, and three batches allow an
anchored batch, its repetition and a stranger. In the live runs `MaxBatches` and
the failures are matched so that the bound on batches is never what stops the
system: each failure costs at most one batch (two replicas can each drain one
record), and in `anchor_settle` five timeouts are enough for every batch.
Sessions: two calls are the least that overlap, two records make a torn,
shifted or reordered list visible and allow a record to be tampered with beside
one that is not, and five files are written one by one. One unserialisable and
one unsortable content are all the code tells apart; every tool invocation of the
run costs and names a data source, LLM calls and observations do one of these
alone. Sessions share nothing
but the death of their process, so one is enough. Trees: 5 and 6
leaves have odd layers above the lowest, 1 has an empty proof. Registry: a
registration, two overlapping changes of one agent and a bulk revocation are
four requests; with three rows and `Limit` 2 the list of 10000 rows is cut, and
two failures let two of the requests end half done. The same four requests are
shared with the tier changes: two promotions of one agent around an expiry need
three. Consumer: two workers and three sessions of two agents let a worker hold a
batch with both agents while the other stores one of them, and a failure strikes
in the middle of a batch; a span of 3, a cold start of 2 and a clip of 2 stand for
20, 5 and 4, so that scores are reached with three sessions, and as in the code the clip
is above what a score can be. `behavioral` has at most three
updates of a baseline, with a variance that is not zero from the second on.

Deadlock is not checked: all these systems stop when nothing is left to do.

Fairness. `AnchorPipeline`: weak fairness of every scheduler (`run_anchor_scheduler`
loops for ever and catches `Exception`, so the event loop always resumes it) and
of mining (the sequencer produces blocks). A receipt timeout is among the
scheduler's fair steps, since the poll loop ends after 60 s; failures, drops and
crashes are never fair. `SessionCapture`: weak fairness of every suspended
coroutine and of the storage thread; nothing obliges an agent to end a session.
`BehavioralConsumer`: weak fairness of every worker's own steps
(`run_consumer_loop` never ends by itself, and Kubernetes restarts a worker that
died); no session needs to be emitted, no failure and no expiry ever happens by
obligation.

Symmetry is used in safety runs only: records and replicas, leaf values, agents
and requests.

## 4. The proofs

`AnchorPipeline_proofs`, for all values of the constants under
`BoundsAssumption` and `ConfigurationAssumption`:

- `TypeCorrect`, `NothingLostSilently`, `OneOwner`: `[]TypeOK`,
  `[]NoRecordLost`, `[]SingleCustody`.
- `AnchoredOnceUnlessUnacked`: `[]AnchoredTwiceOnlyIfUnacked`.
- `ImplementsLedger`: `Spec => LedgerSpec`.

The inductive invariant `IInv` adds to the three properties: what a scheduler's
locals mean (`LocalsInv`: an idle scheduler holds nothing, and from the drain
until a requeue starts a scheduler holds the whole batch it built), that batches are
non-empty, without repetition and made of enqueued records (`BatchesInv`), that
a transaction or row of batch `b` is about a batch that exists and that a row's
root is that batch (`ChainInv`), and that records in the queue and in the
schedulers' hands were enqueued (`SourceInv`). `NoRecordLost` needs the second and third: `Confirm` lets go of
the records because the receipt says that their batch is in `anchors`. For the
refinement, `Mine` is `Commit`, `Enqueue` is `Accept`, every other step
stutters; a batch mined twice reverts, by `BatchAlreadyAnchored`.

`AnchoredTwiceOnlyIfUnacked` needs a second invariant, `OnceInv`, on top of the
first. Unless it is unacked, a batch with a transaction or a row has its records
in no later batch and nowhere from where they could come into one
(`SettledInv`); those of a batch that is being submitted are in no later batch
either (`WorkedInv`). Both rest on what the code does with nonces: before a send no transaction of the batch exists unless an
earlier attempt raised after sending, and while polling none but that of the
polled nonce (`SentInv`); there is one transaction per nonce, and none for a used
one (`NonceInv`). So a scheduler that gives up without having been left in doubt
leaves no transaction behind, and requeueing the records is harmless.

`SessionCapture_proofs`, for any sessions, calls of `end_session`, contents and
wirings, under `SessionBounds`: `TypeCorrect`, `PathMeansComplete`,
`TamperingIsReported`, `FeedbackIsOfRecords`, `SessionsAreFindable` (the five
invariants of the run) and `SessionsAreSealedLogs`, `Spec => SealedLogSpec`. None
of the five but the last is inductive: what a summary says when it is returned was
computed before the first await, so the invariant says of every summary, also of
one a suspended call still carries, that it agrees with the capture, which is
frozen by then (`Agrees`), that its errors or a later change by the agent explain
every record and every transcript line that is not as hashed (`Explains`), and
that its path means a finished thread (`PathHolds`). To this it adds how far the
thread is (`WriterOK`), that nothing is stored or sent before `end_session`
(`UntouchedOK`), that what was sent is the root and the counters of the capture,
once (`SentOK`), that a call that has not sent its root or its event finds none
sent, which needs that no two calls are ever about the same session (`CallOK`,
`OneCallInv`), that each of the four counters is that of the records (`TallyOK`),
and that what a server records can always be verified, since JSON bodies have
sortable keys (`CanonOK`): `SessionIsFindable` would not survive `EndRaises`
otherwise.
`AnswerStep` shows once that a step of one call keeps all of it, given what the
step does to its own session; the actions of `end_session` are instances. In the
refinement the `record_` methods are `Record`, `EndSession`, `EndRaises` and the
death of the process `Seal`, the push of the root, even when its reply is lost, `Publish`.

`MerkleTree_proofs`, for any `MaxLeaves` and `Data`: `TypeCorrect`,
`InclusionProofsExact` and `RootsFixLeaves`. The invariant: each layer is `NextLayer` of the one
below; `trail` climbs by `Parent` and `proof` holds the siblings of its nodes;
and the hash `verify_proof` has reached is the node of the trail at that height
if and only if the claimed leaf is the one at the bottom. The step is
`ParentHash` (a parent is the hash of a child and its `Sibling`, for both
parities and at the right edge) with `SameParent` (with one sibling, different
children have different parents: here SHA-256 counts as injective). For
`RootsFixLeaves` two towers of layers are taken down from their common root in
step: the hashes of a layer determine those of the layer below (`LowerSameRoot`),
and leaves are tagged differently from nodes, so both towers reach their leaves
together. The layers of `RootOf` are a recursive function, whose unfolding
(`RunExists`, `LayersAreTower`) is itself an induction.

`AgentRegistry_proofs`, for any agents, requests, scopes and limit:
`TypeCorrect`, `RowsHeardOf`, `StreamFollowsRows`, `BulkReachesItsScope`,
`BulkIsAccounted`, and `LifecycleFollowedUnlessOvertaken` for the action property
`LifecycleFollowed`.
The inductive invariant adds that a checked request still has a status its event
may leave, unless its agent is `outdated` (`CheckedInv`: every other UPDATE of
the agent in between marks it), that a request about to publish registers or
revokes some agent (`PublishInv`), and that a revocation between its
UPDATE and its event is the only one of its agent, with the row revoked and no
event yet (`RevokingInv`). `StreamMatchesRow` is the same fact after the event.

`BulkCoversScope` needs that a bulk revocation has at every moment either reached
an agent of its scope, or has it still to do, or never had it in the list because
`Limit` newer rows were before it (`CoverInv`); rows are only ever added in front,
so an agent that is behind stays behind (`BehindKept`). `BulkAccounted` is an
equation between two sums and a cardinality, kept by every step: an announcement
adds the same number to both sides, a revocation moves one unit from what a
request owes to the stream (`OwedStep`, `LogStep`). The requests are not assumed
to be finite, so `AccountInv` says that those which owe something are.

`SumTheorems` is where `RootsFixLeaves`, `BulkIsAccounted` and, below,
`BaselinesAreWeightedMoments` get their inductions. The library's
induction theorems take an operator as a parameter, which the provers cannot
instantiate; stated about sets of numbers instead of formulas, and about sets of
finite sets, the same principles (`NumberInduction`, `SetInduction`) follow from
the library's well-foundedness of `Nat` and can be used. `MapThenSumSet`, a fold,
is then shown to be what one counts: for natural numbers the number of pairs of an
element and a number up to its value (`SumIsTotal`), for integers the difference
of two such numbers (`SumIsBalance`), so that facts about sums are facts about
cardinalities.

`TrustTiers_proofs`, under the registry's assumptions: `TiersImplementRegistry`,
`TierSpec => Spec` (a tier step is a stuttering step of the registry), hence
`RegistryKeepsItsPromises`, the theorems above for the composition; and
`TierTypeCorrect` and `TiersAreHeardOf`, which together are inductive.

`BehavioralConsumer_proofs`, for any agents, workers, sessions, failures, span,
cold start and clip under `ScoringAssumption` and `ConsumerAssumption`:

- `ScoresAreBounded`. The invariant is that the baseline a worker scores against
  is near the session it was updated with (`NearInv`: twice the squared deviation
  is at most `(Span - 1)` times the variance); `UpdateFacts` proves it of
  `UpdateBaseline`, by non-linear arithmetic cut into small steps.
- `SessionsAreCountedOnce`, `NoSessionIsForgotten`. `CountInv` says that two
  workers never hold the same entry, that a baseline, stored or about to be, counts
  only delivered sessions of its agent, each of them once, and that an entry still
  to be stored is in no stored baseline; `OrderInv` that, unless two workers
  crossed, whatever is stored of an agent comes before what is held of it.
  `NoSessionForgotten` is inductive with `FreshInv`: for an agent that is not
  `contended`, the baseline a worker has read is the stored one, updated.
- `ScoresAreCurrent`, from `FreshInv`: what `Cache` scores against is what `Store`
  stored.

Lemma `Kinds` sorts the actions (those that leave baselines and hands alone, an
emission, a delivery, a load, a store, and steps that let go of entries), and each
conjunct is shown once per kind.

- `BaselinesAreWeightedMoments`: `[]BaselineIsWeightedMoments`, the closed form of
  what `update_baseline` computes one session at a time. `MomentsInv` says of every
  stored baseline, and of one a worker is about to store, that its scale, its mean
  and its variance are those of the weighted sums of 1, of the values and of their
  squares. `MomentOfMore` is what one session more does to such a sum: the others
  count for `Rest` times what they did. With it `UpdateMoments` is polynomial
  arithmetic (`MomentArithmetic`), and the sum of squared distances from the mean,
  which the property speaks of, is expanded by linearity (`MomentsMean`). Powers are
  a recursive function, since the provers know nothing of `^`. The values a
  baseline was computed from stay what they were because the stream only grows.

Model-checked only: liveness, which is out of the prover's reach, like `ENABLED`;
and the runs that expect a violation.

## 5. What the code does and the text does not say

- `anchor_timeout_doc`: a receipt timeout is treated as a committed batch
  (`anchor_submitter.py:176-194`, `233-234`), against "On failure: re-enqueues all
  records for next cycle".
- `session_frozen_doc`: records are frozen at their top level only, against
  "Frozen records ... immutable after creation". `TamperingReported` delimits
  what `verify_integrity` catches: everything but changes made while
  `end_session` is running.
- `NoRecordLost` delimits where records are lost: crash or cancellation, a Redis
  error in the drain or the requeue, a receipt timeout, a worker without a key.
- `AnchoredTwiceOnlyIfUnacked` delimits where a record is anchored twice: only
  after an attempt that sent its transaction and then raised.
- `revoked_terminal`: check and UPDATE are separate and the UPDATE is unguarded
  (`kya/service.py:124-130`), against "Terminal: Any non-revoked → REVOKED".
  `LifecycleFollowed` and `StreamMatchesRow` delimit it: only agents with
  overlapping requests are concerned.
- `bulk-revoke` publishes and updates no row (`Announce` and `RevokeNext` leave
  `status` alone, as the code does), where `circuit_breaker/router.py:63` says
  "revokes each via the KYA service". A second bulk revocation announces the same
  agents again. No run is spent on it.
- `RowsAreHeardOf` delimits which registrations and revocations are never
  announced: those whose request failed after the row was written.
- `BulkCoversScope` delimits whom a successful bulk revocation misses: agents
  behind `Limit` newer rows, whatever the scope.
- `SessionIsFindable` delimits when a started session is answered with 404: only
  while its `end_session` awaits something (`service.py:96`).
- `replay_doc`: the group is read with `>` only and nothing reads pending entries
  (`behavioral/consumer.py:43-50`), against "BAE consumes via ARQ consumer group
  — durable, replayable" (`docs/architecture.md:136`). `NoSessionForgotten`
  delimits which sessions are missing from a baseline: those whose handling failed, and
  those of agents two workers handled at once.
- `ScoreBounded`: a session is compared with the baseline that already includes
  it, so with a span of 20 a z-score is at most 3.0823 (the root of 9.5): the clip at 4 is never
  reached and no anomaly score is above 0.7706, where `scoring.py:61` says "RMS of
  Z_SCORE_CLIP → score 1.0".
- `promote_doc`: a promotion starts from the row, which stays 0, so tiers 2
  and 3 are never reached, a second promotion repeats the first, and a demotion is
  always refused, against "Promote agent trust tier by one level"
  (`trust/router.py:52`, `trust/service.py:58`). After 300 s the tier falls back to
  0. The condition for tier 1, a verified agent, is not looked at. With the cached
  tier in place of `RowTier` the run passes.
- `RootReachesQueue` delimits which sessions ended with Redis and settings have no
  root in the queue; among them those where `end_session` raised a `TypeError` in
  `verify_integrity` (`session.py:142`, `capture.py:492`). They cannot be ended again:
  a second call is told that the session has already ended. The docstring
  (`session.py:129-133`) names only the `RuntimeError`.

## 6. Not modelled

The breaker's flag, which nothing reads; middleware, models, settings and start-up
code (stateless or declarations); deployment files; the 501 stubs of the anchor
API; ASOR; gas prices and ABI encoding; rounding in scores; the layout of the five
artifacts and the wording of logs. Of the hazards listed in `PROJECT.json`, those
without a property say why there. See `PROJECT.json` for each component.

## 7. Plan

1. A composition of `SessionCapture`, `AnchorPipeline` and `BehavioralConsumer`,
   from session to ledger and score. They meet at two places only, the list
   `anchor:pending_records` and the stream `stream:behavioral_session`, and share
   no other state: the first appends what the others take. The product of even the smallest instances of the first two is
   beyond a few minutes of TLC, so it should compose the abstract
   specifications (`SealedLogs`, `AnchorLedger`), with the refinements as the bridge.
2. Proofs: every safety property and every action property of the passing runs has
   a theorem, and so have the two refinements. Left are the composition of item 1,
   with its theorem, and an abstract specification of the consumer (per agent, the
   fold of the sessions that were handled) that it implements for agents no two
   workers crossed on.
