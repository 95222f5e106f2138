-------------------------- MODULE BehavioralConsumer --------------------------
(***************************************************************************)
(* The behavioral consumer (layer1/behavioral/consumer.py): workers that   *)
(* read session events from stream:behavioral_session through one consumer *)
(* group, fold them into the baseline of their agent, and cache a score.   *)
(*                                                                         *)
(* The chart runs one worker; two overlap while a new version is rolled    *)
(* out.  All of them are called worker-1, which makes no difference: the   *)
(* group hands every entry out once, and nobody asks for pending ones.     *)
(*                                                                         *)
(* A worker is cut at its Redis commands.  Each may fail, with or without  *)
(* having been applied, and a worker may die at any point.                 *)
(***************************************************************************)
EXTENDS AnomalyScoring, SequencesExt

CONSTANTS
    Agents,
    Workers,
    Values,     \* of the metric
    ReadCount,  \* entries one XREADGROUP asks for (50)
    MaxEvents,  \* bound: events that are emitted
    MaxFaults   \* bound: commands that fail and workers that die

ASSUME ConsumerAssumption ==
    /\ Values \subseteq Int
    /\ ReadCount \in Nat /\ ReadCount > 0
    /\ MaxEvents \in Nat
    /\ MaxFaults \in Nat

VARIABLES
    stream,     \* stream:behavioral_session
    cursor,     \* the last entry that was delivered to the group
    pending,    \* entries that were delivered and not acknowledged
    work,       \* the locals of every worker
    baseline,   \* behavioral:baseline:{agent_id}
    score,      \* behavioral:score:{agent_id}
    \* history, read by no action
    cutShort,   \* entries whose handling a failure ended
    contended,  \* agents stored by one worker while another had entries of theirs
    stale,      \* agents whose score expired or was not written
    faults

group == <<stream, cursor, pending>>
vars == <<stream, cursor, pending, work, baseline, score,
          cutShort, contended, stale, faults>>

\* next..last is what remains of the batch, next the entry that is handled.
Resting(p) == [phase |-> p, next |-> 1, last |-> 0, base |-> NoBaseline]

Init ==
    /\ stream = <<>>
    /\ cursor = 0
    /\ pending = {}
    /\ work = [w \in Workers |-> Resting("idle")]
    /\ baseline = [a \in Agents |-> NoBaseline]
    /\ score = [a \in Agents |-> ColdScore]
    /\ cutShort = {}
    /\ contended = {}
    /\ stale = {}
    /\ faults = 0

Fault == faults < MaxFaults /\ faults' = faults + 1

Held(w) == work[w].next .. work[w].last
AgentOf(w) == stream[work[w].next].agent
ValueOf(w) == stream[work[w].next].value

-----------------------------------------------------------------------------
\* emit_session_feedback
Emit(a, x) ==
    /\ Len(stream) < MaxEvents
    /\ stream' = Append(stream, [agent |-> a, value |-> x])
    /\ UNCHANGED <<cursor, pending, work, baseline, score,
                   cutShort, contended, stale, faults>>

Orphans == pending \ UNION {Held(w) : w \in Workers}

FirstUnacknowledged ==
    IF Orphans = {} THEN cursor + 1 ELSE CHOOSE i \in Orphans : \A j \in Orphans : i <= j

\* XREADGROUP ... STREAMS stream >
FirstNew == cursor + 1

LastOneMore == IF Len(stream) <= cursor + ReadCount + 1 THEN Len(stream)
               ELSE cursor + ReadCount + 1

LastRead == IF Len(stream) <= cursor + ReadCount THEN Len(stream) ELSE cursor + ReadCount

Deliver(w) ==
    /\ work[w].phase = "idle"
    /\ FirstNew <= LastRead
    /\ cursor' = LastRead
    /\ pending' = pending \cup (FirstNew .. LastRead)
    /\ UNCHANGED stream

Poll(w) ==
    /\ Deliver(w)
    /\ work' = [work EXCEPT ![w] = [phase |-> "get", next |-> FirstNew,
                                    last |-> LastRead, base |-> NoBaseline]]
    /\ UNCHANGED <<baseline, score, cutShort, contended, stale, faults>>

\* The commands for one message, in the order of the code.
ScoreFirst(p) == [get |-> "score", score |-> "set", set |-> "ack"][p]

Following(p) == [get |-> "set", set |-> "score", score |-> "ack"][p]

Proceed(w) == work' = [work EXCEPT ![w].phase = Following(@)]

ForgetsBatch(w) == Resting("idle")

NextMessage(w) ==
    IF work[w].next = work[w].last THEN Resting("idle")
    ELSE [phase |-> "get", next |-> work[w].next + 1, last |-> work[w].last, base |-> NoBaseline]

TakeNext(w) == work' = [work EXCEPT ![w] = NextMessage(w)]

\* GET of the baseline, and update_baseline.
Load(w) ==
    /\ work[w].phase = "get"
    /\ work' = [work EXCEPT
                  ![w].phase = Following(@),
                  ![w].base = UpdateBaseline(baseline[AgentOf(w)], work[w].next, ValueOf(w))]
    /\ UNCHANGED <<group, baseline, score, cutShort, contended, stale, faults>>

\* Another worker has an entry of the same agent that comes before this one,
\* or for which it has read the baseline already.
Crosses(w) ==
    \E u \in Workers \ {w} : \E i \in Held(u) :
        /\ stream[i].agent = AgentOf(w)
        /\ i = work[u].next => work[u].phase # "ack"
        /\ \/ i < work[w].next
           \/ i = work[u].next /\ work[u].phase \in {"set", "score"}

\* SET of the baseline
StoreBaseline(w) ==
    /\ work[w].phase = "set"
    /\ baseline' = [baseline EXCEPT ![AgentOf(w)] = work[w].base]
    /\ contended' = IF Crosses(w) THEN contended \cup {AgentOf(w)} ELSE contended

Store(w) ==
    /\ StoreBaseline(w)
    /\ Proceed(w)
    /\ UNCHANGED <<group, score, cutShort, stale, faults>>

\* SET of the score, which is computed from the baseline just stored.
CacheScore(w) ==
    /\ work[w].phase = "score"
    /\ score' = [score EXCEPT ![AgentOf(w)] = AnomalyScore(work[w].base, ValueOf(w))]
    /\ stale' = stale \ {AgentOf(w)}

Cache(w) ==
    /\ CacheScore(w)
    /\ Proceed(w)
    /\ UNCHANGED <<group, baseline, cutShort, contended, faults>>

Unremoved(w) == pending

Acknowledged(w) == pending \ {work[w].next}

\* XACK, and on to the next message.
Ack(w) ==
    /\ work[w].phase = "ack"
    /\ pending' = Acknowledged(w)
    /\ TakeNext(w)
    /\ UNCHANGED <<stream, cursor, baseline, score, cutShort, contended, stale, faults>>

\* The score has a time to live of 30 minutes; without it an agent is reported
\* like one that never had a session (get_anomaly_score).
Expire(a) ==
    /\ score[a] # ColdScore
    /\ score' = [score EXCEPT ![a] = ColdScore]
    /\ stale' = stale \cup {a}
    /\ UNCHANGED <<group, work, baseline, cutShort, contended, faults>>

-----------------------------------------------------------------------------
(***************************************************************************)
(* Failures.  An exception of one message is logged and the next message   *)
(* is taken; one of XREADGROUP ends the process, like a crash.             *)
(***************************************************************************)
Busy == {"get", "set", "score", "ack"}

CutShort(w) == cutShort' = cutShort \cup {work[w].next}

\* The command was not applied.
Raises(w) ==
    /\ Fault
    /\ work[w].phase \in Busy
    /\ CutShort(w)
    /\ stale' = IF work[w].phase = "score" THEN stale \cup {AgentOf(w)} ELSE stale
    /\ TakeNext(w)
    /\ UNCHANGED <<group, baseline, score, contended>>

\* The command was applied and its reply is lost.
StoreReplyLost(w) ==
    /\ Fault
    /\ StoreBaseline(w)
    /\ CutShort(w)
    /\ stale' = stale \cup {AgentOf(w)}
    /\ TakeNext(w)
    /\ UNCHANGED <<group, score>>

CacheReplyLost(w) ==
    /\ Fault
    /\ CacheScore(w)
    /\ CutShort(w)
    /\ TakeNext(w)
    /\ UNCHANGED <<group, baseline, contended>>

AckReplyLost(w) ==
    /\ Fault
    /\ work[w].phase = "ack"
    /\ pending' = Acknowledged(w)
    /\ CutShort(w)
    /\ TakeNext(w)
    /\ UNCHANGED <<stream, cursor, baseline, score, contended, stale>>

PollReplyLost(w) ==
    /\ Fault
    /\ Deliver(w)
    /\ cutShort' = cutShort \cup (FirstNew .. LastRead)
    /\ work' = [work EXCEPT ![w] = Resting("down")]
    /\ UNCHANGED <<baseline, score, contended, stale>>

Crash(w) ==
    /\ Fault
    /\ work[w].phase # "down"
    /\ cutShort' = cutShort \cup Held(w)
    /\ stale' = IF work[w].phase = "score" THEN stale \cup {AgentOf(w)} ELSE stale
    /\ work' = [work EXCEPT ![w] = Resting("down")]
    /\ UNCHANGED <<group, baseline, score, contended>>

\* The group exists: create_consumer_group ignores BUSYGROUP.
Restart(w) ==
    /\ work[w].phase = "down"
    /\ work' = [work EXCEPT ![w] = Resting("idle")]
    /\ UNCHANGED <<group, baseline, score, cutShort, contended, stale, faults>>

-----------------------------------------------------------------------------
Run(w) == Poll(w) \/ Load(w) \/ Store(w) \/ Cache(w) \/ Ack(w) \/ Restart(w)

Break(w) ==
    \/ Raises(w) \/ StoreReplyLost(w) \/ CacheReplyLost(w) \/ AckReplyLost(w)
    \/ PollReplyLost(w) \/ Crash(w)

Next ==
    \/ \E a \in Agents, x \in Values : Emit(a, x)
    \/ \E a \in Agents : Expire(a)
    \/ \E w \in Workers : Run(w) \/ Break(w)

Spec == Init /\ [][Next]_vars

\* run_consumer_loop never ends by itself, and a worker that died is restarted.
FairSpec == Spec /\ \A w \in Workers : WF_vars(Run(w))

-----------------------------------------------------------------------------
(***************************************************************************)
(* Properties.                                                             *)
(***************************************************************************)
\* The type invariant.
Baselines ==
    [sessions : Seq(Nat), scale : Nat \ {0}, mean : Int, variance : Nat]

TypeOK ==
    /\ stream \in Seq([agent : Agents, value : Values])
    /\ cursor \in 0..Len(stream)
    /\ pending \subseteq 1..cursor
    /\ work \in [Workers -> [phase : Busy \cup {"idle", "down"}, next : 1..(MaxEvents + 1),
                             last : 0..MaxEvents, base : Baselines]]
    /\ \A w \in Workers : work[w].phase \in Busy <=> work[w].next <= work[w].last
    /\ \A w \in Workers : Held(w) \subseteq 1..cursor /\ work[w].last < work[w].next + ReadCount
    /\ baseline \in [Agents -> Baselines]
    /\ score \in [Agents -> [cold : BOOLEAN, num : Nat, den : Nat \ {0}]]
    /\ cutShort \subseteq 1..cursor
    /\ contended \subseteq Agents
    /\ stale \subseteq Agents
    /\ faults \in 0..MaxFaults

StrictlyIncreasing(s) == \A i, j \in DOMAIN s : i < j => s[i] < s[j]

\* No session is counted twice in a baseline, whatever fails and however many
\* workers run, and unless two workers crossed, they are counted in the order
\* of the stream, on which a moving average depends (process_session_events: a
\* message is handed out once, and a failed one is not tried again).
CountedOnce ==
    \A a \in Agents :
        LET s == baseline[a].sessions
        IN  /\ \A i, j \in DOMAIN s : s[i] = s[j] => i = j
            /\ \A i \in DOMAIN s : s[i] <= cursor /\ stream[s[i]].agent = a
            /\ a \notin contended => StrictlyIncreasing(s)

\* A session that was handed out is in the hands of a worker or in the baseline
\* of its agent, unless its handling failed, or the baseline was overwritten by
\* a second worker (GET, update and SET are three steps).
NoSessionForgotten ==
    \A i \in 1..cursor :
        \/ i \in cutShort \cup UNION {Held(w) : w \in Workers}
        \/ stream[i].agent \in contended
        \/ i \in ToSet(baseline[stream[i].agent].sessions)

LastValue(a) == stream[Last(baseline[a].sessions)].value

\* What get_anomaly_score reports is the score of the agent's last session
\* against its present baseline, unless it expired, its SET failed, a worker is
\* between the two SETs, or two workers crossed.
ScoreIsCurrent ==
    \A a \in Agents \ (contended \cup stale) :
        \/ \E w \in Workers : work[w].phase = "score" /\ AgentOf(w) = a
        \/ score[a] = IF baseline[a] = NoBaseline THEN ColdScore
                      ELSE AnomalyScore(baseline[a], LastValue(a))

\* The square of a z-score is at most (Span - 1) / 2, because the session is in
\* the baseline it is compared with: with a span of 20 the clip at 4 is never
\* reached, and no score is above 0.7706 (compute_z_scores).
ScoreBounded ==
    \A a \in Agents : Weight * score[a].num <= Rest * score[a].den

\* x to the n-th power.
Power(x, n) == LET p[k \in 0..n] == IF k = 0 THEN 1 ELSE x * p[k - 1] IN p[n]

\* The reference definition: over n sessions the i-th has weight
\* alpha * (1 - alpha)^(n-i), the first what is left, here times Whole^(n-1).
WeightOf(i, n) ==
    IF i = 1 THEN Power(Rest, n - 1)
    ELSE Weight * Power(Rest, n - i) * Power(Whole, i - 2)

\* The mean and variance of a baseline, computed one session at a time, are the
\* weighted mean and the weighted variance of all the sessions it counts
\* (update_baseline).
BaselineIsWeightedMoments ==
    \A a \in Agents :
        LET b == baseline[a]
            n == Len(b.sessions)
            Value(i) == stream[b.sessions[i]].value
            Mean(i) == WeightOf(i, n) * Value(i)
            Distance(i) == Value(i) * b.scale - b.mean
            Square(i) == WeightOf(i, n) * (Distance(i) * Distance(i))
        IN  n > 0 =>
              /\ b.scale = Power(Whole, n - 1)
              /\ b.mean = MapThenSumSet(Mean, 1..n)
              /\ b.variance * b.scale = MapThenSumSet(Square, 1..n)

\* Every session that is emitted is handed out and acknowledged in the end, or
\* a failure ended its handling: one failure does not hold up the others
\* (process_session_events, run_consumer_loop).
EventuallyHandled ==
    \A i \in 1..MaxEvents :
        i \in DOMAIN stream ~> i \in cutShort \/ (i <= cursor /\ i \notin pending)

\* docs/architecture.md:136, "BAE consumes via ARQ consumer group - durable,
\* replayable": an entry that was handed out and not acknowledged does not stay
\* like that for ever.
PendingIsReplayed ==
    \A i \in 1..MaxEvents : i \in pending ~> i \notin pending
=============================================================================
