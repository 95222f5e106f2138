---------------------- MODULE BehavioralConsumer_proofs ----------------------
(***************************************************************************)
(* What holds of BehavioralConsumer for any number of agents, workers,     *)
(* sessions and failures, and for any span of the moving averages.         *)
(***************************************************************************)
EXTENDS BehavioralConsumer, SumTheorems, SequenceTheorems, TLAPS

-----------------------------------------------------------------------------
(***************************************************************************)
(* Baselines and scores.                                                   *)
(***************************************************************************)
\* The z-score of x, squared, is at most Rest / Weight.
Near(b, x) == Weight * (Deviation(b, x) * Deviation(b, x)) <= Rest * b.variance

Scores == [cold : BOOLEAN, num : Nat, den : Nat \ {0}]

Bounded(sc) == Weight * sc.num <= Rest * sc.den

LEMMA SquareIsNat == \A d \in Int : d * d \in Nat
<1> SUFFICES ASSUME NEW d \in Int
             PROVE  d * d >= 0
  OBVIOUS
<1>1. CASE d >= 0
  BY <1>1
<1>2. CASE d < 0
  BY <1>2
<1> QED BY <1>1, <1>2

LEMMA ProductIsNat == \A m, n \in Nat : m * n \in Nat
  OBVIOUS

\* An updated baseline is a baseline, and the session it was updated with is
\* near it: its deviation shrank by Rest / Whole, and its square is in the
\* variance.
LEMMA UpdateFacts ==
  ASSUME NEW b \in Baselines, NEW i \in Nat, NEW x \in Int
  PROVE  /\ UpdateBaseline(b, i, x) \in Baselines
         /\ UpdateBaseline(b, i, x).sessions = Append(b.sessions, i)
         /\ Near(UpdateBaseline(b, i, x), x)
<1> DEFINE n == UpdateBaseline(b, i, x)
           d == Deviation(b, x)
<1>0. /\ Span \in Nat /\ Rest \in Nat /\ Whole \in Nat /\ Whole # 0
      /\ Weight = 2 /\ Whole = Rest + Weight
  BY ScoringAssumption DEF Rest, Whole, Weight
<1>1. b.sessions \in Seq(Nat) /\ b.scale \in Nat \ {0} /\ b.mean \in Int /\ b.variance \in Nat
  BY DEF Baselines
<1>2. CASE b.sessions = <<>>
  <2>1. n = [sessions |-> <<i>>, scale |-> 1, mean |-> x, variance |-> 0]
    BY <1>2 DEF UpdateBaseline
  <2>2. n.sessions = Append(b.sessions, i)
    BY <2>1, <1>2
  <2>3. n \in Baselines
    <3>1. <<i>> \in Seq(Nat)
      OBVIOUS
    <3> QED BY <2>1, <3>1 DEF Baselines
  <2>4. Deviation(n, x) = 0
    BY <2>1 DEF Deviation
  <2>5. Near(n, x)
    BY <2>1, <2>4, <1>0 DEF Near
  <2> QED BY <2>2, <2>3, <2>5
<1>3. CASE b.sessions # <<>>
  <2>1. n = [sessions |-> Append(b.sessions, i), scale |-> Whole * b.scale,
             mean |-> EwmaMean(b, x), variance |-> EwmaVariance(b, x)]
    BY <1>3 DEF UpdateBaseline
  <2>2. d \in Int
    BY <1>1 DEF Deviation
  <2>3. d * d \in Nat
    BY <2>2, SquareIsNat
  <2>4. Weight * d * d = Weight * (d * d)
    BY <2>2, <1>0
  <2>5. Weight * (d * d) \in Nat /\ Whole * b.variance \in Nat
    BY <2>3, <1>0, <1>1, ProductIsNat
  <2>6. /\ EwmaVariance(b, x) = Rest * (Whole * b.variance + Weight * (d * d))
        /\ EwmaVariance(b, x) \in Nat
    <3>1. EwmaVariance(b, x) = Rest * (Whole * b.variance + Weight * (d * d))
      BY <2>4 DEF EwmaVariance
    <3>2. Whole * b.variance + Weight * (d * d) \in Nat
      BY <2>5
    <3> QED BY <3>1, <3>2, <1>0, ProductIsNat
  <2>7. Whole * b.scale \in Nat \ {0}
    BY <1>0, <1>1
  <2>8. EwmaMean(b, x) \in Int
    <3>1. x * b.scale \in Int
      BY <1>1
    <3>2. Weight * x * b.scale \in Int
      BY <1>0, <1>1
    <3>3. Rest * b.mean \in Int
      BY <1>0, <1>1
    <3> QED BY <3>2, <3>3 DEF EwmaMean
  <2>9. n \in Baselines
    BY <2>1, <2>6, <2>7, <2>8, <1>1 DEF Baselines
  <2>10. Deviation(n, x) = Rest * d
    <3>1. Deviation(n, x) = x * (Whole * b.scale) - (Weight * x * b.scale + Rest * b.mean)
      BY <2>1 DEF Deviation, EwmaMean
    <3> DEFINE y == x * b.scale
    <3>2. y \in Int
      BY <1>1
    <3>3. x * (Whole * b.scale) = Whole * y
      BY <1>0, <1>1
    <3>4. Weight * x * b.scale = Weight * y
      BY <1>0, <1>1
    <3>5. Whole * y = Rest * y + Weight * y
      BY <1>0, <3>2
    <3>6. Rest * y - Rest * b.mean = Rest * (y - b.mean)
      BY <1>0, <1>1, <3>2
    <3>7. d = y - b.mean
      BY DEF Deviation
    <3>8. /\ Rest * y \in Int /\ Weight * y \in Int /\ Rest * b.mean \in Int
          /\ Whole * y \in Int
      BY <1>0, <1>1, <3>2
    <3> HIDE DEF y
    <3>9. Deviation(n, x) = Whole * y - (Weight * y + Rest * b.mean)
      BY <3>1, <3>3, <3>4 DEF y
    <3>10. Whole * y - (Weight * y + Rest * b.mean) = Rest * y - Rest * b.mean
      BY <3>5, <3>8
    <3> QED BY <3>6, <3>7, <3>9, <3>10
  <2>11. Near(n, x)
    <3> DEFINE s == d * d
               V == Whole * b.variance
    <3>1. Deviation(n, x) * Deviation(n, x) = Rest * (Rest * s)
      BY <2>10, <2>2, <1>0
    <3>2. Weight * (Rest * (Rest * s)) = Rest * (Rest * (Weight * s))
      BY <2>3, <1>0
    <3>3. Rest * (Weight * s) <= Rest * (V + Weight * s)
      <4>1. Rest * (V + Weight * s) = Rest * V + Rest * (Weight * s)
        BY <2>5, <1>0
      <4>2. Rest * V \in Nat
        BY <2>5, <1>0, ProductIsNat
      <4>3. Rest * (Weight * s) \in Nat
        BY <2>5, <1>0, ProductIsNat
      <4> QED BY <4>1, <4>2, <4>3
    <3>4. Rest * (Rest * (Weight * s)) <= Rest * (Rest * (V + Weight * s))
      <4> DEFINE p == Rest * (Weight * s)
                 q == Rest * (V + Weight * s)
      <4>1. p \in Nat /\ q \in Nat
        BY <2>5, <1>0, ProductIsNat
      <4>2. q = p + (q - p) /\ q - p \in Nat
        BY <3>3, <4>1
      <4>3. Rest * (q - p) \in Nat
        BY <4>2, <1>0, ProductIsNat
      <4>4. Rest * q = Rest * p + Rest * (q - p)
        BY <4>1, <4>2, <1>0
      <4>5. Rest * p \in Nat
        BY <4>1, <1>0, ProductIsNat
      <4> HIDE DEF p, q
      <4>6. Rest * p <= Rest * q
        BY <4>3, <4>4, <4>5
      <4> QED BY <4>6 DEF p, q
    <3>5. n.variance = Rest * (V + Weight * s)
      BY <2>1, <2>6
    <3> QED BY <3>1, <3>2, <3>4, <3>5 DEF Near
  <2> QED BY <2>1, <2>9, <2>11
<1> QED BY <1>2, <1>3

\* Clipping keeps the bound.
LEMMA ClippedFacts ==
  ASSUME NEW num \in Nat, NEW den \in Nat \ {0}, Weight * num <= Rest * den
  PROVE  Clipped(num, den) \in Scores /\ Bounded(Clipped(num, den))
<1> DEFINE c == Clip * Clip
<1>1. c \in Nat /\ Rest \in Nat /\ Weight = 2
  BY ScoringAssumption, ProductIsNat DEF Rest, Weight
<1>2. CASE num > Clip * Clip * den
  <2>1. Clipped(num, den) = [cold |-> FALSE, num |-> c, den |-> 1]
    BY <1>2 DEF Clipped
  <2>2. c * den < num
    BY <1>2
  <2>3. Weight * c <= Rest
    <3> SUFFICES ASSUME Rest < Weight * c
                 PROVE  FALSE
      BY <1>1
    <3>1. Weight * c - Rest \in Nat
      BY <1>1
    <3>2. (Weight * c - Rest) * den \in Nat
      BY <3>1, ProductIsNat
    <3>3. (Weight * c - Rest) * den = Weight * (c * den) - Rest * den
      BY <1>1
    <3>4. c * den \in Nat /\ Rest * den \in Nat
      BY <1>1, ProductIsNat
    <3>5. Weight * (c * den) < Weight * num
      BY <2>2, <3>4, <1>1
    <3> QED BY <3>2, <3>3, <3>4, <3>5, <1>1
  <2> QED BY <2>1, <2>3, <1>1 DEF Scores, Bounded
<1>3. CASE ~(num > Clip * Clip * den)
  BY <1>3 DEF Clipped, Scores, Bounded
<1> QED BY <1>2, <1>3

\* A session near its baseline has a bounded score.
LEMMA ScoreFacts ==
  ASSUME NEW b \in Baselines, NEW x \in Int, Near(b, x)
  PROVE  AnomalyScore(b, x) \in Scores /\ Bounded(AnomalyScore(b, x))
<1> DEFINE s == Deviation(b, x) * Deviation(b, x)
<1>1. s \in Nat /\ b.variance \in Nat /\ Rest \in Nat /\ Weight = 2
  <2>1. b.scale \in Nat /\ b.mean \in Int /\ b.variance \in Nat
    BY DEF Baselines
  <2>2. Deviation(b, x) \in Int
    BY <2>1 DEF Deviation
  <2> QED BY <2>1, <2>2, SquareIsNat, ScoringAssumption DEF Rest, Weight
<1>2. ColdScore \in Scores /\ Bounded(ColdScore)
  BY <1>1 DEF ColdScore, Scores, Bounded
<1>3. Clipped(0, 1) \in Scores /\ Bounded(Clipped(0, 1))
  BY <1>1, ClippedFacts
<1>4. b.variance # 0 => Clipped(s, b.variance) \in Scores /\ Bounded(Clipped(s, b.variance))
  BY <1>1, ClippedFacts DEF Near
<1> QED BY <1>2, <1>3, <1>4 DEF AnomalyScore

-----------------------------------------------------------------------------
(***************************************************************************)
(* The inductive invariant.                                                *)
(***************************************************************************)
\* A worker that has read a baseline and not yet cached the score of it.
Updating(w) == work[w].phase \in {"set", "score"}

\* What the runs call the type, and that scores stay bounded because a worker
\* only ever scores a session against a baseline near it.
NearInv == \A w \in Workers : Updating(w) => Near(work[w].base, ValueOf(w))

ScoreInv == \A a \in Agents : Bounded(score[a])

TypeInv == TypeOK /\ Len(stream) <= MaxEvents /\ NearInv /\ ScoreInv

In(i, b) == \E k \in DOMAIN b.sessions : b.sessions[k] = i

\* The entries of a worker that are in no stored baseline.
Unsaved(w) ==
    IF work[w].phase \in {"score", "ack"} THEN Held(w) \ {work[w].next} ELSE Held(w)

\* A baseline counts sessions of its agent, each of them once.
Counts(b, a) ==
    /\ \A k \in DOMAIN b.sessions :
         b.sessions[k] \in 1..cursor /\ stream[b.sessions[k]].agent = a
    /\ \A k, l \in DOMAIN b.sessions : b.sessions[k] = b.sessions[l] => k = l

DisjointInv == \A u, w \in Workers : u # w => Held(u) \cap Held(w) = {}

StoredInv ==
    \A a \in Agents : /\ Counts(baseline[a], a)
                      /\ baseline[a].sessions = <<>> => baseline[a] = NoBaseline

ReadInv ==
    \A w \in Workers : Updating(w) =>
        /\ Counts(work[w].base, AgentOf(w))
        /\ work[w].base.sessions # <<>>
        /\ Last(work[w].base.sessions) = work[w].next

\* An unsaved entry is in no stored baseline, and in the hands of one worker.
UnsavedInv ==
    \A w \in Workers : \A i \in Unsaved(w) :
        /\ \A a \in Agents : ~In(i, baseline[a])
        /\ \A u \in Workers : Updating(u) /\ In(i, work[u].base) =>
               u = w /\ work[u].phase = "set" /\ i = work[u].next

CountInv == DisjointInv /\ StoredInv /\ ReadInv /\ UnsavedInv

\* Of an agent for whom no two workers crossed.
FreshInv ==
    \A w \in Workers :
        /\ work[w].phase = "set" /\ AgentOf(w) \notin contended =>
             work[w].base = UpdateBaseline(baseline[AgentOf(w)], work[w].next, ValueOf(w))
        /\ work[w].phase = "score" /\ AgentOf(w) \notin contended =>
             work[w].base = baseline[AgentOf(w)]
        /\ work[w].phase \in {"score", "ack"} /\ AgentOf(w) \notin contended =>
             In(work[w].next, baseline[AgentOf(w)])

OrderInv ==
    \A a \in Agents \ contended :
        /\ StrictlyIncreasing(baseline[a].sessions)
        /\ \A w \in Workers : \A i \in Unsaved(w) :
             stream[i].agent = a => \A k \in DOMAIN baseline[a].sessions :
                                      baseline[a].sessions[k] < i

IInv ==
    /\ TypeInv
    /\ CountInv
    /\ FreshInv
    /\ OrderInv
    /\ NoSessionForgotten
    /\ ScoreIsCurrent

-----------------------------------------------------------------------------
(***************************************************************************)
(* Types and scores.                                                       *)
(***************************************************************************)
\* The locals of one worker, when the group has delivered c entries.
WorkOK(r, c) ==
    /\ r \in [phase : Busy \cup {"idle", "down"}, next : 1..(MaxEvents + 1),
              last : 0..MaxEvents, base : Baselines]
    /\ r.phase \in Busy <=> r.next <= r.last
    /\ r.next .. r.last \subseteq 1..c
    /\ r.last < r.next + ReadCount
    /\ r.phase \in {"set", "score"} => Near(r.base, stream[r.next].value)

LEMMA NoBaselineFacts == NoBaseline \in Baselines
<1>1. <<>> \in Seq(Nat)
  OBVIOUS
<1> QED BY <1>1 DEF NoBaseline, Baselines

LEMMA WorkFacts ==
  ASSUME TypeInv, NEW w \in Workers
  PROVE  /\ WorkOK(work[w], cursor)
         /\ cursor \in Nat /\ cursor <= Len(stream) /\ Len(stream) \in Nat
         /\ Len(stream) <= MaxEvents /\ MaxEvents \in Nat
BY ConsumerAssumption DEF TypeInv, TypeOK, WorkOK, NearInv, Updating, ValueOf, Held

\* The entry of a busy worker.
LEMMA EntryFacts ==
  ASSUME TypeInv, NEW w \in Workers, work[w].phase \in Busy
  PROVE  /\ work[w].next \in 1..cursor
         /\ work[w].next \in Held(w)
         /\ AgentOf(w) \in Agents
         /\ ValueOf(w) \in Int
<1>1. work[w].next \in Nat /\ work[w].last \in Nat /\ work[w].next <= work[w].last
  BY WorkFacts DEF WorkOK
<1>2. work[w].next \in Held(w)
  BY <1>1 DEF Held
<1>3. work[w].next \in 1..cursor
  BY <1>2, WorkFacts DEF WorkOK, Held
<1>4. work[w].next \in 1..Len(stream)
  BY <1>3, WorkFacts
<1>5. stream[work[w].next] \in [agent : Agents, value : Values]
  <2>1. stream \in Seq([agent : Agents, value : Values])
    BY DEF TypeInv, TypeOK
  <2> QED BY <1>4, <2>1, ElementOfSeq
<1> QED BY <1>2, <1>3, <1>5, ConsumerAssumption DEF AgentOf, ValueOf

LEMMA RestingFacts ==
  ASSUME NEW p \in {"idle", "down"}, NEW c \in Nat
  PROVE  WorkOK(Resting(p), c)
<1>1. 1..0 = {}
  OBVIOUS
<1>2. p \notin Busy /\ p \notin {"set", "score"}
  BY DEF Busy
<1> QED BY <1>1, <1>2, NoBaselineFacts, ConsumerAssumption DEF Resting, WorkOK

LEMMA NextMessageFacts ==
  ASSUME TypeInv, NEW w \in Workers, work[w].phase \in Busy
  PROVE  /\ WorkOK(NextMessage(w), cursor)
         /\ NextMessage(w).phase \in {"get", "idle"}
         /\ NextMessage(w).next .. NextMessage(w).last = Held(w) \ {work[w].next}
<1>1. /\ work[w].next \in 1..(MaxEvents + 1) /\ work[w].last \in 0..MaxEvents
      /\ work[w].next <= work[w].last /\ work[w].last < work[w].next + ReadCount
      /\ work[w].next .. work[w].last \subseteq 1..cursor
      /\ cursor \in Nat /\ MaxEvents \in Nat /\ ReadCount \in Nat
  BY WorkFacts, ConsumerAssumption DEF WorkOK
<1>2. CASE work[w].next = work[w].last
  <2>1. Held(w) \ {work[w].next} = {}
    BY <1>1, <1>2 DEF Held
  <2>2. NextMessage(w) = Resting("idle")
    BY <1>2 DEF NextMessage
  <2> QED BY <1>1, <2>1, <2>2, RestingFacts DEF Resting
<1>3. CASE work[w].next # work[w].last
  <2> DEFINE r == [phase |-> "get", next |-> work[w].next + 1, last |-> work[w].last,
                   base |-> NoBaseline]
  <2>1. NextMessage(w) = r
    BY <1>3 DEF NextMessage
  <2>2. r.next .. r.last = Held(w) \ {work[w].next}
    BY <1>1 DEF Held
  <2>3. r.next <= r.last /\ r.next \in 1..(MaxEvents + 1)
    BY <1>1, <1>3
  <2>4. WorkOK(r, cursor)
    BY <1>1, <2>2, <2>3, NoBaselineFacts DEF WorkOK, Busy, Held
  <2> QED BY <2>1, <2>2, <2>4
<1> QED BY <1>2, <1>3

\* A step that changes the locals of one worker.
LEMMA WorkStep ==
  ASSUME TypeInv, stream' = stream, cursor' \in Nat, cursor <= cursor',
         NEW w \in Workers, NEW r, WorkOK(r, cursor'),
         work' = [work EXCEPT ![w] = r]
  PROVE  /\ work' \in [Workers -> [phase : Busy \cup {"idle", "down"},
                                   next : 1..(MaxEvents + 1),
                                   last : 0..MaxEvents, base : Baselines]]
         /\ \A u \in Workers : work'[u].phase \in Busy <=> work'[u].next <= work'[u].last
         /\ \A u \in Workers : /\ work'[u].next .. work'[u].last \subseteq 1..cursor'
                               /\ work'[u].last < work'[u].next + ReadCount
         /\ NearInv'
<1>1. work'[w] = r /\ \A u \in Workers \ {w} : work'[u] = work[u]
  BY DEF TypeInv, TypeOK
<1>2. \A u \in Workers : WorkOK(work'[u], cursor')
  <2> SUFFICES ASSUME NEW u \in Workers, u # w
               PROVE  WorkOK(work[u], cursor')
    BY <1>1
  <2>1. 1..cursor \subseteq 1..cursor'
    BY WorkFacts
  <2> QED BY <2>1, WorkFacts DEF WorkOK
<1> QED BY <1>2 DEF WorkOK, NearInv, Updating, ValueOf, TypeInv, TypeOK

LEMMA BaselineStep ==
  ASSUME TypeInv, NEW w \in Workers, StoreBaseline(w)
  PROVE  /\ work[w].phase \in Busy
         /\ baseline' \in [Agents -> Baselines]
         /\ contended' \subseteq Agents
<1>1. work[w].phase \in Busy
  BY DEF StoreBaseline, Busy
<1> QED BY <1>1, EntryFacts, WorkFacts DEF StoreBaseline, TypeInv, TypeOK, WorkOK

LEMMA ScoreStep ==
  ASSUME TypeInv, NEW w \in Workers, CacheScore(w)
  PROVE  /\ work[w].phase \in Busy
         /\ score' \in [Agents -> Scores]
         /\ ScoreInv'
         /\ stale' \subseteq Agents
<1>1. work[w].phase \in Busy
  BY DEF CacheScore, Busy
<1>2. work[w].base \in Baselines /\ Near(work[w].base, ValueOf(w))
  BY WorkFacts DEF WorkOK, CacheScore, ValueOf
<1> DEFINE sc == AnomalyScore(work[w].base, ValueOf(w))
<1>3. sc \in Scores /\ Bounded(sc)
  BY <1>1, <1>2, EntryFacts, ScoreFacts
<1>4. score' = [score EXCEPT ![AgentOf(w)] = sc] /\ stale' = stale \ {AgentOf(w)}
  BY DEF CacheScore
<1>5. score \in [Agents -> Scores] /\ AgentOf(w) \in Agents
  BY <1>1, EntryFacts DEF TypeInv, TypeOK, Scores
<1> HIDE DEF sc
<1>6. \A a \in Agents : score'[a] = sc \/ score'[a] = score[a]
  BY <1>4, <1>5
<1>7. ScoreInv'
  BY <1>3, <1>6 DEF TypeInv, ScoreInv, Bounded
<1> QED BY <1>1, <1>3, <1>4, <1>5, <1>7 DEF TypeInv, TypeOK

LEMMA DeliverStep ==
  ASSUME TypeInv, NEW w \in Workers, Deliver(w)
  PROVE  /\ FirstNew = cursor + 1 /\ cursor' = LastRead
         /\ cursor' \in cursor .. Len(stream)
         /\ pending' \subseteq 1..cursor'
         /\ FirstNew .. LastRead \subseteq 1..cursor'
         /\ FirstNew \in 1..(MaxEvents + 1) /\ LastRead \in 0..MaxEvents
         /\ FirstNew <= LastRead /\ LastRead < FirstNew + ReadCount
<1>1. /\ FirstNew = cursor + 1 /\ cursor' = LastRead /\ FirstNew <= LastRead
      /\ pending' = pending \cup (FirstNew .. LastRead)
  BY DEF Deliver, FirstNew
<1>2. /\ cursor \in Nat /\ Len(stream) \in Nat /\ Len(stream) <= MaxEvents
      /\ MaxEvents \in Nat /\ ReadCount \in Nat /\ cursor <= Len(stream)
  BY WorkFacts, ConsumerAssumption
<1>3. /\ LastRead \in Nat /\ LastRead <= Len(stream) /\ LastRead <= cursor + ReadCount
  BY <1>2 DEF LastRead
<1>4. pending \subseteq 1..cursor
  BY DEF TypeInv, TypeOK
<1> QED BY <1>1, <1>2, <1>3, <1>4

LEMMA TypeInit == Init => TypeInv
<1> SUFFICES ASSUME Init
             PROVE  TypeInv
  OBVIOUS
<1>1. stream \in Seq([agent : Agents, value : Values]) /\ Len(stream) = 0
  BY DEF Init
<1>2. \A w \in Workers : WorkOK(work[w], 0) /\ work[w].phase = "idle"
  BY RestingFacts DEF Init, Resting
<1>3. work \in [Workers -> [phase : Busy \cup {"idle", "down"}, next : 1..(MaxEvents + 1),
                            last : 0..MaxEvents, base : Baselines]]
  BY <1>2 DEF Init, WorkOK
<1>4. NearInv
  BY <1>2 DEF NearInv, Updating
<1>5. ColdScore \in Scores /\ Bounded(ColdScore)
  BY ScoringAssumption DEF ColdScore, Scores, Bounded, Weight, Rest
<1>6. ScoreInv /\ score \in [Agents -> Scores]
  BY <1>5 DEF ScoreInv, Init
<1> QED BY <1>1, <1>2, <1>3, <1>4, <1>6, NoBaselineFacts, ConsumerAssumption
        DEF TypeInv, TypeOK, Init, WorkOK, Held, Scores

LEMMA TypeStep == TypeInv /\ [Next]_vars => TypeInv'
<1> SUFFICES ASSUME TypeInv, [Next]_vars
             PROVE  TypeInv'
  OBVIOUS
<1> USE DEF group
<1> DEFINE WorkTyped ==
      /\ work \in [Workers -> [phase : Busy \cup {"idle", "down"},
                               next : 1..(MaxEvents + 1),
                               last : 0..MaxEvents, base : Baselines]]
      /\ \A u \in Workers : work[u].phase \in Busy <=> work[u].next <= work[u].last
      /\ \A u \in Workers : /\ work[u].next .. work[u].last \subseteq 1..cursor
                            /\ work[u].last < work[u].next + ReadCount
      /\ NearInv
           RestTyped ==
      /\ stream \in Seq([agent : Agents, value : Values]) /\ Len(stream) <= MaxEvents
      /\ cursor \in 0..Len(stream) /\ pending \subseteq 1..cursor
      /\ baseline \in [Agents -> Baselines]
      /\ score \in [Agents -> Scores] /\ ScoreInv
      /\ cutShort \subseteq 1..cursor /\ contended \subseteq Agents /\ stale \subseteq Agents
      /\ faults \in 0..MaxFaults
<1>1. TypeInv <=> WorkTyped /\ RestTyped
  BY DEF TypeInv, TypeOK, Held, Scores
<1>2. TypeInv' <=> WorkTyped' /\ RestTyped'
  BY DEF TypeInv, TypeOK, Held, Scores
<1>3. WorkTyped /\ RestTyped /\ cursor \in Nat
  BY <1>1, WorkFacts
<1>4. Fault => faults' \in 0..MaxFaults
  BY <1>3, ConsumerAssumption DEF Fault
<1>5. ASSUME NEW w \in Workers, NEW r, WorkOK(r, cursor),
             work' = [work EXCEPT ![w] = r], UNCHANGED <<stream, cursor>>
      PROVE  WorkTyped'
  <2>1. cursor' \in Nat /\ cursor <= cursor' /\ stream' = stream /\ WorkOK(r, cursor')
    BY <1>3, <1>5
  <2> QED BY <1>3, <1>5, <2>1, WorkStep
<1>6. ASSUME NEW w \in Workers, work[w].phase \in Busy, TakeNext(w), UNCHANGED <<stream, cursor>>
      PROVE  WorkTyped'
  BY <1>5, <1>6, NextMessageFacts DEF TakeNext
<1>7. ASSUME NEW w \in Workers, NEW p \in {"idle", "down"},
             work' = [work EXCEPT ![w] = Resting(p)], UNCHANGED <<stream, cursor>>
      PROVE  WorkTyped'
  BY <1>3, <1>5, <1>7, RestingFacts
<1>8. ASSUME NEW w \in Workers, work[w].phase \in {"get", "set", "score"},
             NEW b \in Baselines, Following(work[w].phase) \in {"set", "score"} => Near(b, ValueOf(w)),
             work' = [work EXCEPT ![w] = [work[w] EXCEPT !.phase = Following(@), !.base = b]],
             UNCHANGED <<stream, cursor>>
      PROVE  WorkTyped'
  <2> DEFINE r == [work[w] EXCEPT !.phase = Following(@), !.base = b]
  <2>1. Following(work[w].phase) \in {"set", "score", "ack"}
    BY <1>8 DEF Following
  <2>2. WorkOK(work[w], cursor)
    BY WorkFacts
  <2>3. WorkOK(r, cursor)
    BY <1>8, <2>1, <2>2 DEF WorkOK, Busy, ValueOf
  <2> QED BY <1>5, <1>8, <2>3
<1>9. ASSUME NEW w \in Workers, work[w].phase \in {"set", "score"}, Proceed(w),
             UNCHANGED <<stream, cursor>>
      PROVE  WorkTyped'
  <2>1. WorkOK(work[w], cursor)
    BY WorkFacts
  <2>2. work' = [work EXCEPT ![w] = [work[w] EXCEPT !.phase = Following(@), !.base = work[w].base]]
    BY <2>1, <1>3, <1>9 DEF Proceed, WorkOK
  <2> QED BY <1>8, <1>9, <2>1, <2>2 DEF WorkOK, ValueOf
<1>10. ASSUME NEW w \in Workers, work[w].phase \in Busy
       PROVE  work[w].next \in 1..cursor /\ (CutShort(w) => cutShort' \subseteq 1..cursor)
  BY <1>3, <1>10, EntryFacts DEF CutShort
<1>11. ASSUME NEW a \in Agents, NEW x \in Values, Emit(a, x)
       PROVE  TypeInv'
  <2> DEFINE e == [agent |-> a, value |-> x]
  <2>1. /\ Len(stream) < MaxEvents /\ stream' = Append(stream, e)
        /\ UNCHANGED <<cursor, pending, work, baseline, score, cutShort, contended, stale, faults>>
    BY <1>11 DEF Emit
  <2>2. /\ stream' \in Seq([agent : Agents, value : Values])
        /\ Len(stream') = Len(stream) + 1
        /\ \A i \in 1..Len(stream) : stream'[i] = stream[i]
    BY <2>1, <1>3
  <2>3. RestTyped'
    <3>1. Len(stream') <= MaxEvents /\ cursor' \in 0..Len(stream')
      BY <2>1, <2>2, <1>3, ConsumerAssumption
    <3> QED BY <3>1, <2>1, <2>2, <1>3 DEF ScoreInv
  <2>4. NearInv'
    <3> SUFFICES ASSUME NEW w \in Workers, Updating(w)'
                 PROVE  Near(work[w].base, ValueOf(w))'
      BY DEF NearInv
    <3>1. Updating(w) /\ Near(work[w].base, ValueOf(w))
      BY <2>1, <1>3 DEF Updating, NearInv
    <3>2. work[w].next \in 1..Len(stream)
      BY <3>1, EntryFacts, <1>3 DEF Updating, Busy
    <3> QED BY <3>1, <3>2, <2>1, <2>2 DEF ValueOf
  <2>5. WorkTyped'
    BY <2>1, <2>4, <1>3
  <2> QED BY <2>3, <2>5, <1>2
<1>12. ASSUME NEW a \in Agents, Expire(a)
       PROVE  TypeInv'
  <2>1. ColdScore \in Scores /\ Bounded(ColdScore)
    BY ScoringAssumption DEF ColdScore, Scores, Bounded, Weight, Rest
  <2>2. \A c \in Agents : score'[c] = ColdScore \/ score'[c] = score[c]
    BY <1>12, <1>3 DEF Expire
  <2>3. ScoreInv'
    BY <2>1, <2>2, <1>3 DEF ScoreInv, Bounded
  <2>4. NearInv'
    BY <1>12, <1>3 DEF Expire, NearInv, Updating, ValueOf
  <2> QED BY <2>1, <2>3, <2>4, <1>12, <1>2, <1>3 DEF Expire
<1>13. ASSUME NEW w \in Workers, Run(w) \/ Break(w)
       PROVE  TypeInv'
  <2>1. CASE Poll(w)
    <3> DEFINE r == [phase |-> "get", next |-> FirstNew, last |-> LastRead, base |-> NoBaseline]
    <3>1. Deliver(w) /\ work' = [work EXCEPT ![w] = r]
      BY <2>1 DEF Poll
    <3>2. WorkOK(r, cursor')
      BY <3>1, DeliverStep, NoBaselineFacts DEF WorkOK, Busy
    <3>3. stream' = stream /\ cursor' \in Nat /\ cursor <= cursor'
      BY <3>1, <1>3, DeliverStep DEF Deliver
    <3>4. WorkTyped'
      BY <3>1, <3>2, <3>3, WorkStep
    <3>5. RestTyped'
      BY <2>1, <3>1, <3>3, <1>3, DeliverStep DEF Poll, ScoreInv
    <3> QED BY <3>4, <3>5, <1>2
  <2>2. CASE PollReplyLost(w)
    <3>1. Deliver(w) /\ work' = [work EXCEPT ![w] = Resting("down")]
      BY <2>2 DEF PollReplyLost
    <3>2. stream' = stream /\ cursor' \in Nat /\ cursor <= cursor'
      BY <3>1, <1>3, DeliverStep DEF Deliver
    <3>3. WorkTyped'
      BY <3>1, <3>2, WorkStep, RestingFacts
    <3>4. /\ cursor' \in 0..Len(stream) /\ pending' \subseteq 1..cursor'
          /\ cutShort' \subseteq 1..cursor'
      <4>1. cutShort \subseteq 1..cursor'
        BY <3>2, <1>3
      <4>2. cursor' \in 0..Len(stream)
        BY <3>1, <1>3, DeliverStep
      <4>3. pending' \subseteq 1..cursor' /\ FirstNew .. LastRead \subseteq 1..cursor'
        BY <3>1, DeliverStep
      <4>4. cutShort' = cutShort \cup (FirstNew .. LastRead)
        BY <2>2 DEF PollReplyLost
      <4> QED BY <4>1, <4>2, <4>3, <4>4
    <3>5. RestTyped'
      BY <2>2, <3>2, <3>4, <1>3, <1>4 DEF PollReplyLost, ScoreInv
    <3> QED BY <3>3, <3>5, <1>2
  <2>3. CASE Load(w)
    <3> DEFINE b == UpdateBaseline(baseline[AgentOf(w)], work[w].next, ValueOf(w))
    <3>1. work[w].phase = "get" /\ work[w].phase \in Busy
      BY <2>3 DEF Load, Busy
    <3>2. b \in Baselines /\ Near(b, ValueOf(w))
      <4>1. baseline[AgentOf(w)] \in Baselines /\ work[w].next \in Nat /\ ValueOf(w) \in Int
        BY <3>1, <1>3, EntryFacts
      <4> QED BY <4>1, UpdateFacts
    <3>3. work' = [work EXCEPT ![w] = [work[w] EXCEPT !.phase = Following(@), !.base = b]]
      BY <2>3, <1>3 DEF Load
    <3>4. UNCHANGED <<stream, cursor>>
      BY <2>3 DEF Load
    <3> HIDE DEF b
    <3>5. WorkTyped'
      BY <3>1, <3>2, <3>3, <3>4, <1>8
    <3>6. RestTyped'
      BY <2>3, <1>3 DEF Load, ScoreInv
    <3> QED BY <3>5, <3>6, <1>2
  <2>4. CASE Store(w)
    <3>1. WorkTyped'
      BY <2>4, <1>9 DEF Store, StoreBaseline
    <3>2. RestTyped'
      BY <2>4, <1>3, BaselineStep DEF Store, ScoreInv
    <3> QED BY <3>1, <3>2, <1>2
  <2>5. CASE Cache(w)
    <3>1. WorkTyped'
      BY <2>5, <1>9 DEF Cache, CacheScore
    <3>2. RestTyped'
      BY <2>5, <1>3, ScoreStep DEF Cache
    <3> QED BY <3>1, <3>2, <1>2
  <2>6. CASE Ack(w)
    <3>1. WorkTyped'
      BY <2>6, <1>6 DEF Ack, Busy
    <3>2. RestTyped'
      BY <2>6, <1>3 DEF Ack, Acknowledged, ScoreInv
    <3> QED BY <3>1, <3>2, <1>2
  <2>7. CASE Restart(w)
    <3>1. WorkTyped'
      BY <2>7, <1>7 DEF Restart
    <3>2. RestTyped'
      BY <2>7, <1>3 DEF Restart, ScoreInv
    <3> QED BY <3>1, <3>2, <1>2
  <2>8. CASE Raises(w)
    <3>1. WorkTyped'
      BY <2>8, <1>6 DEF Raises
    <3>2. stale' \subseteq Agents
      BY <2>8, <1>3, EntryFacts DEF Raises
    <3>3. RestTyped'
      BY <2>8, <3>2, <1>3, <1>4, <1>10 DEF Raises, ScoreInv
    <3> QED BY <3>1, <3>3, <1>2
  <2>9. CASE StoreReplyLost(w)
    <3>1. work[w].phase \in Busy /\ StoreBaseline(w)
      BY <2>9, BaselineStep DEF StoreReplyLost
    <3>2. WorkTyped'
      BY <2>9, <3>1, <1>6 DEF StoreReplyLost
    <3>3. stale' \subseteq Agents
      BY <2>9, <3>1, <1>3, EntryFacts DEF StoreReplyLost
    <3>4. RestTyped'
      BY <2>9, <3>1, <3>3, <1>3, <1>4, <1>10, BaselineStep DEF StoreReplyLost, ScoreInv
    <3> QED BY <3>2, <3>4, <1>2
  <2>10. CASE CacheReplyLost(w)
    <3>1. work[w].phase \in Busy /\ CacheScore(w)
      BY <2>10, ScoreStep DEF CacheReplyLost
    <3>2. WorkTyped'
      BY <2>10, <3>1, <1>6 DEF CacheReplyLost
    <3>3. RestTyped'
      BY <2>10, <3>1, <1>3, <1>4, <1>10, ScoreStep DEF CacheReplyLost
    <3> QED BY <3>2, <3>3, <1>2
  <2>11. CASE AckReplyLost(w)
    <3>1. work[w].phase \in Busy
      BY <2>11 DEF AckReplyLost, Busy
    <3>2. WorkTyped'
      BY <2>11, <3>1, <1>6 DEF AckReplyLost
    <3>3. RestTyped'
      BY <2>11, <3>1, <1>3, <1>4, <1>10 DEF AckReplyLost, Acknowledged, ScoreInv
    <3> QED BY <3>2, <3>3, <1>2
  <2>12. CASE Crash(w)
    <3>1. WorkTyped'
      BY <2>12, <1>7 DEF Crash
    <3>2. stale' \subseteq Agents
      BY <2>12, <1>3, EntryFacts DEF Crash, Busy
    <3>3. cutShort' \subseteq 1..cursor
      BY <2>12, <1>3 DEF Crash, Held
    <3>4. RestTyped'
      BY <2>12, <3>2, <3>3, <1>3, <1>4 DEF Crash, ScoreInv
    <3> QED BY <3>1, <3>4, <1>2
  <2> QED BY <2>1, <2>2, <2>3, <2>4, <2>5, <2>6, <2>7, <2>8, <2>9, <2>10, <2>11, <2>12, <1>13
          DEF Run, Break
<1>14. CASE UNCHANGED vars
  BY <1>14, <1>3, <1>2 DEF vars, NearInv, ScoreInv, Updating, ValueOf
<1> QED BY <1>11, <1>12, <1>13, <1>14 DEF Next

-----------------------------------------------------------------------------
(***************************************************************************)
(* The kinds of steps, as far as the counting of sessions is concerned.    *)
(***************************************************************************)
OnlyWorker(w) == \A u \in Workers \ {w} : work'[u] = work[u]

Delivers(w) ==
    /\ Deliver(w)
    /\ OnlyWorker(w)
    /\ work'[w].phase \notin {"set", "score", "ack"}
    /\ Held(w)' \subseteq FirstNew .. LastRead
    /\ FirstNew .. LastRead \subseteq Held(w)' \cup cutShort'
    /\ cutShort \subseteq cutShort'
    /\ UNCHANGED <<baseline, contended, score, stale>>

\* The worker is done with a command, and perhaps with the message.
Shrinks(w) ==
    /\ OnlyWorker(w)
    /\ UNCHANGED <<stream, cursor>>
    /\ Held(w)' \subseteq Held(w)
    /\ \A i \in Held(w) \ Held(w)' :
         i \in cutShort' \/ (work[w].phase = "ack" /\ i = work[w].next)
    /\ Unsaved(w)' \subseteq Unsaved(w) \ {work[w].next}
    /\ cutShort \subseteq cutShort'

Stores(w) ==
    /\ Shrinks(w)
    /\ StoreBaseline(w)
    /\ UNCHANGED score
    /\ stale \subseteq stale'
    /\ \/ work'[w] = [work[w] EXCEPT !.phase = "score"]
       \/ work'[w].phase \notin {"set", "score", "ack"} /\ AgentOf(w) \in stale'

Finishes(w) ==
    /\ Shrinks(w)
    /\ UNCHANGED <<baseline, contended>>
    /\ \/ work[w].phase = "score" /\ work'[w] = [work[w] EXCEPT !.phase = "ack"]
       \/ work'[w].phase \notin {"set", "score", "ack"}
    /\ \/ CacheScore(w)
       \/ /\ UNCHANGED score
          /\ stale \subseteq stale'
          /\ work[w].phase = "score" => AgentOf(w) \in stale'

\* A step of none of these kinds leaves the counting alone.
Idles ==
    /\ UNCHANGED <<stream, cursor, work, baseline, contended, cutShort>>
    /\ (\E a \in Agents : Expire(a)) \/ UNCHANGED <<score, stale>>

LEMMA NextMessageShrinks ==
  ASSUME TypeInv, NEW w \in Workers, work[w].phase \in Busy, TakeNext(w),
         UNCHANGED <<stream, cursor>>, CutShort(w) \/ (work[w].phase = "ack" /\ UNCHANGED cutShort)
  PROVE  Shrinks(w) /\ work'[w].phase \notin {"set", "score", "ack"}
<1>1. work'[w] = NextMessage(w) /\ OnlyWorker(w)
  BY DEF TakeNext, TypeInv, TypeOK, OnlyWorker
<1>2. /\ work'[w].phase \in {"get", "idle"}
      /\ Held(w)' = Held(w) \ {work[w].next}
  BY <1>1, NextMessageFacts DEF Held
<1>3. Unsaved(w)' = Held(w) \ {work[w].next}
  BY <1>2 DEF Unsaved
<1>4. Held(w) \ {work[w].next} \subseteq Unsaved(w)
  BY DEF Unsaved
<1> QED BY <1>1, <1>2, <1>3, <1>4 DEF Shrinks, CutShort

LEMMA RestingShrinks ==
  ASSUME TypeInv, NEW w \in Workers, NEW p \in {"idle", "down"},
         work' = [work EXCEPT ![w] = Resting(p)],
         UNCHANGED <<stream, cursor>>, Held(w) \subseteq cutShort', cutShort \subseteq cutShort'
  PROVE  Shrinks(w) /\ work'[w].phase \notin {"set", "score", "ack"}
<1>1. work'[w] = Resting(p) /\ OnlyWorker(w)
  BY DEF TypeInv, TypeOK, OnlyWorker
<1>2. work'[w].phase = p /\ Held(w)' = {}
  BY <1>1 DEF Resting, Held
<1>3. Unsaved(w)' = {}
  BY <1>2 DEF Unsaved
<1> QED BY <1>1, <1>2, <1>3 DEF Shrinks

LEMMA ProceedShrinks ==
  ASSUME TypeInv, NEW w \in Workers, work[w].phase \in {"set", "score"}, Proceed(w),
         UNCHANGED <<stream, cursor, cutShort>>
  PROVE  /\ Shrinks(w)
         /\ work'[w] = [work[w] EXCEPT !.phase = Following(work[w].phase)]
         /\ Following(work[w].phase) = IF work[w].phase = "set" THEN "score" ELSE "ack"
<1>1. /\ work'[w] = [work[w] EXCEPT !.phase = Following(work[w].phase)]
      /\ OnlyWorker(w)
  BY DEF Proceed, TypeInv, TypeOK, OnlyWorker
<1>2. Following(work[w].phase) = IF work[w].phase = "set" THEN "score" ELSE "ack"
  BY DEF Following
<1>3. /\ work'[w].next = work[w].next /\ work'[w].last = work[w].last
      /\ work'[w].phase \in {"score", "ack"}
  BY <1>1, <1>2, WorkFacts DEF WorkOK
<1>4. Held(w)' = Held(w) /\ Unsaved(w)' = Held(w) \ {work[w].next}
  BY <1>3 DEF Held, Unsaved
<1>5. Held(w) \ {work[w].next} \subseteq Unsaved(w)
  BY DEF Unsaved
<1> QED BY <1>1, <1>2, <1>4, <1>5 DEF Shrinks

LEMMA Kinds ==
  ASSUME TypeInv, [Next]_vars
  PROVE  \/ Idles
         \/ \E a \in Agents, x \in Values : Emit(a, x)
         \/ \E w \in Workers : Delivers(w) \/ Load(w) \/ Stores(w) \/ Finishes(w)
<1> USE DEF group
<1>1. UNCHANGED vars => Idles
  BY DEF vars, Idles
<1>2. ASSUME NEW a \in Agents, Expire(a)
      PROVE  Idles
  BY <1>2 DEF Expire, Idles
<1>3. ASSUME NEW w \in Workers, Run(w) \/ Break(w)
      PROVE  Delivers(w) \/ Load(w) \/ Stores(w) \/ Finishes(w)
  <2>1. CASE Poll(w)
    <3> DEFINE r == [phase |-> "get", next |-> FirstNew, last |-> LastRead, base |-> NoBaseline]
    <3>1. Deliver(w) /\ work' = [work EXCEPT ![w] = r]
      BY <2>1 DEF Poll
    <3>2. work'[w] = r /\ OnlyWorker(w)
      BY <3>1 DEF OnlyWorker, TypeInv, TypeOK
    <3>3. Held(w)' = FirstNew .. LastRead
      BY <3>2 DEF Held
    <3> QED BY <2>1, <3>1, <3>2, <3>3 DEF Poll, Delivers
  <2>2. CASE PollReplyLost(w)
    <3>1. Deliver(w) /\ work' = [work EXCEPT ![w] = Resting("down")]
      BY <2>2 DEF PollReplyLost
    <3>2. work'[w] = Resting("down") /\ OnlyWorker(w)
      BY <3>1 DEF OnlyWorker, TypeInv, TypeOK
    <3>3. Held(w)' = {} /\ work'[w].phase = "down"
      BY <3>2 DEF Held, Resting
    <3> QED BY <2>2, <3>1, <3>2, <3>3 DEF PollReplyLost, Delivers
  <2>3. CASE Store(w)
    <3>1. work[w].phase = "set" /\ StoreBaseline(w) /\ Proceed(w)
      BY <2>3 DEF Store, StoreBaseline
    <3>2. /\ Shrinks(w) /\ work'[w] = [work[w] EXCEPT !.phase = "score"]
      BY <2>3, <3>1, ProceedShrinks DEF Store
    <3> QED BY <2>3, <3>1, <3>2 DEF Store, Stores
  <2>4. CASE Cache(w)
    <3>1. work[w].phase = "score" /\ CacheScore(w) /\ Proceed(w)
      BY <2>4 DEF Cache, CacheScore
    <3>2. /\ Shrinks(w) /\ work'[w] = [work[w] EXCEPT !.phase = "ack"]
      BY <2>4, <3>1, ProceedShrinks DEF Cache
    <3> QED BY <2>4, <3>1, <3>2 DEF Cache, Finishes
  <2>5. CASE Ack(w) \/ AckReplyLost(w)
    <3>1. /\ work[w].phase = "ack" /\ work[w].phase \in Busy /\ TakeNext(w)
          /\ UNCHANGED <<stream, cursor, baseline, score, contended, stale>>
          /\ CutShort(w) \/ UNCHANGED cutShort
      BY <2>5 DEF Ack, AckReplyLost, Busy
    <3>2. Shrinks(w) /\ work'[w].phase \notin {"set", "score", "ack"}
      BY <3>1, NextMessageShrinks
    <3> QED BY <3>1, <3>2 DEF Finishes
  <2>6. CASE Restart(w)
    <3>1. Held(w) = {}
      BY <2>6, WorkFacts DEF Restart, WorkOK, Held, Busy
    <3>2. Shrinks(w) /\ work'[w].phase \notin {"set", "score", "ack"}
      BY <2>6, <3>1, RestingShrinks DEF Restart
    <3> QED BY <2>6, <3>2 DEF Restart, Finishes
  <2>7. CASE Raises(w)
    <3>1. Shrinks(w) /\ work'[w].phase \notin {"set", "score", "ack"}
      BY <2>7, NextMessageShrinks DEF Raises
    <3> QED BY <2>7, <3>1 DEF Raises, Finishes
  <2>8. CASE StoreReplyLost(w)
    <3>1. work[w].phase \in Busy /\ StoreBaseline(w)
      BY <2>8, BaselineStep DEF StoreReplyLost
    <3>2. Shrinks(w) /\ work'[w].phase \notin {"set", "score", "ack"}
      BY <2>8, <3>1, NextMessageShrinks DEF StoreReplyLost
    <3> QED BY <2>8, <3>1, <3>2 DEF StoreReplyLost, Stores
  <2>9. CASE CacheReplyLost(w)
    <3>1. work[w].phase \in Busy /\ CacheScore(w)
      BY <2>9, ScoreStep DEF CacheReplyLost
    <3>2. Shrinks(w) /\ work'[w].phase \notin {"set", "score", "ack"}
      BY <2>9, <3>1, NextMessageShrinks DEF CacheReplyLost
    <3> QED BY <2>9, <3>1, <3>2 DEF CacheReplyLost, Finishes
  <2>10. CASE Crash(w)
    <3>1. Shrinks(w) /\ work'[w].phase \notin {"set", "score", "ack"}
      BY <2>10, RestingShrinks DEF Crash
    <3> QED BY <2>10, <3>1 DEF Crash, Finishes
  <2> QED BY <1>3, <2>1, <2>2, <2>3, <2>4, <2>5, <2>6, <2>7, <2>8, <2>9, <2>10 DEF Run, Break
<1> QED BY <1>1, <1>2, <1>3 DEF Next

-----------------------------------------------------------------------------
(***************************************************************************)
(* Sessions are counted once.                                              *)
(***************************************************************************)
\* What was emitted and delivered stays.
LEMMA HistoryStep ==
  ASSUME TypeInv, [Next]_vars
  PROVE  /\ cursor \in Nat /\ cursor' \in Nat /\ cursor <= cursor'
         /\ \A i \in 1..cursor : stream'[i] = stream[i]
         /\ contended \subseteq contended'
         /\ cutShort \subseteq cutShort'
<1>1. cursor \in Nat /\ Len(stream) \in Nat /\ cursor <= Len(stream)
  BY DEF TypeInv, TypeOK
<1>2. CASE Idles
  BY <1>1, <1>2 DEF Idles
<1>3. ASSUME NEW a \in Agents, NEW x \in Values, Emit(a, x)
      PROVE  /\ UNCHANGED <<cursor, contended, cutShort>>
             /\ \A i \in 1..cursor : stream'[i] = stream[i]
  <2>1. stream \in Seq([agent : Agents, value : Values])
    BY DEF TypeInv, TypeOK
  <2> QED BY <1>1, <1>3, <2>1 DEF Emit
<1>4. ASSUME NEW w \in Workers, Delivers(w)
      PROVE  /\ UNCHANGED <<stream, contended>> /\ cursor' \in Nat /\ cursor <= cursor'
             /\ cutShort \subseteq cutShort'
  BY <1>1, <1>4, DeliverStep DEF Delivers, Deliver
<1>5. ASSUME NEW w \in Workers, Load(w) \/ Stores(w) \/ Finishes(w)
      PROVE  /\ UNCHANGED <<stream, cursor>> /\ contended \subseteq contended'
             /\ cutShort \subseteq cutShort'
  BY <1>5 DEF Load, group, Stores, Finishes, Shrinks, StoreBaseline
<1> QED BY <1>1, <1>2, <1>3, <1>4, <1>5, Kinds

\* Counting one more session.
LEMMA UpdateCounts ==
  ASSUME NEW b \in Baselines, NEW i \in Nat, NEW x \in Int
  PROVE  LET n == UpdateBaseline(b, i, x)
         IN  /\ DOMAIN b.sessions = 1..Len(b.sessions) /\ Len(b.sessions) \in Nat
             /\ DOMAIN n.sessions = 1..(Len(b.sessions) + 1)
             /\ \A k \in DOMAIN b.sessions : n.sessions[k] = b.sessions[k]
             /\ n.sessions[Len(b.sessions) + 1] = i
             /\ n.sessions # <<>> /\ Last(n.sessions) = i
             /\ \A j : In(j, n) <=> In(j, b) \/ j = i
<1> DEFINE n == UpdateBaseline(b, i, x)
           m == Len(b.sessions)
<1>1. b.sessions \in Seq(Nat) /\ n.sessions = Append(b.sessions, i)
  BY UpdateFacts DEF Baselines
<1>2. /\ m \in Nat /\ Len(n.sessions) = m + 1
      /\ DOMAIN b.sessions = 1..m /\ DOMAIN n.sessions = 1..(m + 1)
      /\ \A k \in 1..m : n.sessions[k] = b.sessions[k]
      /\ n.sessions[m + 1] = i
  BY <1>1
<1>3. n.sessions # <<>> /\ Last(n.sessions) = i
  BY <1>2 DEF Last
<1>4. ASSUME NEW j
      PROVE  In(j, n) <=> In(j, b) \/ j = i
  <2>1. 1..(m + 1) = 1..m \cup {m + 1}
    BY <1>2
  <2> HIDE DEF n, m
  <2> QED BY <2>1, <1>2 DEF In
<1> QED BY <1>2, <1>3, <1>4

\* The last session of a baseline is in it.
LEMMA LastIsIn ==
  ASSUME NEW b \in Baselines, b.sessions # <<>>
  PROVE  Len(b.sessions) \in DOMAIN b.sessions /\ In(Last(b.sessions), b)
<1>1. b.sessions \in Seq(Nat)
  BY DEF Baselines
<1>2. Len(b.sessions) \in DOMAIN b.sessions
  BY <1>1
<1> QED BY <1>2 DEF In, Last

LEMMA CountInit == Init => CountInv
<1> SUFFICES ASSUME Init
             PROVE  CountInv
  OBVIOUS
<1>1. \A w \in Workers : work[w].phase = "idle" /\ Held(w) = {}
  BY DEF Init, Resting, Held
<1>2. \A a \in Agents : baseline[a] = NoBaseline /\ baseline[a].sessions = <<>>
  BY DEF Init, NoBaseline
<1>3. DOMAIN <<>> = {}
  OBVIOUS
<1> QED BY <1>1, <1>2, <1>3
        DEF CountInv, DisjointInv, StoredInv, ReadInv, UnsavedInv, Counts, Unsaved, Updating

\* A worker reads a baseline.
LEMMA LoadEffect ==
  ASSUME TypeInv, NEW w \in Workers, Load(w)
  PROVE  /\ UNCHANGED <<stream, cursor, baseline>> /\ OnlyWorker(w)
         /\ work[w].phase = "get" /\ work'[w].phase = "set"
         /\ work[w].next \in Held(w) /\ work[w].next \in Nat
         /\ AgentOf(w) \in Agents /\ ValueOf(w) \in Int
         /\ work'[w].next = work[w].next /\ work'[w].last = work[w].last
         /\ work'[w].base = UpdateBaseline(baseline[AgentOf(w)], work[w].next, ValueOf(w))
         /\ Held(w)' = Held(w) /\ Unsaved(w)' = Unsaved(w) /\ AgentOf(w)' = AgentOf(w)
<1> DEFINE b == UpdateBaseline(baseline[AgentOf(w)], work[w].next, ValueOf(w))
<1>1. work[w].phase = "get" /\ UNCHANGED <<stream, cursor, baseline>>
  BY DEF Load, group
<1>2. work' = [work EXCEPT ![w].phase = Following(@), ![w].base = b]
  BY DEF Load
<1>3. work'[w] = [work[w] EXCEPT !.phase = Following(@), !.base = b] /\ OnlyWorker(w)
  BY <1>2 DEF TypeInv, TypeOK, OnlyWorker
<1>4. Following("get") = "set"
  BY DEF Following
<1> HIDE DEF b
<1>5. /\ work'[w].phase = "set" /\ work'[w].base = b
      /\ work'[w].next = work[w].next /\ work'[w].last = work[w].last
  BY <1>1, <1>3, <1>4, WorkFacts DEF WorkOK
<1>6. Held(w)' = Held(w) /\ AgentOf(w)' = AgentOf(w)
  BY <1>1, <1>5 DEF Held, AgentOf
<1>7. Unsaved(w)' = Unsaved(w)
  BY <1>1, <1>5, <1>6 DEF Unsaved
<1>8. /\ work[w].next \in Held(w) /\ work[w].next \in Nat
      /\ AgentOf(w) \in Agents /\ ValueOf(w) \in Int
  BY <1>1, EntryFacts, WorkFacts DEF Busy
<1> QED BY <1>1, <1>3, <1>5, <1>6, <1>7, <1>8 DEF b

\* A worker stores a baseline.
LEMMA StoreEffect ==
  ASSUME TypeInv, NEW w \in Workers, Stores(w)
  PROVE  /\ UNCHANGED <<stream, cursor>> /\ OnlyWorker(w)
         /\ Updating(w) /\ work[w].phase = "set" /\ AgentOf(w) \in Agents
         /\ baseline' = [baseline EXCEPT ![AgentOf(w)] = work[w].base]
         /\ Held(w)' \subseteq Held(w)
         /\ Unsaved(w)' \subseteq Unsaved(w) \ {work[w].next}
         /\ Updating(w)' => /\ work'[w].base = work[w].base
                            /\ work'[w].next = work[w].next
                            /\ AgentOf(w)' = AgentOf(w)
         /\ work'[w].phase # "set"
<1>1. /\ UNCHANGED <<stream, cursor>> /\ OnlyWorker(w) /\ work[w].phase = "set"
      /\ baseline' = [baseline EXCEPT ![AgentOf(w)] = work[w].base]
      /\ Held(w)' \subseteq Held(w) /\ Unsaved(w)' \subseteq Unsaved(w) \ {work[w].next}
  BY DEF Stores, Shrinks, StoreBaseline
<1>2. AgentOf(w) \in Agents /\ Updating(w)
  BY <1>1, EntryFacts DEF Busy, Updating
<1>3. CASE work'[w] = [work[w] EXCEPT !.phase = "score"]
  <2>1. work'[w].base = work[w].base /\ work'[w].next = work[w].next /\ work'[w].phase = "score"
    BY <1>3, WorkFacts DEF WorkOK
  <2> QED BY <1>1, <1>2, <2>1 DEF AgentOf
<1>4. CASE work'[w].phase \notin {"set", "score", "ack"}
  BY <1>1, <1>2, <1>4 DEF Updating
<1> QED BY <1>3, <1>4 DEF Stores

\* A worker finishes a message, or one of its commands.
LEMMA FinishEffect ==
  ASSUME TypeInv, NEW w \in Workers, Finishes(w)
  PROVE  /\ UNCHANGED <<stream, cursor, baseline>> /\ OnlyWorker(w)
         /\ Held(w)' \subseteq Held(w) /\ Unsaved(w)' \subseteq Unsaved(w)
         /\ ~Updating(w)'
<1>1. work[w].phase = "score" /\ work'[w] = [work[w] EXCEPT !.phase = "ack"]
        => work'[w].phase = "ack"
  BY WorkFacts DEF WorkOK
<1> QED BY <1>1 DEF Finishes, Shrinks, Updating

\* A worker takes over a batch.
LEMMA DeliverEffect ==
  ASSUME TypeInv, NEW w \in Workers, Delivers(w)
  PROVE  /\ UNCHANGED <<stream, baseline>> /\ OnlyWorker(w) /\ ~Updating(w)'
         /\ \A i \in Held(w)' : i \in Nat /\ i > cursor
<1>1. Deliver(w) /\ Held(w)' \subseteq FirstNew .. LastRead
  BY DEF Delivers
<1>2. FirstNew = cursor + 1 /\ LastRead \in Nat
  BY <1>1, WorkFacts, DeliverStep
<1>3. \A i \in FirstNew .. LastRead : i \in Nat /\ i > cursor
  BY <1>2, WorkFacts
<1> QED BY <1>1, <1>3 DEF Delivers, Deliver, Updating

\* A step leaves a worker alone.
LEMMA KeptEffect ==
  ASSUME TypeInv, [Next]_vars, NEW u \in Workers, work'[u] = work[u]
  PROVE  /\ Held(u)' = Held(u) /\ Unsaved(u)' = Unsaved(u) /\ Updating(u)' = Updating(u)
         /\ Updating(u) => AgentOf(u)' = AgentOf(u)
<1>1. Updating(u) => work[u].next \in 1..cursor
  BY EntryFacts DEF Updating, Busy
<1> QED BY HistoryStep, <1>1 DEF Held, Unsaved, Updating, AgentOf

LEMMA CountStep ==
  ASSUME TypeInv, TypeInv', CountInv, [Next]_vars
  PROVE  CountInv'
<1> DEFINE CountsThen(b, a) ==
      /\ \A k \in DOMAIN b.sessions :
           b.sessions[k] \in 1..cursor' /\ stream'[b.sessions[k]].agent = a
      /\ \A k, l \in DOMAIN b.sessions : b.sessions[k] = b.sessions[l] => k = l
<1>1. /\ cursor \in Nat /\ cursor' \in Nat /\ cursor <= cursor'
      /\ \A i \in 1..cursor : stream'[i] = stream[i]
  BY HistoryStep
<1>2. ASSUME NEW b, NEW a, Counts(b, a)
      PROVE  CountsThen(b, a)
  BY <1>1, <1>2 DEF Counts
<1>3. DisjointInv /\ StoredInv /\ ReadInv /\ UnsavedInv
  BY DEF CountInv
<1>4. \A w \in Workers : /\ Held(w) \subseteq 1..cursor /\ Unsaved(w) \subseteq Held(w)
                         /\ work[w].base \in Baselines
  BY WorkFacts DEF WorkOK, Held, Unsaved
<1>5. \A a \in Agents : baseline[a] \in Baselines
  BY DEF TypeInv, TypeOK
<1>6. ASSUME NEW a \in Agents, NEW x \in Values, Emit(a, x)
       PROVE  UNCHANGED <<cursor, work, baseline>>
  BY <1>6 DEF Emit
<1>7. Idles => UNCHANGED <<stream, cursor, work, baseline>>
  BY DEF Idles
<1> HIDE DEF CountsThen
<1>8. StoredInv'
  <2> SUFFICES ASSUME NEW a \in Agents
               PROVE  /\ CountsThen(baseline'[a], a)
                      /\ baseline'[a].sessions = <<>> => baseline'[a] = NoBaseline
    BY DEF StoredInv, Counts, CountsThen
  <2>1. CASE baseline'[a] = baseline[a]
    BY <2>1, <1>2, <1>3 DEF StoredInv
  <2>2. ASSUME NEW w \in Workers, Stores(w), a = AgentOf(w)
        PROVE  CountsThen(baseline'[a], a) /\ baseline'[a].sessions # <<>>
    <3>1. baseline'[a] = work[w].base
      BY <2>2, StoreEffect DEF TypeInv, TypeOK
    <3>2. Counts(work[w].base, a) /\ work[w].base.sessions # <<>>
      BY <2>2, StoreEffect, <1>3 DEF ReadInv
    <3> QED BY <3>1, <3>2, <1>2
  <2>3. ASSUME NEW w \in Workers, Stores(w), a # AgentOf(w)
        PROVE  baseline'[a] = baseline[a]
    BY <2>3, StoreEffect DEF TypeInv, TypeOK
  <2> QED BY <2>1, <2>2, <2>3, LoadEffect, FinishEffect, DeliverEffect, <1>6, <1>7, Kinds
<1>9. DisjointInv'
  <2> SUFFICES ASSUME NEW u \in Workers, NEW v \in Workers, u # v
               PROVE  Held(u)' \cap Held(v)' = {}
    BY DEF DisjointInv
  <2>1. Held(u) \cap Held(v) = {} /\ Held(u) \subseteq 1..cursor /\ Held(v) \subseteq 1..cursor
    BY <1>3, <1>4 DEF DisjointInv
  <2>2. CASE UNCHANGED work
    BY <2>1, <2>2, KeptEffect
  <2>3. ASSUME NEW w \in Workers, Load(w) \/ Stores(w) \/ Finishes(w)
        PROVE  Held(u)' \cap Held(v)' = {}
    <3>1. \A t \in Workers : Held(t)' \subseteq Held(t)
      BY <2>3, LoadEffect, StoreEffect, FinishEffect, KeptEffect DEF OnlyWorker
    <3> QED BY <2>1, <3>1
  <2>4. ASSUME NEW w \in Workers, Delivers(w)
        PROVE  Held(u)' \cap Held(v)' = {}
    <3>1. \A i \in Held(w)' : i \notin 1..cursor
      BY <2>4, DeliverEffect, <1>1
    <3>2. (u # w => Held(u)' = Held(u)) /\ (v # w => Held(v)' = Held(v))
      BY <2>4, DeliverEffect, KeptEffect DEF OnlyWorker
    <3> QED BY <2>1, <3>1, <3>2
  <2> QED BY <2>2, <2>3, <2>4, <1>6, <1>7, Kinds
<1>10. ReadInv'
  <2> SUFFICES ASSUME NEW u \in Workers, Updating(u)'
               PROVE  /\ CountsThen(work'[u].base, AgentOf(u)')
                      /\ work'[u].base.sessions # <<>>
                      /\ Last(work'[u].base.sessions) = work'[u].next
    BY DEF ReadInv, Counts, CountsThen
  <2>1. CASE work'[u] = work[u]
    BY <2>1, <1>2, <1>3, KeptEffect DEF ReadInv
  <2>2. CASE Load(u)
    <3> DEFINE a == AgentOf(u)
               b == baseline[a]
               i == work[u].next
               n == UpdateBaseline(b, i, ValueOf(u))
    <3>1. /\ work'[u].base = n /\ work'[u].next = i /\ AgentOf(u)' = a
          /\ a \in Agents /\ b \in Baselines /\ i \in Nat /\ ValueOf(u) \in Int
      BY <2>2, <1>5, LoadEffect
    <3>2. i \in Unsaved(u) /\ i \in 1..cursor
      BY <2>2, <1>4, LoadEffect DEF Unsaved
    <3>3. Counts(b, a) /\ ~In(i, b) /\ stream[i].agent = a
      BY <3>1, <3>2, <1>3 DEF StoredInv, UnsavedInv, AgentOf
    <3> HIDE DEF a, b, i
    <3>4. /\ DOMAIN b.sessions = 1..Len(b.sessions) /\ Len(b.sessions) \in Nat
          /\ DOMAIN n.sessions = 1..(Len(b.sessions) + 1)
          /\ \A k \in DOMAIN b.sessions : n.sessions[k] = b.sessions[k]
          /\ n.sessions[Len(b.sessions) + 1] = i
          /\ n.sessions # <<>> /\ Last(n.sessions) = i
      BY <3>1, UpdateCounts
    <3> HIDE DEF n
    <3>5. \A k \in DOMAIN n.sessions : k \in DOMAIN b.sessions \/ k = Len(b.sessions) + 1
      BY <3>4
    <3>6. Counts(n, a)
      BY <3>2, <3>3, <3>4, <3>5 DEF Counts, In
    <3> QED BY <3>1, <3>4, <3>6, <1>2
  <2>3. CASE Stores(u)
    <3>1. Updating(u) /\ work'[u].base = work[u].base /\ work'[u].next = work[u].next
          /\ AgentOf(u)' = AgentOf(u)
      BY <2>3, StoreEffect
    <3> QED BY <3>1, <1>2, <1>3 DEF ReadInv
  <2> QED BY <2>1, <2>2, <2>3, LoadEffect, StoreEffect, FinishEffect, DeliverEffect, <1>6, <1>7, Kinds DEF OnlyWorker
<1>11. UnsavedInv'
  <2> SUFFICES ASSUME NEW v \in Workers, NEW i \in Unsaved(v)'
               PROVE  /\ \A a \in Agents : ~In(i, baseline'[a])
                      /\ \A u \in Workers : Updating(u)' /\ In(i, work'[u].base) =>
                             u = v /\ work'[u].phase = "set" /\ i = work'[u].next
    BY DEF UnsavedInv, In
  <2>1. ASSUME NEW u \in Workers, work'[u] = work[u], i \in Unsaved(v),
               Updating(u)', In(i, work'[u].base)
        PROVE  u = v /\ work'[u].phase = "set" /\ i = work'[u].next
    BY <2>1, <1>3, KeptEffect DEF UnsavedInv
  <2>2. ASSUME i \in Unsaved(v), NEW a \in Agents, baseline'[a] = baseline[a]
        PROVE  ~In(i, baseline'[a])
    BY <2>2, <1>3 DEF UnsavedInv
  <2>3. CASE UNCHANGED <<work, baseline>>
    <3>1. i \in Unsaved(v)
      BY <2>3, KeptEffect
    <3> QED BY <2>1, <2>2, <2>3, <3>1
  <2>4. ASSUME NEW w \in Workers, Delivers(w)
        PROVE  /\ \A a \in Agents : ~In(i, baseline'[a])
               /\ \A u \in Workers : Updating(u)' /\ In(i, work'[u].base) =>
                      u = v /\ work'[u].phase = "set" /\ i = work'[u].next
    <3>1. CASE v = w
      <4>1. i \notin 1..cursor
        <5>1. i \in Held(w)'
          BY <3>1 DEF Unsaved
        <5> QED BY <5>1, <2>4, DeliverEffect, <1>1
      <4>2. \A b, a : Counts(b, a) => ~In(i, b)
        BY <4>1 DEF Counts, In
      <4>3. \A a \in Agents : ~In(i, baseline'[a])
        BY <4>2, <2>4, <1>3, DeliverEffect DEF StoredInv
      <4>4. ASSUME NEW u \in Workers, Updating(u)'
            PROVE  ~In(i, work'[u].base)
        <5>1. u # w /\ work'[u] = work[u] /\ Updating(u)
          BY <4>4, <2>4, DeliverEffect, KeptEffect DEF OnlyWorker
        <5> QED BY <5>1, <4>2, <1>3 DEF ReadInv
      <4> QED BY <4>3, <4>4
    <3>2. CASE v # w
      <4>1. i \in Unsaved(v)
        BY <3>2, <2>4, DeliverEffect, KeptEffect DEF OnlyWorker
      <4> QED BY <4>1, <2>1, <2>2, <2>4, DeliverEffect DEF OnlyWorker
    <3> QED BY <3>1, <3>2
  <2>5. ASSUME NEW w \in Workers, Load(w)
        PROVE  /\ \A a \in Agents : ~In(i, baseline'[a])
               /\ \A u \in Workers : Updating(u)' /\ In(i, work'[u].base) =>
                      u = v /\ work'[u].phase = "set" /\ i = work'[u].next
    <3>1. i \in Unsaved(v)
      BY <2>5, LoadEffect, KeptEffect DEF OnlyWorker
    <3>2. ASSUME In(i, work'[w].base)
          PROVE  w = v /\ work'[w].phase = "set" /\ i = work'[w].next
      <4>1. ~In(i, baseline[AgentOf(w)])
        BY <3>1, <2>5, <1>3, LoadEffect DEF UnsavedInv
      <4>2. i = work[w].next
        BY <3>2, <4>1, <2>5, <1>5, LoadEffect, UpdateCounts
      <4>3. i \in Held(w) /\ i \in Held(v)
        BY <4>2, <3>1, <2>5, <1>4, LoadEffect
      <4> QED BY <4>2, <4>3, <2>5, <1>3, LoadEffect DEF DisjointInv
    <3> QED BY <3>1, <3>2, <2>1, <2>2, <2>5, LoadEffect DEF OnlyWorker
  <2>6. ASSUME NEW w \in Workers, Stores(w)
        PROVE  /\ \A a \in Agents : ~In(i, baseline'[a])
               /\ \A u \in Workers : Updating(u)' /\ In(i, work'[u].base) =>
                      u = v /\ work'[u].phase = "set" /\ i = work'[u].next
    <3>1. i \in Unsaved(v) /\ (v = w => i # work[w].next)
      BY <2>6, StoreEffect, KeptEffect DEF OnlyWorker
    <3>2. ~In(i, work[w].base)
      BY <3>1, <2>6, <1>3, StoreEffect DEF UnsavedInv
    <3>3. \A a \in Agents : ~In(i, baseline'[a])
      <4>1. \A a \in Agents : baseline'[a] = baseline[a] \/ baseline'[a] = work[w].base
        BY <2>6, StoreEffect DEF TypeInv, TypeOK
      <4> QED BY <4>1, <3>1, <3>2, <2>2
    <3>4. Updating(w)' => ~In(i, work'[w].base)
      BY <3>2, <2>6, StoreEffect
    <3> QED BY <3>1, <3>3, <3>4, <2>1, <2>6, StoreEffect DEF OnlyWorker
  <2>7. ASSUME NEW w \in Workers, Finishes(w)
        PROVE  /\ \A a \in Agents : ~In(i, baseline'[a])
               /\ \A u \in Workers : Updating(u)' /\ In(i, work'[u].base) =>
                      u = v /\ work'[u].phase = "set" /\ i = work'[u].next
    <3>1. i \in Unsaved(v)
      BY <2>7, FinishEffect, KeptEffect DEF OnlyWorker
    <3> QED BY <3>1, <2>1, <2>2, <2>7, FinishEffect DEF OnlyWorker
  <2> QED BY <2>3, <2>4, <2>5, <2>6, <2>7, <1>6, <1>7, Kinds
<1> QED BY <1>8, <1>9, <1>10, <1>11 DEF CountInv

-----------------------------------------------------------------------------
(***************************************************************************)
(* Agents for whom no two workers crossed.                                 *)
(***************************************************************************)
\* While such an agent stays so, a stored baseline adds one session to the one
\* before, and no other worker is between its GET and its SET or its score.
LEMMA NotCrossed ==
  ASSUME TypeInv, FreshInv, NEW w \in Workers, Stores(w), AgentOf(w) \notin contended'
  PROVE  /\ work[w].base = UpdateBaseline(baseline[AgentOf(w)], work[w].next, ValueOf(w))
         /\ baseline'[AgentOf(w)] = work[w].base
         /\ ~Crosses(w)
         /\ \A u \in Workers \ {w} : Updating(u) => AgentOf(u) # AgentOf(w)
         /\ \A j : In(j, baseline'[AgentOf(w)])
                     <=> In(j, baseline[AgentOf(w)]) \/ j = work[w].next
<1>1. /\ work[w].phase = "set" /\ AgentOf(w) \notin contended /\ ~Crosses(w)
      /\ AgentOf(w) \in Agents
  BY StoreEffect DEF Stores, StoreBaseline
<1>2. work[w].base = UpdateBaseline(baseline[AgentOf(w)], work[w].next, ValueOf(w))
  BY <1>1 DEF FreshInv
<1>3. baseline'[AgentOf(w)] = work[w].base
  BY <1>1, StoreEffect DEF TypeInv, TypeOK
<1>4. ASSUME NEW u \in Workers \ {w}, Updating(u)
      PROVE  AgentOf(u) # AgentOf(w)
  <2>1. work[u].phase \in {"set", "score"} /\ work[u].next \in Held(u)
    BY <1>4, EntryFacts DEF Updating, Busy
  <2> QED BY <1>1, <2>1 DEF Crosses, AgentOf
<1>5. /\ baseline[AgentOf(w)] \in Baselines /\ work[w].next \in Nat /\ ValueOf(w) \in Int
  <2>1. work[w].next \in 1..cursor /\ ValueOf(w) \in Int
    BY <1>1, EntryFacts DEF Busy
  <2>2. baseline[AgentOf(w)] \in Baselines
    BY <1>1 DEF TypeInv, TypeOK
  <2> QED BY <2>1, <2>2, WorkFacts
<1> QED BY <1>1, <1>2, <1>3, <1>4, <1>5, UpdateCounts

LEMMA FreshInit == Init => FreshInv
BY DEF Init, Resting, FreshInv

LEMMA FreshStep ==
  ASSUME TypeInv, CountInv, FreshInv, [Next]_vars
  PROVE  FreshInv'
<1> SUFFICES ASSUME NEW u \in Workers, AgentOf(u)' \notin contended'
             PROVE  /\ work'[u].phase = "set" =>
                         work'[u].base = UpdateBaseline(baseline'[AgentOf(u)'], work'[u].next, ValueOf(u)')
                    /\ work'[u].phase = "score" => work'[u].base = baseline'[AgentOf(u)']
                    /\ work'[u].phase \in {"score", "ack"} =>
                         In(work'[u].next, baseline'[AgentOf(u)'])
  BY DEF FreshInv, In
<1> DEFINE Fresh ==
      /\ work'[u].phase = "set" =>
           work'[u].base = UpdateBaseline(baseline'[AgentOf(u)'], work'[u].next, ValueOf(u)')
      /\ work'[u].phase = "score" => work'[u].base = baseline'[AgentOf(u)']
      /\ work'[u].phase \in {"score", "ack"} => In(work'[u].next, baseline'[AgentOf(u)'])
<1>1. contended \subseteq contended' /\ \A i \in 1..cursor : stream'[i] = stream[i]
  BY HistoryStep
<1>2. ASSUME work'[u] = work[u], work[u].phase \in {"set", "score", "ack"}
      PROVE  /\ work[u].next \in Held(u)
             /\ AgentOf(u)' = AgentOf(u) /\ ValueOf(u)' = ValueOf(u)
             /\ AgentOf(u) \in Agents /\ AgentOf(u) \notin contended
  BY <1>1, <1>2, EntryFacts DEF Busy, AgentOf, ValueOf
<1>3. CASE UNCHANGED baseline /\ work'[u] = work[u]
  BY <1>2, <1>3 DEF FreshInv
<1>4. ASSUME NEW w \in Workers, Delivers(w)
      PROVE  Fresh
  <2>1. CASE u = w
    BY <2>1, <1>4 DEF Delivers
  <2>2. CASE u # w
    BY <2>2, <1>3, <1>4, DeliverEffect DEF OnlyWorker
  <2> QED BY <2>1, <2>2
<1>5. ASSUME NEW w \in Workers, Load(w)
      PROVE  Fresh
  <2>1. CASE u = w
    <3>1. ValueOf(w)' = ValueOf(w) /\ AgentOf(w)' = AgentOf(w)
      BY <1>5, LoadEffect DEF ValueOf
    <3> QED BY <2>1, <3>1, <1>5, LoadEffect
  <2>2. CASE u # w
    BY <2>2, <1>3, <1>5, LoadEffect DEF OnlyWorker
  <2> QED BY <2>1, <2>2
<1>6. ASSUME NEW w \in Workers, Finishes(w)
      PROVE  Fresh
  <2>1. CASE u = w /\ work'[u].phase \notin {"set", "score", "ack"}
    BY <2>1
  <2>2. CASE u = w /\ work[w].phase = "score" /\ work'[w] = [work[w] EXCEPT !.phase = "ack"]
    <3>1. work'[w].phase = "ack" /\ work'[w].next = work[w].next
      BY <2>2, WorkFacts DEF WorkOK
    <3>2. AgentOf(w)' = AgentOf(w) /\ UNCHANGED baseline
      BY <3>1, <1>6, FinishEffect DEF AgentOf
    <3>3. In(work[w].next, baseline[AgentOf(w)])
      BY <2>2, <3>2, <1>1 DEF FreshInv
    <3> QED BY <2>2, <3>1, <3>2, <3>3
  <2>3. CASE u # w
    BY <2>3, <1>3, <1>6, FinishEffect DEF OnlyWorker
  <2> QED BY <2>1, <2>2, <2>3, <1>6 DEF Finishes
<1>7. ASSUME NEW w \in Workers, Stores(w)
      PROVE  Fresh
  <2>1. CASE u = w /\ work'[u].phase \notin {"set", "score", "ack"}
    BY <2>1
  <2>2. CASE u = w /\ work'[w] = [work[w] EXCEPT !.phase = "score"]
    <3>1. work'[w].phase = "score" /\ Updating(w)'
      BY <2>2, WorkFacts DEF WorkOK, Updating
    <3>2. /\ AgentOf(w)' = AgentOf(w) /\ Updating(w)
          /\ work'[w].base = work[w].base /\ work'[w].next = work[w].next
      BY <3>1, <1>7, StoreEffect
    <3>3. baseline'[AgentOf(w)] = work[w].base
      BY <1>7, StoreEffect DEF TypeInv, TypeOK
    <3>4. In(work[w].next, work[w].base)
      BY <3>2, WorkFacts, LastIsIn DEF CountInv, ReadInv, WorkOK
    <3> QED BY <2>2, <3>1, <3>2, <3>3, <3>4
  <2>3. CASE u # w
    <3>1. work'[u] = work[u]
      BY <2>3, <1>7, StoreEffect DEF OnlyWorker
    <3>2. SUFFICES ASSUME work[u].phase \in {"set", "score", "ack"}
                   PROVE  Fresh
      BY <3>1
    <3>3. CASE AgentOf(u) = AgentOf(w)
      <4>1. work[u].phase = "ack" /\ AgentOf(w) \notin contended'
        BY <2>3, <3>1, <3>2, <3>3, <1>2, <1>7, NotCrossed DEF Updating
      <4>2. In(work[u].next, baseline[AgentOf(w)])
        BY <3>3, <4>1, <1>1 DEF FreshInv
      <4>3. In(work[u].next, baseline'[AgentOf(w)])
        BY <4>1, <4>2, <1>7, NotCrossed
      <4> QED BY <3>1, <3>2, <3>3, <4>1, <4>3, <1>2
    <3>4. CASE AgentOf(u) # AgentOf(w)
      <4>1. baseline'[AgentOf(u)] = baseline[AgentOf(u)]
        BY <3>1, <3>2, <3>4, <1>2, <1>7, StoreEffect DEF TypeInv, TypeOK
      <4> QED BY <3>1, <3>2, <4>1, <1>2 DEF FreshInv
    <3> QED BY <3>3, <3>4
  <2> QED BY <2>1, <2>2, <2>3, <1>7 DEF Stores
<1>8. ASSUME NEW a \in Agents, NEW x \in Values, Emit(a, x)
      PROVE  UNCHANGED <<work, baseline>>
  BY <1>8 DEF Emit
<1>9. Idles => UNCHANGED <<work, baseline>>
  BY DEF Idles
<1> QED BY <1>3, <1>4, <1>5, <1>6, <1>7, <1>8, <1>9, Kinds

LEMMA OrderInit == Init => OrderInv
<1> SUFFICES ASSUME Init, NEW a \in Agents
             PROVE  DOMAIN baseline[a].sessions = {}
  BY DEF OrderInv, StrictlyIncreasing
<1> QED BY DEF Init, NoBaseline

LEMMA OrderStep ==
  ASSUME TypeInv, TypeInv', CountInv, FreshInv, OrderInv, [Next]_vars
  PROVE  OrderInv'
<1> SUFFICES ASSUME NEW a \in Agents, a \notin contended'
             PROVE  /\ StrictlyIncreasing(baseline'[a].sessions)
                    /\ \A v \in Workers : \A i \in Unsaved(v)' :
                         stream'[i].agent = a => \A k \in DOMAIN baseline'[a].sessions :
                                                   baseline'[a].sessions[k] < i
  BY DEF OrderInv, StrictlyIncreasing
<1> DEFINE Ahead(v) ==
      \A i \in Unsaved(v)' : stream'[i].agent = a =>
        \A k \in DOMAIN baseline'[a].sessions : baseline'[a].sessions[k] < i
<1>1. a \notin contended /\ \A i \in 1..cursor : stream'[i] = stream[i]
  BY HistoryStep
<1>2. \A w \in Workers : Held(w) \subseteq 1..cursor /\ Unsaved(w) \subseteq Held(w)
  BY WorkFacts DEF WorkOK, Held, Unsaved
<1>3. StrictlyIncreasing(baseline[a].sessions)
  BY <1>1 DEF OrderInv
<1>4. ASSUME baseline'[a] = baseline[a], NEW v \in Workers, Unsaved(v)' \subseteq Unsaved(v)
      PROVE  Ahead(v)
  <2>1. \A i \in Unsaved(v)' : i \in Unsaved(v) /\ stream'[i] = stream[i]
    BY <1>1, <1>2, <1>4
  <2> QED BY <2>1, <1>1, <1>4 DEF OrderInv
<1>5. CASE baseline'[a] = baseline[a] /\ \A v \in Workers : Unsaved(v)' \subseteq Unsaved(v)
  BY <1>3, <1>4, <1>5
<1>6. ASSUME NEW w \in Workers, Delivers(w), NEW v \in Workers
      PROVE  Ahead(v)
  <2>1. CASE v = w
    <3>1. \A i \in Unsaved(v)' : i \in Nat /\ i > cursor
      BY <2>1, <1>6, DeliverEffect DEF Unsaved
    <3>2. \A k \in DOMAIN baseline[a].sessions : baseline[a].sessions[k] \in 1..cursor
      BY DEF CountInv, StoredInv, Counts
    <3>3. \A k \in DOMAIN baseline[a].sessions :
            baseline[a].sessions[k] \in Nat /\ baseline[a].sessions[k] <= cursor
      BY <3>2
    <3>4. cursor \in Nat
      BY WorkFacts
    <3> QED BY <3>1, <3>3, <3>4, <1>6, DeliverEffect
  <2>2. CASE v # w
    <3>1. Unsaved(v)' = Unsaved(v) /\ baseline'[a] = baseline[a]
      BY <2>2, <1>6, DeliverEffect, KeptEffect DEF OnlyWorker
    <3> QED BY <3>1, <1>4
  <2> QED BY <2>1, <2>2
<1>7. ASSUME NEW w \in Workers, Stores(w), AgentOf(w) = a
      PROVE  StrictlyIncreasing(baseline'[a].sessions) /\ \A v \in Workers : Ahead(v)
  <2> DEFINE s == baseline[a].sessions
             t == baseline'[a].sessions
             m == Len(s)
             n == work[w].next
  <2>1. /\ work[w].phase = "set" /\ ~Crosses(w)
        /\ baseline'[a] = UpdateBaseline(baseline[a], n, ValueOf(w))
    BY <1>7, StoreEffect, NotCrossed
  <2>2. /\ n \in Held(w) /\ n \in 1..cursor /\ cursor \in Nat /\ ValueOf(w) \in Int
        /\ stream[n].agent = a
    BY <2>1, <1>7, EntryFacts, WorkFacts DEF Busy, AgentOf
  <2>3. baseline[a] \in Baselines /\ n \in Nat
    BY <2>2 DEF TypeInv, TypeOK
  <2>4. /\ DOMAIN s = 1..m /\ m \in Nat /\ DOMAIN t = 1..(m + 1)
        /\ \A k \in DOMAIN s : t[k] = s[k]
        /\ t[m + 1] = n
    <3> DEFINE u == UpdateBaseline(baseline[a], n, ValueOf(w))
    <3> HIDE DEF n
    <3>1. /\ DOMAIN s = 1..m /\ m \in Nat /\ DOMAIN u.sessions = 1..(m + 1)
          /\ \A k \in DOMAIN s : u.sessions[k] = s[k]
          /\ u.sessions[m + 1] = n
      BY <2>2, <2>3, UpdateCounts
    <3>2. t = u.sessions
      BY <2>1
    <3> HIDE DEF u, s, t, m
    <3> QED BY <3>1, <3>2
  <2>5. n \in Unsaved(w)
    BY <2>1, <2>2 DEF Unsaved
  <2>6. \A k \in DOMAIN s : s[k] < n
    BY <2>2, <2>5, <1>1 DEF OrderInv
  <2> HIDE DEF s, t, m, n
  <2>7. \A k \in DOMAIN t : k \in DOMAIN s \/ (k = m + 1 /\ t[k] = n)
    BY <2>4
  <2>8. StrictlyIncreasing(t)
    <3> SUFFICES ASSUME NEW k \in DOMAIN t, NEW l \in DOMAIN t, k < l
                 PROVE  t[k] < t[l]
      BY DEF StrictlyIncreasing
    <3>1. k \in DOMAIN s
      BY <2>4
    <3>2. CASE l \in DOMAIN s
      BY <3>1, <3>2, <2>4, <1>3 DEF StrictlyIncreasing, s
    <3>3. CASE l = m + 1
      BY <3>1, <3>3, <2>4, <2>6
    <3> QED BY <3>2, <3>3, <2>7
  <2>9. ASSUME NEW v \in Workers, NEW i \in Unsaved(v)', stream'[i].agent = a
        PROVE  \A k \in DOMAIN t : t[k] < i
    <3>1. i \in Unsaved(v) /\ (v = w => i # n)
      BY <2>9, <1>7, StoreEffect, KeptEffect DEF OnlyWorker, n
    <3>2. i \in Held(v) /\ i \in 1..cursor /\ stream[i].agent = a
      BY <3>1, <2>9, <1>1, <1>2
    <3>3. \A k \in DOMAIN s : s[k] < i
      BY <3>1, <3>2, <1>1 DEF OrderInv, s
    <3>4. n < i
      <4>1. CASE v = w
        BY <3>1, <3>2, <4>1, <2>2, WorkFacts DEF Held, n, WorkOK
      <4>2. CASE v # w
        <5>1. i # n
          BY <4>2, <3>2, <2>2 DEF CountInv, DisjointInv
        <5>2. i = work[v].next => work[v].phase # "ack"
          BY <3>1 DEF Unsaved
        <5>3. ~(i < n)
          BY <4>2, <5>2, <3>2, <2>1, <1>7 DEF Crosses, n
        <5> QED BY <5>1, <5>3, <3>2, <2>2
      <4> QED BY <4>1, <4>2
    <3> QED BY <3>3, <3>4, <2>4, <2>7
  <2> QED BY <2>8, <2>9 DEF t
<1>8. ASSUME NEW w \in Workers, Load(w) \/ Stores(w) \/ Finishes(w), NEW v \in Workers
      PROVE  Unsaved(v)' \subseteq Unsaved(v)
  BY <1>8, LoadEffect, StoreEffect, FinishEffect, KeptEffect DEF OnlyWorker
<1>9. ASSUME NEW w \in Workers, Stores(w), AgentOf(w) # a
      PROVE  baseline'[a] = baseline[a]
  BY <1>9, StoreEffect DEF TypeInv, TypeOK
<1>10. ASSUME NEW c \in Agents, NEW x \in Values, Emit(c, x)
       PROVE  UNCHANGED <<work, baseline>>
  BY <1>10 DEF Emit
<1>11. Idles => UNCHANGED <<work, baseline>>
  BY DEF Idles
<1>12. UNCHANGED work => \A v \in Workers : Unsaved(v)' \subseteq Unsaved(v)
  BY KeptEffect
<1>13. \A w \in Workers : /\ Load(w) \/ Finishes(w) => UNCHANGED baseline
                          /\ Delivers(w) => UNCHANGED baseline
  BY LoadEffect, FinishEffect, DeliverEffect
<1> QED BY <1>3, <1>5, <1>6, <1>7, <1>8, <1>9, <1>10, <1>11, <1>12, <1>13, Kinds

-----------------------------------------------------------------------------
(***************************************************************************)
(* Nothing is forgotten, and scores are current.                           *)
(***************************************************************************)
LEMMA ForgottenInit == Init => NoSessionForgotten
BY DEF Init, NoSessionForgotten

LEMMA ToSetIn ==
  ASSUME NEW b, NEW i
  PROVE  i \in ToSet(b.sessions) <=> In(i, b)
BY DEF ToSet, In

LEMMA ForgottenStep ==
  ASSUME TypeInv, TypeInv', CountInv, FreshInv, NoSessionForgotten, [Next]_vars
  PROVE  NoSessionForgotten'
<1> DEFINE AnyHeld == UNION {Held(w) : w \in Workers}
           Safe(i) ==
      \/ i \in cutShort
      \/ \E w \in Workers : i \in Held(w)
      \/ stream[i].agent \in contended
      \/ In(i, baseline[stream[i].agent])
<1>1. NoSessionForgotten <=> \A i \in 1..cursor : Safe(i)
  BY ToSetIn DEF NoSessionForgotten
<1>2. NoSessionForgotten' <=> \A i \in 1..cursor' : Safe(i)'
  BY ToSetIn DEF NoSessionForgotten, ToSet, In
<1> SUFFICES ASSUME NEW i \in 1..cursor'
             PROVE  Safe(i)'
  BY <1>2
<1>3. /\ contended \subseteq contended' /\ cutShort \subseteq cutShort'
      /\ cursor \in Nat /\ \A j \in 1..cursor : stream'[j] = stream[j]
  BY HistoryStep
<1>4. CASE i \notin 1..cursor
  <2>1. \E w \in Workers : Delivers(w)
    <3>1. cursor' # cursor
      BY <1>4
    <3>2. \A a \in Agents, x \in Values : Emit(a, x) => UNCHANGED cursor
      BY DEF Emit
    <3>3. Idles => UNCHANGED cursor
      BY DEF Idles
    <3> QED BY <3>1, <3>2, <3>3, LoadEffect, StoreEffect, FinishEffect, Kinds
  <2>2. PICK w \in Workers : Delivers(w)
    BY <2>1
  <2>3. i \in FirstNew .. LastRead
    BY <1>3, <1>4, <2>2, DeliverStep DEF Delivers
  <2> QED BY <2>2, <2>3 DEF Delivers
<1>5. CASE i \in 1..cursor
  <2> DEFINE a == stream[i].agent
  <2>1. Safe(i) /\ stream'[i] = stream[i]
    BY <1>1, <1>3, <1>5
  <2>2. a \in Agents
    <3>1. i \in 1..Len(stream) /\ stream \in Seq([agent : Agents, value : Values])
      BY <1>5, WorkFacts DEF TypeInv, TypeOK
    <3>2. stream[i] \in [agent : Agents, value : Values]
      BY <3>1, ElementOfSeq
    <3> QED BY <3>2
  <2>3. CASE i \in cutShort \/ a \in contended
    BY <2>1, <2>3, <1>3
  <2>4. CASE In(i, baseline[a])
    <3>1. CASE baseline'[a] = baseline[a]
      BY <3>1, <2>1, <2>4 DEF In
    <3>2. ASSUME NEW w \in Workers, Stores(w)
          PROVE  Safe(i)'
      <4>1. CASE AgentOf(w) = a
        <5>1. CASE a \in contended'
          BY <5>1, <2>1
        <5>2. CASE a \notin contended'
          <6>1. In(i, baseline'[a])
            BY <4>1, <5>2, <3>2, <2>4, NotCrossed
          <6> QED BY <6>1, <2>1 DEF In
        <5> QED BY <5>1, <5>2
      <4>2. CASE AgentOf(w) # a
        BY <3>1, <4>2, <3>2, <2>2, StoreEffect DEF TypeInv, TypeOK
      <4> QED BY <4>1, <4>2
    <3>3. \A c \in Agents, x \in Values : Emit(c, x) => UNCHANGED baseline
      BY DEF Emit
    <3>4. Idles => UNCHANGED baseline
      BY DEF Idles
    <3> QED BY <3>1, <3>2, <3>3, <3>4, LoadEffect, FinishEffect, DeliverEffect, Kinds
  <2>5. ASSUME NEW u \in Workers, i \in Held(u)
        PROVE  Safe(i)'
    <3>1. CASE Held(u) \subseteq Held(u)'
      BY <3>1, <2>5
    <3>2. CASE Shrinks(u)
      <4>1. CASE i \in cutShort' \/ i \in Held(u)'
        BY <4>1
      <4>2. CASE work[u].phase = "ack" /\ i = work[u].next
        <5>1. AgentOf(u) = a
          BY <4>2 DEF AgentOf
        <5>2. a \in contended \/ In(i, baseline[a])
          BY <4>2, <5>1 DEF FreshInv
        <5> QED BY <5>2, <2>3, <2>4
      <4> QED BY <4>1, <4>2, <3>2, <2>5 DEF Shrinks
    <3>3. CASE work'[u] = work[u]
      BY <3>1, <3>3, KeptEffect
    <3>4. Delivers(u) => Held(u) = {}
      BY WorkFacts DEF Delivers, Deliver, WorkOK, Held, Busy
    <3>5. Load(u) => Held(u)' = Held(u)
      BY LoadEffect
    <3>6. \A c \in Agents, x \in Values : Emit(c, x) => UNCHANGED work
      BY DEF Emit
    <3>7. Idles => UNCHANGED work
      BY DEF Idles
    <3>8. \A w \in Workers : /\ Delivers(w) => OnlyWorker(w)
                             /\ Load(w) => OnlyWorker(w)
                             /\ Stores(w) => Shrinks(w) /\ OnlyWorker(w)
                             /\ Finishes(w) => Shrinks(w) /\ OnlyWorker(w)
      BY LoadEffect DEF Delivers, Stores, Finishes, Shrinks
    <3> QED BY <3>1, <3>2, <3>3, <3>4, <3>5, <3>6, <3>7, <3>8, <2>5, Kinds DEF OnlyWorker
  <2> QED BY <2>1, <2>3, <2>4, <2>5
<1> QED BY <1>4, <1>5

LEMMA CurrentInit == Init => ScoreIsCurrent
BY DEF Init, ScoreIsCurrent

LEMMA CurrentStep ==
  ASSUME TypeInv, TypeInv', CountInv, FreshInv, ScoreIsCurrent, [Next]_vars
  PROVE  ScoreIsCurrent'
<1> DEFINE Current(a) == score[a] = IF baseline[a] = NoBaseline THEN ColdScore
                                    ELSE AnomalyScore(baseline[a], LastValue(a))
           Pending(a) == \E w \in Workers : work[w].phase = "score" /\ AgentOf(w) = a
<1> SUFFICES ASSUME NEW a \in Agents, a \notin contended', a \notin stale'
             PROVE  Pending(a)' \/ Current(a)'
  BY DEF ScoreIsCurrent
<1>1. /\ a \notin contended /\ cursor \in Nat
      /\ \A j \in 1..cursor : stream'[j] = stream[j]
  BY HistoryStep
<1>2. a \notin stale => Pending(a) \/ Current(a)
  BY <1>1 DEF ScoreIsCurrent
<1>3. baseline[a] \in Baselines
  BY DEF TypeInv, TypeOK
<1>4. ASSUME UNCHANGED score, baseline'[a] = baseline[a], Current(a)
      PROVE  Current(a)'
  <2>1. CASE baseline[a] = NoBaseline
    BY <2>1, <1>4
  <2>2. CASE baseline[a] # NoBaseline
    <3>1. baseline[a].sessions # <<>>
      BY <2>2 DEF CountInv, StoredInv
    <3>2. Last(baseline[a].sessions) \in 1..cursor
      BY <3>1, <1>3, LastIsIn DEF CountInv, StoredInv, Counts, In
    <3>3. LastValue(a)' = LastValue(a)
      BY <3>2, <1>1, <1>4 DEF LastValue
    <3> QED BY <3>3, <1>4
  <2> QED BY <2>1, <2>2
\* A worker that is about to cache the score, and is left alone.
<1>5. ASSUME NEW u \in Workers, work[u].phase = "score", AgentOf(u) = a, work'[u] = work[u]
      PROVE  Pending(a)'
  BY <1>5, KeptEffect DEF Updating
<1>6. ASSUME UNCHANGED score, baseline'[a] = baseline[a], a \notin stale,
             NEW w \in Workers, OnlyWorker(w), work[w].phase = "score" => AgentOf(w) # a
      PROVE  Pending(a)' \/ Current(a)'
  BY <1>2, <1>4, <1>5, <1>6 DEF OnlyWorker
<1>7. ASSUME UNCHANGED <<work, baseline, score>>, a \notin stale
      PROVE  Pending(a)' \/ Current(a)'
  BY <1>2, <1>4, <1>5, <1>7
<1>8. CASE Idles
  <2>1. ASSUME NEW c \in Agents, Expire(c)
        PROVE  Pending(a)' \/ Current(a)'
    <3>1. c # a /\ a \notin stale /\ score'[a] = score[a] /\ UNCHANGED baseline
      BY <2>1 DEF Expire, TypeInv, TypeOK
    <3>2. UNCHANGED <<stream, work>>
      BY <1>8 DEF Idles
    <3> QED BY <3>1, <3>2, <1>2 DEF LastValue, AgentOf
  <2> QED BY <1>7, <1>8, <2>1 DEF Idles
<1>9. ASSUME NEW c \in Agents, NEW x \in Values, Emit(c, x)
      PROVE  Pending(a)' \/ Current(a)'
  BY <1>7, <1>9 DEF Emit
<1>10. ASSUME NEW w \in Workers, Delivers(w)
       PROVE  Pending(a)' \/ Current(a)'
  BY <1>6, <1>10 DEF Delivers, Deliver
<1>11. ASSUME NEW w \in Workers, Load(w)
       PROVE  Pending(a)' \/ Current(a)'
  BY <1>6, <1>11, LoadEffect DEF Load
<1>12. ASSUME NEW w \in Workers, Stores(w)
       PROVE  Pending(a)' \/ Current(a)'
  <2>1. /\ UNCHANGED <<stream, score>> /\ OnlyWorker(w) /\ work[w].phase = "set"
        /\ stale \subseteq stale'
    BY <1>12, StoreEffect DEF Stores
  <2>2. CASE AgentOf(w) = a
    <3>1. work'[w] = [work[w] EXCEPT !.phase = "score"]
      BY <2>2, <1>12 DEF Stores
    <3>2. work'[w].phase = "score" /\ work'[w].next = work[w].next
      BY <3>1, WorkFacts DEF WorkOK
    <3> QED BY <2>1, <2>2, <3>2 DEF AgentOf
  <2>3. CASE AgentOf(w) # a
    <3>1. baseline'[a] = baseline[a]
      BY <2>3, <1>12, StoreEffect DEF TypeInv, TypeOK
    <3> QED BY <2>1, <3>1, <1>6
  <2> QED BY <2>2, <2>3
<1>13. ASSUME NEW w \in Workers, Finishes(w)
       PROVE  Pending(a)' \/ Current(a)'
  <2>1. UNCHANGED <<stream, baseline>> /\ OnlyWorker(w)
    BY <1>13, FinishEffect
  <2>2. CASE UNCHANGED score /\ stale \subseteq stale' /\ (work[w].phase = "score" => AgentOf(w) \in stale')
    BY <2>1, <2>2, <1>6
  <2>3. CASE CacheScore(w)
    <3>1. /\ work[w].phase = "score" /\ stale' = stale \ {AgentOf(w)}
          /\ score' = [score EXCEPT ![AgentOf(w)] = AnomalyScore(work[w].base, ValueOf(w))]
      BY <2>3 DEF CacheScore
    <3>2. CASE AgentOf(w) = a
      <4>1. score'[a] = AnomalyScore(work[w].base, ValueOf(w))
        BY <3>1, <3>2 DEF TypeInv, TypeOK
      <4>2. work[w].base = baseline[a]
        BY <3>1, <3>2, <1>1 DEF FreshInv
      <4>3. baseline[a].sessions # <<>> /\ Last(baseline[a].sessions) = work[w].next
        BY <3>1, <4>2 DEF CountInv, ReadInv, Updating
      <4>4. LastValue(a)' = ValueOf(w) /\ baseline'[a] # NoBaseline
        BY <2>1, <4>3 DEF LastValue, ValueOf, NoBaseline
      <4> QED BY <2>1, <4>1, <4>2, <4>4
    <3>3. CASE AgentOf(w) # a
      <4>1. score'[a] = score[a] /\ a \notin stale
        BY <3>1, <3>3 DEF TypeInv, TypeOK
      <4>2. CASE Pending(a)
        BY <4>2, <3>3, <2>1, <1>5 DEF OnlyWorker
      <4>3. CASE Current(a)
        BY <4>1, <4>3, <2>1 DEF LastValue
      <4> QED BY <4>1, <4>2, <4>3, <1>2
    <3> QED BY <3>2, <3>3
  <2> QED BY <2>2, <2>3, <1>13 DEF Finishes
<1> QED BY <1>8, <1>9, <1>10, <1>11, <1>12, <1>13, Kinds

-----------------------------------------------------------------------------
(***************************************************************************)
(* Baselines are weighted moments: powers, weighted sums, and what an      *)
(* update does to them.                                                    *)
(***************************************************************************)
\* The table of the powers of x.
IsPower(p, x, n) == p = [k \in 0..n |-> IF k = 0 THEN 1 ELSE x * p[k - 1]]

\* What the recursion of Power defines.
LEMMA PowersExist ==
  ASSUME NEW x \in Nat
  PROVE  \A n \in Nat : \E p \in [0..n -> Nat] : IsPower(p, x, n)
<1> DEFINE P == {n \in Nat : \E p \in [0..n -> Nat] : IsPower(p, x, n)}
<1>1. 0 \in P
  <2>1. PICK p : p = [k \in 0..0 |-> 1]
    OBVIOUS
  <2>2. p = [k \in 0..0 |-> IF k = 0 THEN 1 ELSE x * p[k - 1]]
    BY <2>1
  <2> QED BY <2>1, <2>2 DEF IsPower
<1>2. ASSUME NEW n \in P PROVE n + 1 \in P
  <2>0. n \in Nat
    OBVIOUS
  <2>1. PICK p \in [0..n -> Nat] : IsPower(p, x, n)
    OBVIOUS
  <2>2. \A k \in 0..n : p[k] = IF k = 0 THEN 1 ELSE x * p[k - 1]
    BY <2>1 DEF IsPower
  <2>3. PICK q : q = [k \in 0..(n + 1) |-> IF k <= n THEN p[k] ELSE x * p[n]]
    OBVIOUS
  <2>4. p[n] \in Nat /\ x * p[n] \in Nat
    BY <2>0, ProductIsNat
  <2>5. q \in [0..(n + 1) -> Nat]
    BY <2>0, <2>3, <2>4
  <2>6. \A k \in 0..(n + 1) : q[k] = IF k = 0 THEN 1 ELSE x * q[k - 1]
    <3> SUFFICES ASSUME NEW k \in 0..(n + 1)
                 PROVE  q[k] = IF k = 0 THEN 1 ELSE x * q[k - 1]
      OBVIOUS
    <3>1. CASE k = 0
      BY <2>0, <2>2, <2>3, <3>1
    <3>2. CASE k # 0
      <4>1. k - 1 \in 0..n /\ q[k - 1] = p[k - 1]
        BY <2>0, <2>3, <3>2
      <4>2. CASE k <= n
        BY <2>0, <2>2, <2>3, <3>2, <4>1, <4>2
      <4>3. CASE ~(k <= n)
        <5>1. k = n + 1 /\ k - 1 = n
          BY <2>0, <4>3
        <5> QED BY <2>0, <2>3, <3>2, <4>1, <4>3, <5>1
      <4> QED BY <4>2, <4>3
    <3> QED BY <3>1, <3>2
  <2>7. IsPower(q, x, n + 1)
    <3>1. q = [k \in 0..(n + 1) |-> q[k]]
      BY <2>3
    <3> QED BY <2>6, <3>1 DEF IsPower
  <2> QED BY <2>0, <2>5, <2>7
<1>3. P \in SUBSET Nat
  OBVIOUS
<1>4. P = Nat
  <2> HIDE DEF P
  <2> QED BY <1>1, <1>2, <1>3, NumberInduction
<1> QED BY <1>4

\* A shorter table of powers is part of a longer one.
LEMMA PowersAgree ==
  ASSUME NEW x \in Nat, NEW m \in Nat, NEW n \in Nat, m <= n,
         NEW p, NEW q, IsPower(p, x, m), IsPower(q, x, n)
  PROVE  \A k \in 0..m : p[k] = q[k]
<1> DEFINE P == {k \in Nat : k <= m => p[k] = q[k]}
<1>1. /\ \A k \in 0..m : p[k] = IF k = 0 THEN 1 ELSE x * p[k - 1]
      /\ \A k \in 0..n : q[k] = IF k = 0 THEN 1 ELSE x * q[k - 1]
  BY DEF IsPower
<1>2. 0 \in P
  BY <1>1
<1>3. ASSUME NEW k \in P PROVE k + 1 \in P
  <2>1. k \in Nat /\ k + 1 # 0 /\ (k + 1) - 1 = k
    OBVIOUS
  <2>2. k + 1 <= m => k + 1 \in 0..m /\ k + 1 \in 0..n /\ p[k] = q[k]
    BY <2>1
  <2>3. k + 1 <= m => p[k + 1] = x * p[k] /\ q[k + 1] = x * q[k]
    BY <1>1, <2>1, <2>2
  <2> QED BY <2>1, <2>2, <2>3
<1>4. P \in SUBSET Nat
  OBVIOUS
<1>5. P = Nat
  <2> HIDE DEF P
  <2> QED BY <1>2, <1>3, <1>4, NumberInduction
<1>6. \A k \in 0..m : k \in P /\ k <= m
  BY <1>5
<1> QED BY <1>6

\* The recursion of Power.
LEMMA PowerFacts ==
  ASSUME NEW x \in Nat, NEW n \in Nat
  PROVE  /\ Power(x, n) \in Nat
         /\ Power(x, 0) = 1
         /\ Power(x, n + 1) = x * Power(x, n)
<1>1. ASSUME NEW m \in Nat
      PROVE  \E p \in [0..m -> Nat] : IsPower(p, x, m) /\ Power(x, m) = p[m]
  <2> DEFINE R(p) == p = [k \in 0..m |-> IF k = 0 THEN 1 ELSE x * p[k - 1]]
  <2>1. Power(x, m) = (CHOOSE p : R(p))[m]
    BY DEF Power
  <2>2. \A p : R(p) <=> IsPower(p, x, m)
    BY DEF IsPower
  <2> HIDE DEF R
  <2>3. PICK q \in [0..m -> Nat] : IsPower(q, x, m)
    BY PowersExist
  <2>4. PICK p : p = CHOOSE r : R(r)
    OBVIOUS
  <2>5. IsPower(p, x, m)
    BY <2>2, <2>3, <2>4
  <2>6. DOMAIN p = 0..m /\ p = [k \in 0..m |-> p[k]]
    BY <2>5 DEF IsPower
  <2>7. \A k \in 0..m : p[k] = q[k]
    BY <2>3, <2>5, PowersAgree
  <2>8. p \in [0..m -> Nat]
    BY <2>6, <2>7
  <2> QED BY <2>1, <2>4, <2>5, <2>8
<1>2. PICK p \in [0..n -> Nat] : IsPower(p, x, n) /\ Power(x, n) = p[n]
  BY <1>1
<1>3. PICK q \in [0..(n + 1) -> Nat] : IsPower(q, x, n + 1) /\ Power(x, n + 1) = q[n + 1]
  <2>1. PICK m \in Nat : m = n + 1
    OBVIOUS
  <2> QED BY <1>1, <2>1
<1>4. PICK z \in [0..0 -> Nat] : IsPower(z, x, 0) /\ Power(x, 0) = z[0]
  BY <1>1
<1>5. z[0] = 1
  BY <1>4 DEF IsPower
<1>6. q[n + 1] = x * q[n]
  <2>1. n + 1 \in 0..(n + 1) /\ n + 1 # 0 /\ (n + 1) - 1 = n
    OBVIOUS
  <2> QED BY <1>3, <2>1 DEF IsPower
<1>7. q[n] = p[n]
  BY <1>2, <1>3, PowersAgree
<1> QED BY <1>2, <1>3, <1>4, <1>5, <1>6, <1>7

\* The sum of u over the first n sessions, each with its weight.
Moment(u, n) == Balance([i \in 1..n |-> WeightOf(i, n) * u[i]], 1..n)

Ones(n) == [i \in 1..n |-> 1]

Squares(u, n) == [i \in 1..n |-> u[i] * u[i]]

\* A session more has its own weight, and reduces those of the others.
LEMMA WeightFacts ==
  ASSUME NEW n \in Nat \ {0}
  PROVE  /\ \A i \in 1..n : WeightOf(i, n) \in Int
         /\ \A i \in 1..n : WeightOf(i, n + 1) = Rest * WeightOf(i, n)
         /\ WeightOf(n + 1, n + 1) = Weight * Power(Whole, n - 1)
         /\ WeightOf(1, 1) = 1
<1>0. Rest \in Nat /\ Whole \in Nat /\ Weight = 2
  BY ScoringAssumption DEF Rest, Whole, Weight
<1>1. \A m \in Nat : /\ Power(Rest, m) \in Nat /\ Power(Whole, m) \in Nat
                     /\ Power(Rest, m + 1) = Rest * Power(Rest, m)
                     /\ Power(Rest, 0) = 1
  BY <1>0, PowerFacts
<1>2. WeightOf(1, 1) = 1
  <2>1. 1 - 1 = 0
    OBVIOUS
  <2> QED BY <1>1, <2>1 DEF WeightOf
<1>3. WeightOf(n + 1, n + 1) = Weight * Power(Whole, n - 1)
  <2>1. n + 1 # 1 /\ (n + 1) - (n + 1) = 0 /\ (n + 1) - 2 = n - 1 /\ n - 1 \in Nat
    OBVIOUS
  <2>2. WeightOf(n + 1, n + 1) = Weight * Power(Rest, 0) * Power(Whole, n - 1)
    BY <2>1 DEF WeightOf
  <2>3. PICK p : p = Power(Whole, n - 1)
    OBVIOUS
  <2>4. p \in Nat /\ WeightOf(n + 1, n + 1) = 2 * 1 * p
    BY <1>0, <1>1, <2>1, <2>2, <2>3
  <2> QED BY <1>0, <2>3, <2>4
<1>4. ASSUME NEW i \in 1..n
      PROVE  WeightOf(i, n) \in Int /\ WeightOf(i, n + 1) = Rest * WeightOf(i, n)
  <2>1. CASE i = 1
    <3>1. n - 1 \in Nat /\ (n + 1) - 1 = (n - 1) + 1
      OBVIOUS
    <3>2. WeightOf(i, n) = Power(Rest, n - 1) /\ WeightOf(i, n + 1) = Power(Rest, (n - 1) + 1)
      BY <2>1, <3>1 DEF WeightOf
    <3> QED BY <1>1, <3>1, <3>2
  <2>2. CASE i # 1
    <3>1. n - i \in Nat /\ (n + 1) - i = (n - i) + 1 /\ i - 2 \in Nat
      BY <2>2
    <3>2. PICK r, p : r = Power(Rest, n - i) /\ p = Power(Whole, i - 2)
      OBVIOUS
    <3>3. r \in Nat /\ p \in Nat /\ Power(Rest, (n - i) + 1) = Rest * r
      BY <1>1, <3>1, <3>2
    <3>4. /\ WeightOf(i, n) = 2 * r * p
          /\ WeightOf(i, n + 1) = 2 * (Rest * r) * p
      BY <1>0, <2>2, <3>1, <3>2, <3>3 DEF WeightOf
    <3>5. /\ 2 * r * p \in Int
          /\ 2 * (Rest * r) * p = Rest * (2 * r * p)
      BY ONLY <1>0, <3>3
    <3> QED BY <3>4, <3>5
  <2> QED BY <2>1, <2>2
<1> QED BY <1>2, <1>3, <1>4

\* The moment of one session is its value.
LEMMA MomentOfOne ==
  ASSUME NEW u, u[1] \in Int
  PROVE  Moment(u, 1) = u[1]
<1>1. PICK f : f = [i \in 1..1 |-> WeightOf(i, 1) * u[i]]
  OBVIOUS
<1>2. f[1] = u[1] /\ f \in [{1} -> Int]
  <2>1. \A i \in 1..1 : i = 1
    OBVIOUS
  <2>2. \A i \in 1..1 : f[i] = u[1]
    BY <1>1, <2>1, WeightFacts
  <2> QED BY <1>1, <2>1, <2>2
<1>3. Balance(f, {} \cup {1}) = Balance(f, {}) + f[1] /\ Balance(f, {}) = 0
  BY <1>2, BalanceFacts, FS_EmptySet
<1>4. 1..1 = {} \cup {1}
  OBVIOUS
<1> QED BY <1>1, <1>2, <1>3, <1>4 DEF Moment

\* How a session more changes a moment.
LEMMA MomentOfMore ==
  ASSUME NEW n \in Nat \ {0}, NEW u \in [1..(n + 1) -> Int]
  PROVE  /\ Moment(u, n) \in Int
         /\ Moment(u, n + 1)
              = Rest * Moment(u, n) + Weight * Power(Whole, n - 1) * u[n + 1]
<1>0. Rest \in Int /\ IsFiniteSet(1..n)
  BY ScoringAssumption, FS_Interval DEF Rest
<1>1. PICK f : f = [i \in 1..n |-> WeightOf(i, n) * u[i]]
  OBVIOUS
<1>2. PICK g : g = [i \in 1..(n + 1) |-> WeightOf(i, n + 1) * u[i]]
  OBVIOUS
<1>3. \A i \in 1..n : /\ i \in 1..(n + 1) /\ WeightOf(i, n) \in Int /\ u[i] \in Int
                       /\ WeightOf(i, n + 1) = Rest * WeightOf(i, n)
  <2>1. \A i \in 1..n : i \in 1..(n + 1)
    OBVIOUS
  <2> QED BY <2>1, WeightFacts
<1>4. f \in [1..n -> Int]
  BY <1>1, <1>3
<1>5. PICK h : h = [i \in 1..n |-> g[i]]
  OBVIOUS
<1>6. \A i \in 1..n : h[i] = Rest * f[i] /\ f[i] \in Int /\ h[i] \in Int
  <2> SUFFICES ASSUME NEW i \in 1..n PROVE h[i] = Rest * f[i] /\ f[i] \in Int /\ h[i] \in Int
    OBVIOUS
  <2>1. PICK a, b : a = WeightOf(i, n) /\ b = u[i]
    OBVIOUS
  <2>2. a \in Int /\ b \in Int /\ f[i] = a * b /\ h[i] = (Rest * a) * b
    BY <1>1, <1>2, <1>3, <1>5, <2>1
  <2>3. (Rest * a) * b = Rest * (a * b) /\ a * b \in Int /\ (Rest * a) * b \in Int
    BY ONLY <1>0, <2>2
  <2> QED BY <2>2, <2>3
<1>7. h \in [1..n -> Int]
  BY <1>5, <1>6
<1>8. PICK w : w = Power(Whole, n - 1)
  OBVIOUS
<1>9. w \in Nat /\ Weight = 2 /\ u[n + 1] \in Int /\ g[n + 1] = Weight * w * u[n + 1]
  <2>1. Whole \in Nat /\ n - 1 \in Nat /\ n + 1 \in 1..(n + 1) /\ Weight = 2
    BY ScoringAssumption DEF Whole, Weight
  <2>2. w \in Nat
    BY <1>8, <2>1, PowerFacts
  <2>3. g[n + 1] = WeightOf(n + 1, n + 1) * u[n + 1]
    BY <1>2, <2>1
  <2> QED BY <1>8, <2>1, <2>2, <2>3, WeightFacts
<1>10. g \in [1..(n + 1) -> Int]
  <2>1. \A i \in 1..(n + 1) : i \in 1..n \/ i = n + 1
    OBVIOUS
  <2>2. g[n + 1] \in Int
    BY <1>9
  <2>3. \A i \in 1..(n + 1) : g[i] \in Int
    BY <1>5, <1>6, <2>1, <2>2
  <2> QED BY <1>2, <2>3
<1>11. /\ 1..(n + 1) = 1..n \cup {n + 1}
       /\ 1..n \in SUBSET (1..(n + 1)) /\ n + 1 \in 1..(n + 1) \ 1..n
  OBVIOUS
<1>12. Balance(g, 1..n \cup {n + 1}) = Balance(g, 1..n) + g[n + 1]
  <2>1. PICK D, S : D = 1..(n + 1) /\ S = 1..n
    OBVIOUS
  <2>2. /\ g \in [D -> Int] /\ S \in SUBSET D /\ IsFiniteSet(S) /\ n + 1 \in D \ S
    BY <1>0, <1>10, <1>11, <2>1
  <2>3. Balance(g, S \cup {n + 1}) = Balance(g, S) + g[n + 1]
    BY ONLY <2>2, BalanceFacts
  <2> QED BY <2>1, <2>3
<1>13. Balance(g, 1..n) = Balance(h, 1..n)
  <2>1. PICK D, S : D = 1..(n + 1) /\ S = 1..n
    OBVIOUS
  <2>2. /\ g \in [D -> Int] /\ S \in SUBSET D /\ h \in [S -> Int]
        /\ \A i \in S : g[i] = h[i]
    BY <1>5, <1>7, <1>10, <1>11, <2>1
  <2>3. Balance(g, S) = Balance(h, S)
    BY ONLY <2>2, BalanceAgrees
  <2> QED BY <2>1, <2>3
<1>14. Balance(h, 1..n) = Rest * Balance(f, 1..n) + 0 * Balance(f, 1..n) + 0 * Balance(f, 1..n)
  <2>1. h = Combined(Rest, f, 0, f, 0, f, 1..n)
    BY <1>0, <1>5, <1>6 DEF Combined
  <2> QED BY <1>0, <1>4, <2>1, BalanceIsLinear
<1>15. PICK m : m = Balance(f, 1..n)
  OBVIOUS
<1>16. m \in Int
  BY <1>0, <1>4, <1>15, BalanceFacts
<1>17. Balance(h, 1..n) = Rest * m
  BY <1>0, <1>14, <1>15, <1>16
<1>18. Moment(u, n) = m /\ Moment(u, n + 1) = Balance(g, 1..(n + 1))
  BY <1>1, <1>2, <1>15 DEF Moment
<1>19. Balance(g, 1..(n + 1)) = Rest * m + Weight * w * u[n + 1]
  BY <1>9, <1>11, <1>12, <1>13, <1>17
<1> QED BY <1>8, <1>16, <1>18, <1>19

\* The moment of a combination is the combination of the moments.
LEMMA MomentIsLinear ==
  ASSUME NEW n \in Nat \ {0}, NEW f, NEW g, NEW h, NEW q,
         NEW a \in Int, NEW b \in Int, NEW c \in Int,
         \A i \in 1..n : /\ f[i] \in Int /\ g[i] \in Int /\ h[i] \in Int
                          /\ q[i] = a * f[i] + b * g[i] + c * h[i]
  PROVE  Moment(q, n) = a * Moment(f, n) + b * Moment(g, n) + c * Moment(h, n)
<1> DEFINE W(u) == [i \in 1..n |-> WeightOf(i, n) * u[i]]
<1>1. ASSUME NEW u, \A i \in 1..n : u[i] \in Int
      PROVE  W(u) \in [1..n -> Int]
  BY <1>1, WeightFacts
<1>2. \A i \in 1..n : q[i] \in Int
  OBVIOUS
<1>3. ASSUME NEW i \in 1..n
      PROVE  W(q)[i] = a * W(f)[i] + b * W(g)[i] + c * W(h)[i]
  <2>1. PICK w, u, v, x : w = WeightOf(i, n) /\ u = f[i] /\ v = g[i] /\ x = h[i]
    OBVIOUS
  <2>2. w \in Int /\ u \in Int /\ v \in Int /\ x \in Int /\ q[i] = a * u + b * v + c * x
    BY <2>1, WeightFacts
  <2>3. w * (a * u + b * v + c * x) = a * (w * u) + b * (w * v) + c * (w * x)
    BY ONLY <2>2, a \in Int, b \in Int, c \in Int
  <2> QED BY <2>1, <2>2, <2>3
<1>4. PICK wf, wg, wh, wq : wf = W(f) /\ wg = W(g) /\ wh = W(h) /\ wq = W(q)
  OBVIOUS
<1>5. /\ wf \in [1..n -> Int] /\ wg \in [1..n -> Int]
      /\ wh \in [1..n -> Int] /\ wq \in [1..n -> Int]
  BY <1>1, <1>2, <1>4
<1>6. \A i \in 1..n : wq[i] = a * wf[i] + b * wg[i] + c * wh[i]
  BY <1>3, <1>4
<1>7. IsFiniteSet(1..n)
  BY FS_Interval
<1>8. Balance(wq, 1..n) = a * Balance(wf, 1..n) + b * Balance(wg, 1..n) + c * Balance(wh, 1..n)
  <2>1. wq = Combined(a, wf, b, wg, c, wh, 1..n)
    BY <1>4, <1>6 DEF Combined
  <2> DEFINE F == [1..n -> Int]
  <2>2. wf \in F /\ wg \in F /\ wh \in F
    BY <1>5
  <2>3. \A u, v, x \in F : \A k, l, m \in Int :
          Balance(Combined(k, u, l, v, m, x, 1..n), 1..n)
            = k * Balance(u, 1..n) + l * Balance(v, 1..n) + m * Balance(x, 1..n)
    BY <1>7, BalanceIsLinear
  <2> HIDE DEF F
  <2>4. Balance(Combined(a, wf, b, wg, c, wh, 1..n), 1..n)
          = a * Balance(wf, 1..n) + b * Balance(wg, 1..n) + c * Balance(wh, 1..n)
    BY ONLY <2>2, <2>3, a \in Int, b \in Int, c \in Int
  <2> QED BY <2>1, <2>4
<1> QED BY <1>4, <1>8 DEF Moment

\* The values of the sessions a baseline counts.
ValuesIn(s, b) == [k \in 1..Len(b.sessions) |-> s[b.sessions[k]].value]

\* The sum of the weights, the mean and the variance of a baseline.
Moments(b, v) ==
    LET n == Len(b.sessions)
    IN  n # 0 =>
          /\ b.scale = Power(Whole, n - 1)
          /\ b.scale = Moment(Ones(n), n)
          /\ b.mean = Moment(v, n)
          /\ b.variance + b.mean * b.mean = b.scale * Moment(Squares(v, n), n)

MomentsInv ==
    /\ \A a \in Agents : Moments(baseline[a], ValuesIn(stream, baseline[a]))
    /\ \A w \in Workers : Updating(w) => Moments(work[w].base, ValuesIn(stream, work[w].base))

LEMMA MomentAgrees ==
  ASSUME NEW n, NEW u, NEW v, \A k \in 1..n : u[k] = v[k]
  PROVE  Moment(u, n) = Moment(v, n)
<1>1. [k \in 1..n |-> WeightOf(k, n) * u[k]] = [k \in 1..n |-> WeightOf(k, n) * v[k]]
  OBVIOUS
<1> QED BY <1>1 DEF Moment

\* How the scale, mean and variance of an updated baseline agree with the sums
\* of one session more: r and h stand for Rest and Whole, s, m and q for the old
\* scale, mean and variance, s2 for the sum of the squares, y for x * s.
Agree(r, h, s, m, q, s2, x, y) ==
    /\ r * s + 2 * s * 1 = h * s
    /\ r * m + 2 * s * x = 2 * y + r * m
    /\ r * (h * q + 2 * (y - m) * (y - m)) + (2 * y + r * m) * (2 * y + r * m)
         = (h * s) * (r * s2 + 2 * s * (x * x))

LEMMA MomentArithmetic ==
  ASSUME NEW r \in Int, NEW h \in Int, h = r + 2,
         NEW s \in Int, NEW m \in Int, NEW q \in Int, NEW s2 \in Int,
         NEW x \in Int, NEW y \in Int, y = x * s,
         q + m * m = s * s2
  PROVE  Agree(r, h, s, m, q, s2, x, y)
<1>1. r * s + 2 * s * 1 = h * s
  OBVIOUS
<1>2. r * m + 2 * s * x = 2 * y + r * m
  OBVIOUS
<1>3. (h * s) * (r * s2 + 2 * s * (x * x)) = h * r * (q + m * m) + 2 * h * (y * y)
  <2>1. (h * s) * (r * s2) = h * r * (s * s2)
    OBVIOUS
  <2>2. (h * s) * (2 * s * (x * x)) = 2 * h * (y * y)
    OBVIOUS
  <2>3. (h * s) * (r * s2 + 2 * s * (x * x)) = (h * s) * (r * s2) + (h * s) * (2 * s * (x * x))
    OBVIOUS
  <2> QED BY <2>1, <2>2, <2>3
<1>4. r * (h * q + 2 * (y - m) * (y - m)) + (2 * y + r * m) * (2 * y + r * m)
        = h * r * (q + m * m) + 2 * h * (y * y)
  BY ONLY r \in Int, h \in Int, h = r + 2, m \in Int, q \in Int, y \in Int
<1> QED BY <1>1, <1>2, <1>3, <1>4 DEF Agree

\* An updated baseline has the moments of one session more.
LEMMA UpdateMoments ==
  ASSUME NEW b \in Baselines, NEW i \in Nat, NEW x \in Int,
         NEW v \in [1..Len(b.sessions) -> Int],
         NEW w \in [1..(Len(b.sessions) + 1) -> Int],
         \A k \in 1..Len(b.sessions) : w[k] = v[k],
         w[Len(b.sessions) + 1] = x,
         Moments(b, v)
  PROVE  Moments(UpdateBaseline(b, i, x), w)
<1>1. PICK c : c = UpdateBaseline(b, i, x)
  OBVIOUS
<1>2. /\ Rest \in Nat /\ Whole \in Nat /\ Weight = 2 /\ Whole = Rest + 2
      /\ b.sessions \in Seq(Nat) /\ b.scale \in Int /\ b.mean \in Int /\ b.variance \in Int
  BY ScoringAssumption DEF Rest, Whole, Weight, Baselines
<1>3. PICK n \in Nat : n = Len(b.sessions)
  BY <1>2
<1>4. Len(c.sessions) = n + 1
  <2>1. c.sessions = Append(b.sessions, i)
    BY <1>1, UpdateFacts
  <2> QED BY <1>2, <1>3, <2>1
<1>5. Squares(w, n + 1) \in [1..(n + 1) -> Int] /\ Ones(n + 1) \in [1..(n + 1) -> Int]
  <2>1. \A k \in 1..(n + 1) : w[k] * w[k] \in Int
    BY <1>3
  <2> QED BY <2>1 DEF Squares, Ones
<1>6. CASE b.sessions = <<>>
  <2>1. n = 0 /\ n + 1 = 1 /\ (n + 1) - 1 = 0
    BY <1>3, <1>6
  <2>2. c.scale = 1 /\ c.mean = x /\ c.variance = 0
    BY <1>6, <1>1 DEF UpdateBaseline
  <2>3. w[1] = x /\ Ones(1)[1] = 1 /\ Squares(w, 1)[1] = x * x
    BY <1>3, <2>1 DEF Ones, Squares
  <2>4. Moment(w, 1) = x /\ Moment(Ones(1), 1) = 1 /\ Moment(Squares(w, 1), 1) = x * x
    <3>1. x * x \in Int
      OBVIOUS
    <3> QED BY <2>3, <3>1, MomentOfOne
  <2>5. Power(Whole, 0) = 1
    BY <1>2, PowerFacts
  <2>6. c.variance + c.mean * c.mean = c.scale * Moment(Squares(w, 1), 1)
    <3>1. 0 + x * x = 1 * (x * x)
      OBVIOUS
    <3> QED BY <2>2, <2>4, <3>1
  <2>7. Len(c.sessions) = 1
    BY <1>4, <2>1
  <2>8. Moments(c, w)
    BY <2>2, <2>4, <2>5, <2>6, <2>7 DEF Moments
  <2> QED BY <1>1, <2>8
<1>7. CASE b.sessions # <<>>
  <2>1. n \in Nat \ {0} /\ (n + 1) - 1 = n /\ n - 1 \in Nat /\ (n - 1) + 1 = n
    BY <1>2, <1>3, <1>7, EmptySeq
  <2>2. PICK s, m, q : s = b.scale /\ m = b.mean /\ q = b.variance
    OBVIOUS
  <2>3. PICK s2 : s2 = Moment(Squares(v, n), n)
    OBVIOUS
  <2>4. /\ s \in Int /\ m \in Int /\ q \in Int
        /\ s = Power(Whole, n - 1) /\ s = Moment(Ones(n), n) /\ m = Moment(v, n)
        /\ q + m * m = s * s2
    BY <1>2, <1>3, <2>1, <2>2, <2>3 DEF Moments
  <2>5. /\ Moment(Ones(n + 1), n) = s
        /\ Moment(w, n) = m
        /\ Moment(Squares(w, n + 1), n) = s2
    <3>1. \A k \in 1..n : /\ Ones(n + 1)[k] = Ones(n)[k]
                          /\ w[k] = v[k]
                          /\ Squares(w, n + 1)[k] = Squares(v, n)[k]
      BY <1>3 DEF Ones, Squares
    <3> QED BY <2>3, <2>4, <3>1, MomentAgrees
  <2>6. /\ Moment(Ones(n + 1), n + 1) = Rest * s + Weight * s * Ones(n + 1)[n + 1]
        /\ Moment(w, n + 1) = Rest * m + Weight * s * w[n + 1]
        /\ Moment(Squares(w, n + 1), n + 1) = Rest * s2 + Weight * s * Squares(w, n + 1)[n + 1]
        /\ s2 \in Int
    <3>1. \A u \in [1..(n + 1) -> Int] :
            /\ Moment(u, n) \in Int
            /\ Moment(u, n + 1) = Rest * Moment(u, n) + Weight * s * u[n + 1]
      BY <2>1, <2>4, MomentOfMore
    <3>2. w \in [1..(n + 1) -> Int]
      BY <1>3
    <3>3. Moment(Ones(n + 1), n + 1) = Rest * s + Weight * s * Ones(n + 1)[n + 1]
      BY <1>5, <2>5, <3>1
    <3>4. Moment(w, n + 1) = Rest * m + Weight * s * w[n + 1]
      BY <2>5, <3>1, <3>2
    <3>5. /\ Moment(Squares(w, n + 1), n + 1) = Rest * s2 + Weight * s * Squares(w, n + 1)[n + 1]
          /\ s2 \in Int
      BY <1>5, <2>5, <3>1
    <3> QED BY <3>3, <3>4, <3>5
  <2>7. w[n + 1] = x /\ Ones(n + 1)[n + 1] = 1 /\ Squares(w, n + 1)[n + 1] = x * x
    <3>1. n + 1 \in 1..(n + 1)
      OBVIOUS
    <3> QED BY <1>3, <3>1 DEF Ones, Squares
  <2>8. PICK y \in Int : y = x * s
    BY <2>4
  <2>9. PICK r, h : r = Rest /\ h = Whole
    OBVIOUS
  <2>10. /\ c.scale = h * s
         /\ c.mean = 2 * y + r * m
         /\ c.variance = r * (h * q + 2 * (y - m) * (y - m))
    <3>1. c = [sessions |-> Append(b.sessions, i), scale |-> Whole * b.scale,
               mean |-> EwmaMean(b, x), variance |-> EwmaVariance(b, x)]
      BY <1>7, <1>1 DEF UpdateBaseline
    <3>2. EwmaMean(b, x) = 2 * y + r * m
      <4>1. EwmaMean(b, x) = 2 * x * s + r * m
        BY <1>2, <2>2, <2>9 DEF EwmaMean
      <4>2. 2 * x * s = 2 * y
        BY <2>4, <2>8
      <4> QED BY <4>1, <4>2
    <3>3. EwmaVariance(b, x) = r * (h * q + 2 * (y - m) * (y - m))
      <4>1. Deviation(b, x) = y - m
        BY <2>2, <2>8 DEF Deviation
      <4> QED BY <1>2, <2>2, <2>9, <4>1 DEF EwmaVariance
    <3> QED BY <2>2, <2>9, <3>1, <3>2, <3>3
  <2>11. Agree(r, h, s, m, q, s2, x, y)
    <3>1. r \in Int /\ h \in Int /\ h = r + 2
      BY <1>2, <2>9
    <3> QED BY ONLY <3>1, <2>4, <2>6, <2>8, x \in Int, MomentArithmetic
  <2>12. h * s = Power(Whole, n)
    BY <1>2, <2>1, <2>4, <2>9, PowerFacts
  <2>13. /\ Moment(Ones(n + 1), n + 1) = h * s
         /\ Moment(w, n + 1) = 2 * y + r * m
         /\ Moment(Squares(w, n + 1), n + 1) = r * s2 + 2 * s * (x * x)
    <3>1. /\ Moment(Ones(n + 1), n + 1) = r * s + 2 * s * 1
          /\ Moment(w, n + 1) = r * m + 2 * s * x
          /\ Moment(Squares(w, n + 1), n + 1) = r * s2 + 2 * s * (x * x)
      BY <1>2, <2>6, <2>7, <2>9
    <3> QED BY <2>11, <3>1 DEF Agree
  <2> QED BY <1>4, <1>1, <2>1, <2>10, <2>11, <2>12, <2>13 DEF Moments, Agree
<1> QED BY <1>6, <1>7

\* The sessions of a baseline have been delivered, and keep their values.
LEMMA ValuesFacts ==
  ASSUME TypeInv, NEW b \in Baselines, NEW a, Counts(b, a)
  PROVE  /\ Len(b.sessions) \in Nat
         /\ ValuesIn(stream, b) \in [1..Len(b.sessions) -> Int]
         /\ [Next]_vars => ValuesIn(stream, b)' = ValuesIn(stream, b)
<1>1. b.sessions \in Seq(Nat)
  BY DEF Baselines
<1>2. DOMAIN b.sessions = 1..Len(b.sessions) /\ Len(b.sessions) \in Nat
  BY <1>1
<1>3. \A k \in 1..Len(b.sessions) : b.sessions[k] \in 1..cursor
  BY <1>2 DEF Counts
<1>4. \A i \in 1..cursor : stream[i].value \in Int
  <2>1. /\ stream \in Seq([agent : Agents, value : Values])
        /\ cursor \in Nat /\ cursor <= Len(stream) /\ Len(stream) \in Nat
    BY WorkFacts DEF TypeInv, TypeOK
  <2>2. \A i \in 1..cursor : i \in 1..Len(stream)
    BY <2>1
  <2>3. \A i \in 1..cursor : stream[i] \in [agent : Agents, value : Values]
    BY <2>1, <2>2, ElementOfSeq
  <2> QED BY <2>3, ConsumerAssumption
<1>5. ValuesIn(stream, b) \in [1..Len(b.sessions) -> Int]
  BY <1>3, <1>4 DEF ValuesIn
<1>6. [Next]_vars => ValuesIn(stream, b)' = ValuesIn(stream, b)
  <2> SUFFICES ASSUME [Next]_vars PROVE ValuesIn(stream', b) = ValuesIn(stream, b)
    OBVIOUS
  <2>1. \A i \in 1..cursor : stream'[i] = stream[i]
    BY HistoryStep
  <2> QED BY <1>3, <2>1 DEF ValuesIn
<1> QED BY <1>2, <1>5, <1>6

LEMMA MomentsInit == Init => MomentsInv
<1> SUFFICES ASSUME Init PROVE MomentsInv
  OBVIOUS
<1>1. Len(NoBaseline.sessions) = 0
  BY DEF NoBaseline
<1>2. \A v : Moments(NoBaseline, v)
  BY <1>1 DEF Moments
<1>3. /\ \A a \in Agents : baseline[a] = NoBaseline
      /\ \A w \in Workers : ~Updating(w)
  BY DEF Init, Resting, Updating
<1> QED BY <1>2, <1>3 DEF MomentsInv

LEMMA MomentsStep ==
  ASSUME TypeInv, CountInv, MomentsInv, [Next]_vars
  PROVE  MomentsInv'
<1> DEFINE OK(b) == Moments(b, ValuesIn(stream', b))
<1>1. \A a \in Agents : baseline[a] \in Baselines /\ OK(baseline[a])
  <2> SUFFICES ASSUME NEW a \in Agents PROVE baseline[a] \in Baselines /\ OK(baseline[a])
    OBVIOUS
  <2>1. PICK b : b = baseline[a]
    OBVIOUS
  <2>2. b \in Baselines /\ Counts(b, a) /\ Moments(b, ValuesIn(stream, b))
    BY <2>1 DEF TypeInv, TypeOK, CountInv, StoredInv, MomentsInv
  <2>3. ValuesIn(stream', b) = ValuesIn(stream, b)
    BY <2>2, ValuesFacts
  <2> QED BY <2>1, <2>2, <2>3
<1>2. ASSUME NEW w \in Workers, Updating(w)
      PROVE  OK(work[w].base)
  <2>1. PICK b : b = work[w].base
    OBVIOUS
  <2>2. b \in Baselines /\ Counts(b, AgentOf(w)) /\ Moments(b, ValuesIn(stream, b))
    BY <1>2, <2>1, WorkFacts DEF WorkOK, CountInv, ReadInv, MomentsInv
  <2>3. PICK a : a = AgentOf(w)
    OBVIOUS
  <2>4. ValuesIn(stream', b) = ValuesIn(stream, b)
    BY <2>2, <2>3, ValuesFacts
  <2> QED BY <2>1, <2>2, <2>4
<1> SUFFICES /\ \A a \in Agents : OK(baseline'[a])
             /\ \A w \in Workers : Updating(w)' => OK(work'[w].base)
  BY DEF MomentsInv
<1> HIDE DEF OK
<1>3. CASE UNCHANGED <<baseline, work>>
  BY <1>1, <1>2, <1>3 DEF Updating
<1>4. ASSUME NEW w \in Workers, OnlyWorker(w), UNCHANGED baseline, ~Updating(w)'
      PROVE  /\ \A a \in Agents : OK(baseline'[a])
             /\ \A u \in Workers : Updating(u)' => OK(work'[u].base)
  BY <1>1, <1>2, <1>4 DEF Updating, OnlyWorker
<1>5. ASSUME NEW w \in Workers, Stores(w)
      PROVE  /\ \A a \in Agents : OK(baseline'[a])
             /\ \A u \in Workers : Updating(u)' => OK(work'[u].base)
  <2>1. /\ Updating(w) /\ OnlyWorker(w)
        /\ baseline' = [baseline EXCEPT ![AgentOf(w)] = work[w].base]
        /\ Updating(w)' => work'[w].base = work[w].base
    BY <1>5, StoreEffect
  <2>2. OK(work[w].base)
    BY <1>2, <2>1
  <2>3. ASSUME NEW a \in Agents PROVE OK(baseline'[a])
    <3>1. baseline'[a] = work[w].base \/ baseline'[a] = baseline[a]
      BY <2>1 DEF TypeInv, TypeOK
    <3> QED BY <1>1, <2>2, <3>1
  <2>4. ASSUME NEW u \in Workers, Updating(u)' PROVE OK(work'[u].base)
    BY <1>2, <2>1, <2>2, <2>4 DEF OnlyWorker, Updating
  <2> QED BY <2>3, <2>4
<1>6. ASSUME NEW w \in Workers, Load(w)
      PROVE  /\ \A a \in Agents : OK(baseline'[a])
             /\ \A u \in Workers : Updating(u)' => OK(work'[u].base)
  <2>1. PICK b, a, i, x : b = baseline[AgentOf(w)] /\ a = AgentOf(w)
                          /\ i = work[w].next /\ x = ValueOf(w)
    OBVIOUS
  <2>2. /\ UNCHANGED <<stream, baseline>> /\ OnlyWorker(w)
        /\ i \in Nat /\ a \in Agents /\ x \in Int /\ b = baseline[a]
        /\ work'[w].base = UpdateBaseline(b, i, x)
    BY <1>6, <2>1, LoadEffect
  <2>3. b \in Baselines /\ Counts(b, a) /\ Moments(b, ValuesIn(stream, b))
    BY <2>2 DEF TypeInv, TypeOK, CountInv, StoredInv, MomentsInv
  <2>4. PICK c : c = UpdateBaseline(b, i, x)
    OBVIOUS
  <2>5. PICK n \in Nat : n = Len(b.sessions)
    BY <2>3, ValuesFacts
  <2>6. PICK v : v = ValuesIn(stream, b)
    OBVIOUS
  <2>7. PICK w2 : w2 = ValuesIn(stream, c)
    OBVIOUS
  <2>8. /\ Len(c.sessions) = n + 1
        /\ \A k \in 1..n : c.sessions[k] = b.sessions[k]
        /\ c.sessions[n + 1] = i
    <3>1. b.sessions \in Seq(Nat) /\ c.sessions = Append(b.sessions, i)
      BY <2>2, <2>3, <2>4, UpdateFacts DEF Baselines
    <3> QED BY <2>2, <2>5, <3>1
  <2>9. v \in [1..n -> Int]
    BY <2>3, <2>5, <2>6, ValuesFacts
  <2>10. /\ DOMAIN w2 = 1..(n + 1) /\ w2 = [k \in 1..(n + 1) |-> w2[k]]
         /\ \A k \in 1..n : w2[k] = v[k]
         /\ w2[n + 1] = x
    <3>1. x = stream[i].value
      BY <2>1 DEF ValueOf
    <3>2. n + 1 \in 1..(n + 1) /\ \A k \in 1..n : k \in 1..(n + 1)
      OBVIOUS
    <3> QED BY <2>5, <2>6, <2>7, <2>8, <3>1, <3>2 DEF ValuesIn
  <2>11. w2 \in [1..(n + 1) -> Int]
    <3>1. \A k \in 1..(n + 1) : k \in 1..n \/ k = n + 1
      OBVIOUS
    <3>2. \A k \in 1..(n + 1) : w2[k] \in Int
      BY <2>2, <2>9, <2>10, <3>1
    <3> QED BY <2>10, <3>2
  <2>12. Moments(c, w2)
    <3>1. /\ v \in [1..Len(b.sessions) -> Int] /\ w2 \in [1..(Len(b.sessions) + 1) -> Int]
          /\ \A k \in 1..Len(b.sessions) : w2[k] = v[k]
          /\ w2[Len(b.sessions) + 1] = x
          /\ Moments(b, v)
      BY <2>3, <2>5, <2>6, <2>9, <2>10, <2>11
    <3>2. i \in Nat /\ x \in Int /\ b \in Baselines
      BY <2>2, <2>3
    <3>3. Moments(UpdateBaseline(b, i, x), w2)
      BY ONLY <3>1, <3>2, UpdateMoments
    <3> QED BY <2>4, <3>3
  <2>13. OK(work'[w].base)
    BY <2>2, <2>4, <2>7, <2>12 DEF OK
  <2> QED BY <1>1, <1>2, <2>2, <2>13 DEF OnlyWorker, Updating
<1>7. CASE \E a \in Agents, x \in Values : Emit(a, x)
  BY <1>3, <1>7 DEF Emit
<1>8. CASE Idles
  BY <1>3, <1>8 DEF Idles
<1>9. ASSUME NEW w \in Workers, Delivers(w) \/ Finishes(w)
      PROVE  /\ \A a \in Agents : OK(baseline'[a])
             /\ \A u \in Workers : Updating(u)' => OK(work'[u].base)
  <2>1. OnlyWorker(w) /\ UNCHANGED baseline /\ ~Updating(w)'
    BY <1>9, DeliverEffect, FinishEffect
  <2> QED BY <1>4, <2>1
<1> QED BY <1>5, <1>6, <1>7, <1>8, <1>9, Kinds

\* The weighted mean and variance of a baseline, in closed form.
LEMMA MomentsMean ==
  ASSUME TypeInv, CountInv, MomentsInv
  PROVE  BaselineIsWeightedMoments
<1> SUFFICES ASSUME NEW a \in Agents, Len(baseline[a].sessions) > 0
             PROVE  LET b == baseline[a]
                        n == Len(b.sessions)
                        Value(i) == stream[b.sessions[i]].value
                        Mean(i) == WeightOf(i, n) * Value(i)
                        Distance(i) == Value(i) * b.scale - b.mean
                        Square(i) == WeightOf(i, n) * (Distance(i) * Distance(i))
                    IN  /\ b.scale = Power(Whole, n - 1)
                        /\ b.mean = MapThenSumSet(Mean, 1..n)
                        /\ b.variance * b.scale = MapThenSumSet(Square, 1..n)
  BY DEF BaselineIsWeightedMoments
<1> DEFINE b == baseline[a]
           n == Len(b.sessions)
           Value(i) == stream[b.sessions[i]].value
           Mean(i) == WeightOf(i, n) * Value(i)
           Distance(i) == Value(i) * b.scale - b.mean
           Square(i) == WeightOf(i, n) * (Distance(i) * Distance(i))
           S == 1..n
<1>1. \A s : s # {} => Pick(s) \in s
  BY DEF Pick
<1>2. PICK v : v = ValuesIn(stream, b)
  OBVIOUS
<1>3. /\ n \in Nat \ {0} /\ v \in [S -> Int] /\ Moments(b, v)
      /\ b.scale \in Int /\ b.mean \in Int /\ b.variance \in Int
      /\ IsFiniteSet(S)
  <2>1. b \in Baselines /\ Counts(b, a) /\ Moments(b, v)
    BY <1>2 DEF TypeInv, TypeOK, CountInv, StoredInv, MomentsInv
  <2>2. n \in Nat /\ v \in [S -> Int]
    BY <1>2, <2>1, ValuesFacts
  <2>3. n \in Nat \ {0} /\ IsFiniteSet(S)
    BY <2>2, FS_Interval
  <2> QED BY <2>1, <2>2, <2>3 DEF Baselines
<1>4. \A i \in S : v[i] = Value(i) /\ WeightOf(i, n) \in Int
  BY <1>2, <1>3, WeightFacts DEF ValuesIn
<1>5. PICK f : f = [i \in S |-> Mean(i)]
  OBVIOUS
<1>6. PICK g : g = [i \in S |-> Square(i)]
  OBVIOUS
<1>7. PICK d : d = [i \in S |-> Distance(i) * Distance(i)]
  OBVIOUS
<1>8. /\ f = [i \in 1..n |-> WeightOf(i, n) * v[i]] /\ f \in [S -> Int]
      /\ g = [i \in 1..n |-> WeightOf(i, n) * d[i]] /\ g \in [S -> Int]
      /\ \A i \in S : d[i] = (v[i] * b.scale - b.mean) * (v[i] * b.scale - b.mean)
  <2>1. \A i \in S : /\ Mean(i) = WeightOf(i, n) * v[i]
                     /\ d[i] = (v[i] * b.scale - b.mean) * (v[i] * b.scale - b.mean)
                     /\ Square(i) = WeightOf(i, n) * d[i]
    BY <1>4, <1>7
  <2>2. \A i \in S : v[i] \in Int
    BY <1>3
  <2>3. \A i \in S : d[i] \in Int
    BY <1>3, <2>1, <2>2
  <2>4. \A i \in S : Mean(i) \in Int /\ Square(i) \in Int
    BY <1>4, <2>1, <2>2, <2>3
  <2> QED BY <1>5, <1>6, <2>1, <2>4
<1>9. MapThenSumSet(Mean, S) = Balance(f, S)
  <2> DEFINE Fold(sum) == [s \in SUBSET S |->
                 IF s = {} THEN 0 ELSE Mean(Pick(s)) + sum[s \ {Pick(s)}]]
  <2>1. MapThenSumSet(Mean, S) = (CHOOSE sum : sum = Fold(sum))[S]
    BY DEF MapThenSumSet, MapThenFoldSet, Pick
  <2>2. \A sum : IsSum(sum, f, S) <=> sum = Fold(sum)
    <3> DEFINE Other(sum) == [s \in SUBSET S |->
                 IF s = {} THEN 0 ELSE f[Pick(s)] + sum[s \ {Pick(s)}]]
    <3> HIDE DEF Mean, S
    <3>1. \A s \in SUBSET S : s # {} => f[Pick(s)] = Mean(Pick(s))
      BY <1>1, <1>5
    <3>2. \A sum : Other(sum) = Fold(sum)
      BY <3>1
    <3>3. \A sum : IsSum(sum, f, S) <=> sum = Other(sum)
      BY DEF IsSum
    <3> HIDE DEF Other, Fold
    <3> QED BY <3>2, <3>3
  <2> HIDE DEF Fold
  <2>3. PICK c : c = CHOOSE sum : sum = Fold(sum)
    OBVIOUS
  <2> HIDE DEF S, Mean
  <2>4. c = Fold(c)
    <3>1. \E sum : sum = Fold(sum)
      BY <1>3, <1>8, <2>2, SumIsBalance
    <3> QED BY <2>3, <3>1
  <2>5. c[S] = Balance(f, S)
    BY <1>3, <1>8, <2>2, <2>4, SumIsBalance
  <2> QED BY <2>1, <2>3, <2>5
<1>10. MapThenSumSet(Square, S) = Balance(g, S)
  <2> DEFINE Fold(sum) == [s \in SUBSET S |->
                 IF s = {} THEN 0 ELSE Square(Pick(s)) + sum[s \ {Pick(s)}]]
  <2>1. MapThenSumSet(Square, S) = (CHOOSE sum : sum = Fold(sum))[S]
    BY DEF MapThenSumSet, MapThenFoldSet, Pick
  <2>2. \A sum : IsSum(sum, g, S) <=> sum = Fold(sum)
    <3> DEFINE Other(sum) == [s \in SUBSET S |->
                 IF s = {} THEN 0 ELSE g[Pick(s)] + sum[s \ {Pick(s)}]]
    <3> HIDE DEF Square, S
    <3>1. \A s \in SUBSET S : s # {} => g[Pick(s)] = Square(Pick(s))
      BY <1>1, <1>6
    <3>2. \A sum : Other(sum) = Fold(sum)
      BY <3>1
    <3>3. \A sum : IsSum(sum, g, S) <=> sum = Other(sum)
      BY DEF IsSum
    <3> HIDE DEF Other, Fold
    <3> QED BY <3>2, <3>3
  <2> HIDE DEF Fold
  <2>3. PICK c : c = CHOOSE sum : sum = Fold(sum)
    OBVIOUS
  <2> HIDE DEF S, Square
  <2>4. c = Fold(c)
    <3>1. \E sum : sum = Fold(sum)
      BY <1>3, <1>8, <2>2, SumIsBalance
    <3> QED BY <2>3, <3>1
  <2>5. c[S] = Balance(g, S)
    BY <1>3, <1>8, <2>2, <2>4, SumIsBalance
  <2> QED BY <2>1, <2>3, <2>5
<1>11. PICK s, m, q, s2 : /\ s = b.scale /\ m = b.mean /\ q = b.variance
                          /\ s2 = Moment(Squares(v, n), n)
  OBVIOUS
<1>12. /\ s = Power(Whole, n - 1) /\ s = Moment(Ones(n), n) /\ m = Moment(v, n)
       /\ q + m * m = s * s2
       /\ s \in Int /\ m \in Int /\ q \in Int
  BY <1>3, <1>11 DEF Moments
<1>13. Moment(v, n) = Balance(f, S) /\ Moment(d, n) = Balance(g, S)
  BY <1>8 DEF Moment
<1>14. Moment(d, n) = (s * s) * s2 + (0 - 2 * (s * m)) * m + (m * m) * s
  <2>1. PICK x, y, z : x = s * s /\ y = 0 - 2 * (s * m) /\ z = m * m
    OBVIOUS
  <2>2. x \in Int /\ y \in Int /\ z \in Int
    <3>1. s \in Int /\ m \in Int
      BY <1>12
    <3>2. s * s \in Int /\ 0 - 2 * (s * m) \in Int /\ m * m \in Int
      BY ONLY <3>1
    <3> QED BY <2>1, <3>2
  <2>3. ASSUME NEW i \in 1..n
        PROVE  /\ Squares(v, n)[i] \in Int /\ v[i] \in Int /\ Ones(n)[i] \in Int
               /\ d[i] = x * Squares(v, n)[i] + y * v[i] + z * Ones(n)[i]
    <3>1. PICK u : u = v[i]
      OBVIOUS
    <3>2. /\ u \in Int /\ Squares(v, n)[i] = u * u /\ Ones(n)[i] = 1
          /\ d[i] = (u * s - m) * (u * s - m)
      BY <1>3, <1>8, <1>11, <3>1 DEF Squares, Ones
    <3>3. u \in Int /\ s \in Int /\ m \in Int
      BY <1>12, <3>2
    <3>4. /\ (u * s - m) * (u * s - m) = (s * s) * (u * u) + (0 - 2 * (s * m)) * u + (m * m) * 1
          /\ u * u \in Int
      BY ONLY <3>3
    <3> QED BY <2>1, <3>1, <3>2, <3>4
  <2>4. Moment(d, n) = x * Moment(Squares(v, n), n) + y * Moment(v, n) + z * Moment(Ones(n), n)
    <3>1. PICK k, f2, g2 : k = n /\ f2 = Squares(v, n) /\ g2 = Ones(n)
      OBVIOUS
    <3>2. k \in Nat \ {0} /\ \A i \in 1..k : /\ f2[i] \in Int /\ v[i] \in Int /\ g2[i] \in Int
                                            /\ d[i] = x * f2[i] + y * v[i] + z * g2[i]
      BY <1>3, <2>3, <3>1
    <3>3. Moment(d, k) = x * Moment(f2, k) + y * Moment(v, k) + z * Moment(g2, k)
      BY ONLY <2>2, <3>2, MomentIsLinear
    <3> QED BY <3>1, <3>3
  <2> QED BY <1>11, <1>12, <2>1, <2>4
<1>15. s2 \in Int
  <2>1. PICK h : h = [i \in 1..n |-> WeightOf(i, n) * Squares(v, n)[i]]
    OBVIOUS
  <2>2. \A i \in 1..n : v[i] \in Int /\ Squares(v, n)[i] = v[i] * v[i]
    BY <1>3 DEF Squares
  <2>3. \A i \in 1..n : Squares(v, n)[i] \in Int
    BY <2>2
  <2>4. h \in [1..n -> Int]
    BY <1>4, <2>1, <2>3
  <2> QED BY <1>3, <1>11, <2>1, <2>4, BalanceFacts DEF Moment
<1>16. q * s = (s * s) * s2 + (0 - 2 * (s * m)) * m + (m * m) * s
  <2>1. (s * s) * s2 = s * (s * s2)
    BY ONLY <1>12, <1>15
  <2>2. s * (q + m * m) = s * q + (m * m) * s
    BY ONLY <1>12
  <2>3. (0 - 2 * (s * m)) * m = 0 - 2 * ((m * m) * s)
    BY ONLY <1>12
  <2>4. PICK t, e : t = (m * m) * s /\ e = s * s2
    OBVIOUS
  <2>5. t \in Int /\ e \in Int
    BY ONLY <1>12, <1>15, <2>4
  <2>6. (s * s) * s2 = s * q + t /\ (0 - 2 * (s * m)) * m = 0 - 2 * t
    BY <1>12, <2>1, <2>2, <2>3, <2>4
  <2>7. s * q \in Int /\ q * s = s * q
    BY <1>12
  <2>8. q * s = (s * q + t) + (0 - 2 * t) + t
    BY ONLY <2>5, <2>6, <2>7
  <2> QED BY <2>4, <2>6, <2>8
<1>17. /\ b.scale = Power(Whole, n - 1)
       /\ b.mean = MapThenSumSet(Mean, S)
       /\ b.variance * b.scale = MapThenSumSet(Square, S)
  BY <1>9, <1>10, <1>11, <1>12, <1>13, <1>14, <1>16
<1> QED BY <1>17

-----------------------------------------------------------------------------
(***************************************************************************)
(* Theorems.                                                               *)
(***************************************************************************)
THEOREM Invariance == Spec => []IInv
<1>1. Init => IInv
  BY TypeInit, CountInit, FreshInit, OrderInit, ForgottenInit, CurrentInit DEF IInv
<1>2. IInv /\ [Next]_vars => IInv'
  <2> SUFFICES ASSUME IInv, [Next]_vars
               PROVE  IInv'
    OBVIOUS
  <2>1. TypeInv /\ CountInv /\ FreshInv /\ OrderInv /\ NoSessionForgotten /\ ScoreIsCurrent
    BY DEF IInv
  <2>2. TypeInv'
    BY <2>1, TypeStep
  <2> QED BY <2>1, <2>2, CountStep, FreshStep, OrderStep, ForgottenStep, CurrentStep DEF IInv
<1> QED BY <1>1, <1>2, PTL DEF Spec

\* The type invariant (BehavioralConsumer!TypeOK).
THEOREM TypeCorrect == Spec => []TypeOK
<1>1. IInv => TypeOK
  BY DEF IInv, TypeInv
<1> QED BY <1>1, Invariance, PTL

\* No squared z-score is above (Span - 1) / 2, whatever the sessions report and
\* whatever fails: update_baseline runs before the score is computed, and from
\* the new baseline (_process_message).
THEOREM ScoresAreBounded == Spec => []ScoreBounded
<1>1. IInv => ScoreBounded
  BY DEF IInv, TypeInv, ScoreInv, Bounded, ScoreBounded
<1> QED BY <1>1, Invariance, PTL

\* No session is counted twice, for any number of workers and failures, and in
\* order for every agent for whom no two workers crossed.
THEOREM SessionsAreCountedOnce == Spec => []CountedOnce
<1>1. ASSUME IInv
      PROVE  CountedOnce
  <2> SUFFICES ASSUME NEW a \in Agents
               PROVE  LET s == baseline[a].sessions
                      IN  /\ \A i, j \in DOMAIN s : s[i] = s[j] => i = j
                          /\ \A i \in DOMAIN s : s[i] <= cursor /\ stream[s[i]].agent = a
                          /\ a \notin contended => StrictlyIncreasing(s)
    BY DEF CountedOnce
  <2>1. Counts(baseline[a], a)
    BY <1>1 DEF IInv, CountInv, StoredInv
  <2>2. a \notin contended => StrictlyIncreasing(baseline[a].sessions)
    BY <1>1 DEF IInv, OrderInv
  <2>3. cursor \in Nat
    BY <1>1 DEF IInv, TypeInv, TypeOK
  <2>4. \A k \in DOMAIN baseline[a].sessions : baseline[a].sessions[k] <= cursor
    BY <2>1, <2>3 DEF Counts
  <2> QED BY <2>1, <2>2, <2>4 DEF Counts
<1> QED BY <1>1, Invariance, PTL

\* A session that was handed out is in the hands of a worker or in its
\* baseline, unless a failure ended its handling or two workers crossed.
THEOREM NoSessionIsForgotten == Spec => []NoSessionForgotten
<1>1. IInv => NoSessionForgotten
  BY DEF IInv
<1> QED BY <1>1, Invariance, PTL

\* A cached score is the one of the agent's last session against its present
\* baseline, with the exceptions ScoreIsCurrent names.
THEOREM ScoresAreCurrent == Spec => []ScoreIsCurrent
<1>1. IInv => ScoreIsCurrent
  BY DEF IInv
<1> QED BY <1>1, Invariance, PTL

LEMMA MomentsInvariance == Spec => []MomentsInv
<1>1. IInv /\ MomentsInv /\ [Next]_vars => MomentsInv'
  BY MomentsStep DEF IInv
<1> QED BY <1>1, MomentsInit, Invariance, PTL DEF Spec

\* The mean and the variance of a baseline, which update_baseline computes one
\* session at a time, are the weighted mean and variance of all the sessions it
\* counts, for every span, every number of sessions and all values.
THEOREM BaselinesAreWeightedMoments == Spec => []BaselineIsWeightedMoments
<1>1. IInv /\ MomentsInv => BaselineIsWeightedMoments
  BY MomentsMean DEF IInv, TypeInv
<1> QED BY <1>1, Invariance, MomentsInvariance, PTL
=============================================================================
