--------------------------- MODULE TrustTiers_proofs ---------------------------
(***************************************************************************)
(* What holds of TrustTiers for any number of agents, requests and         *)
(* failures.                                                               *)
(***************************************************************************)
EXTENDS TrustTiers, AgentRegistry_proofs

allVars == <<vars, tierVars>>

-----------------------------------------------------------------------------
(***************************************************************************)
(* The tiers leave the registry alone: as far as its variables go, a step  *)
(* of the two together is a step of the registry or a stutter.             *)
(***************************************************************************)
LEMMA TierStepIsRegistryStep == [TierNext]_allVars => [Next]_vars
<1> SUFFICES ASSUME [TierNext]_allVars
             PROVE  [Next]_vars
  OBVIOUS
<1>1. ASSUME NEW q \in Requests, Serve(q) \/ Break(q)
      PROVE  Next
  BY <1>1 DEF Next
<1>2. CASE UNCHANGED vars
  BY <1>2
<1> QED BY <1>1, <1>2 DEF TierNext, allVars

\* TrustTiers implements AgentRegistry.
THEOREM TiersImplementRegistry == TierSpec => Spec
<1>1. TierInit => Init
  BY DEF TierInit
<1> QED BY <1>1, TierStepIsRegistryStep, PTL DEF TierSpec, Spec, allVars

\* What was proved of the registry alone holds of it beside the tiers.
THEOREM RegistryKeepsItsPromises ==
  TierSpec =>
    /\ []TypeOK /\ []RowsAreHeardOf /\ []StreamMatchesRow
    /\ []BulkCoversScope /\ []BulkAccounted /\ LifecycleFollowed
BY TiersImplementRegistry, TypeCorrect, RowsHeardOf, StreamFollowsRows,
   BulkReachesItsScope, BulkIsAccounted, LifecycleFollowedUnlessOvertaken, PTL

-----------------------------------------------------------------------------
(***************************************************************************)
(* The inductive invariant.                                                *)
(***************************************************************************)
TierInv == TierTypeOK /\ TierIsHeardOf

TierLocals ==
    [phase : {"idle", "set", "publish", "reply", "ok", "refused", "error"},
     agent : Agents \cup {NoAgent}, old : Tiers, new : Tiers]

LEMMA TierLocalsFacts ==
  ASSUME TierInv, NEW q \in Requests
  PROVE  /\ treq \in [Requests -> TierLocals] /\ treq[q] \in TierLocals
         /\ treq[q].phase \in {"set", "publish", "reply"} => treq[q].agent \in Agents
         /\ treq[q].old \in Tiers /\ treq[q].new \in Tiers
BY DEF TierInv, TierTypeOK, TierLocals

\* Only the locals of one request change.
LEMMA AnswerStep ==
  ASSUME TierInv, NEW q \in Requests, NEW r \in TierLocals, treq' = [treq EXCEPT ![q] = r],
         r.phase \in {"set", "publish", "reply"} => r.agent \in Agents
  PROVE  /\ treq' \in [Requests -> TierLocals]
         /\ \A p \in Requests : treq'[p].phase \in {"set", "publish", "reply"}
                                  => treq'[p].agent \in Agents
         /\ treq'[q] = r /\ \A p \in Requests \ {q} : treq'[p] = treq[p]
<1>1. treq'[q] = r /\ \A p \in Requests \ {q} : treq'[p] = treq[p]
  BY TierLocalsFacts
<1> QED BY <1>1, TierLocalsFacts

LEMMA PhaseStep ==
  ASSUME TierInv, NEW q \in Requests, NEW p, TierAnswer(q, p),
         \/ p \in {"publish", "reply"} /\ treq[q].phase \in {"set", "publish"}
         \/ p \in {"refused", "error"}
  PROVE  /\ treq' \in [Requests -> TierLocals]
         /\ \A u \in Requests : treq'[u].phase \in {"set", "publish", "reply"}
                                  => treq'[u].agent \in Agents
         /\ treq'[q] = [treq[q] EXCEPT !.phase = p]
         /\ treq'[q].phase = p /\ treq'[q].agent = treq[q].agent /\ treq'[q].new = treq[q].new
         /\ \A u \in Requests \ {q} : treq'[u] = treq[u]
<1> DEFINE r == [treq[q] EXCEPT !.phase = p]
<1>1. treq' = [treq EXCEPT ![q] = r]
  BY DEF TierAnswer
<1>2. /\ r \in TierLocals /\ r.phase = p /\ r.agent = treq[q].agent
      /\ r.new = treq[q].new
  BY TierLocalsFacts DEF TierLocals
<1>3. r.phase \in {"set", "publish", "reply"} => r.agent \in Agents
  BY <1>2, TierLocalsFacts
<1> HIDE DEF r
<1>4. /\ treq' \in [Requests -> TierLocals]
      /\ \A u \in Requests : treq'[u].phase \in {"set", "publish", "reply"}
                               => treq'[u].agent \in Agents
      /\ treq'[q] = r /\ \A u \in Requests \ {q} : treq'[u] = treq[u]
  BY <1>1, <1>2, <1>3, AnswerStep
<1> QED BY <1>2, <1>4 DEF r

-----------------------------------------------------------------------------
(***************************************************************************)
(* The steps.                                                              *)
(***************************************************************************)
\* The tier of one agent is heard of, whatever becomes of the others.
HeardOf(a) ==
    \/ a \in tierUnheard
    \/ \E i \in DOMAIN tierEvents : tierEvents[i].agent = a /\ tierEvents[i].new = tierCache[a]
    \/ \E q \in Requests : /\ treq[q].phase = "publish"
                           /\ treq[q].agent = a
                           /\ treq[q].new = tierCache[a]

\* Without a new tier, the agents stay heard of if the request that stops
\* being about to publish has published, or silenced its agent.
LEMMA HeardStep ==
  ASSUME TierInv, UNCHANGED <<tierCache, tierEvents>>, tierUnheard \subseteq tierUnheard',
         NEW q \in Requests, \A p \in Requests \ {q} : treq'[p] = treq[p],
         treq[q].phase = "publish" => treq[q].agent \in tierUnheard'
  PROVE  TierIsHeardOf'
<1> SUFFICES ASSUME NEW a \in Agents, tierCache'[a] # NoTier
             PROVE  HeardOf(a)'
  BY DEF TierIsHeardOf, HeardOf
<1>1. HeardOf(a)
  BY DEF TierInv, TierIsHeardOf, HeardOf
<1> QED BY <1>1 DEF HeardOf

\* A tier is set by a request that is about to publish it, or silenced.
LEMMA SetStep ==
  ASSUME TierInv, NEW q \in Requests, StoreTier(q), UNCHANGED tierEvents,
         tierUnheard \subseteq tierUnheard',
         \A p \in Requests \ {q} : treq'[p] = treq[p],
         \/ treq[q].agent \in tierUnheard'
         \/ /\ treq'[q].phase = "publish" /\ treq'[q].agent = treq[q].agent
            /\ treq'[q].new = treq[q].new
  PROVE  /\ tierCache' \in [Agents -> Tiers \cup {NoTier}]
         /\ TierIsHeardOf'
<1>1. /\ treq[q].phase = "set" /\ treq[q].agent \in Agents /\ treq[q].new \in Tiers
      /\ tierCache' = [tierCache EXCEPT ![treq[q].agent] = treq[q].new]
  BY TierLocalsFacts DEF StoreTier
<1>2. tierCache \in [Agents -> Tiers \cup {NoTier}]
  BY DEF TierInv, TierTypeOK
<1>3. tierCache' \in [Agents -> Tiers \cup {NoTier}]
  BY <1>1, <1>2
<1>5. ASSUME NEW a \in Agents, tierCache'[a] # NoTier
      PROVE  HeardOf(a)'
  <2>1. CASE a = treq[q].agent
    BY <2>1, <1>1, <1>2 DEF HeardOf
  <2>2. CASE a # treq[q].agent
    <3>1. tierCache'[a] = tierCache[a]
      BY <2>2, <1>1, <1>2
    <3>2. HeardOf(a)
      BY <3>1, <1>5 DEF TierInv, TierIsHeardOf, HeardOf
    <3> QED BY <3>1, <3>2, <1>1 DEF HeardOf
  <2> QED BY <2>1, <2>2
<1>6. TierIsHeardOf'
  BY <1>5 DEF TierIsHeardOf, HeardOf
<1> QED BY <1>3, <1>6

\* The event of a request is added to the stream.
LEMMA EventStep ==
  ASSUME TierInv, NEW q \in Requests, AddTierEvent(q), UNCHANGED <<tierCache, tierUnheard>>,
         \A p \in Requests \ {q} : treq'[p] = treq[p]
  PROVE  /\ tierEvents' \in Seq([agent : Agents, old : Tiers, new : Tiers])
         /\ TierIsHeardOf'
<1> DEFINE S == [agent : Agents, old : Tiers, new : Tiers]
           e == TierChanged(q)
<1>1. /\ treq[q].phase = "publish" /\ treq[q].agent \in Agents
      /\ treq[q].old \in Tiers /\ treq[q].new \in Tiers /\ tierEvents' = Append(tierEvents, e)
  BY TierLocalsFacts DEF AddTierEvent
<1>2. e \in S /\ e.agent = treq[q].agent /\ e.new = treq[q].new
  BY <1>1 DEF TierChanged
<1>3. tierEvents \in Seq(S)
  BY DEF TierInv, TierTypeOK
<1> HIDE DEF S, e
<1>4. /\ tierEvents' \in Seq(S) /\ DOMAIN tierEvents' = DOMAIN tierEvents \cup {Len(tierEvents) + 1}
      /\ \A i \in DOMAIN tierEvents : tierEvents'[i] = tierEvents[i]
      /\ tierEvents'[Len(tierEvents) + 1] = e
  BY <1>1, <1>2, <1>3, AppendFacts
<1>6. ASSUME NEW a \in Agents, tierCache'[a] # NoTier
      PROVE  HeardOf(a)'
  <2>1. HeardOf(a)
    BY <1>6 DEF TierInv, TierIsHeardOf, HeardOf
  <2>2. CASE a = treq[q].agent /\ treq[q].new = tierCache[a]
    <3> DEFINE i == Len(tierEvents) + 1
    <3>1. i \in DOMAIN tierEvents'
      BY <1>4
    <3>2. tierEvents'[i].agent = a /\ tierEvents'[i].new = tierCache'[a]
      BY <2>2, <1>1, <1>2, <1>4
    <3> QED BY <3>1, <3>2 DEF HeardOf
  <2>3. CASE ~(a = treq[q].agent /\ treq[q].new = tierCache[a])
    BY <2>1, <2>3, <1>4 DEF HeardOf
  <2> QED BY <2>2, <2>3
<1>7. TierIsHeardOf'
  BY <1>6 DEF TierIsHeardOf, HeardOf
<1> QED BY <1>4, <1>7 DEF S

LEMMA TierInitInv == TierInit => TierInv
<1> SUFFICES ASSUME TierInit
             PROVE  TierInv
  OBVIOUS
<1>1. TierTypeOK
  BY TierAssumption DEF TierInit, TierTypeOK, NoChange, Tiers
<1>2. TierIsHeardOf
  BY DEF TierInit, TierIsHeardOf
<1> QED BY <1>1, <1>2 DEF TierInv

LEMMA TierNextInv == TierInv /\ [TierNext]_allVars => TierInv'
<1> SUFFICES ASSUME TierInv, [TierNext]_allVars
             PROVE  TierInv'
  OBVIOUS
<1> DEFINE Requested ==
      /\ treq \in [Requests -> TierLocals]
      /\ \A p \in Requests : treq[p].phase \in {"set", "publish", "reply"} => treq[p].agent \in Agents
           Shown == tierCache \in [Agents -> Tiers \cup {NoTier}]
           Told == tierEvents \in Seq([agent : Agents, old : Tiers, new : Tiers])
           Counted ==
      /\ tierUnheard \subseteq Agents /\ tierFaults \in 0..MaxTierFaults
<1>1. TierInv <=> Requested /\ Shown /\ Told /\ Counted /\ TierIsHeardOf
  BY DEF TierInv, TierTypeOK, TierLocals
<1>2. TierInv' <=> Requested' /\ Shown' /\ Told' /\ Counted' /\ TierIsHeardOf'
  BY DEF TierInv, TierTypeOK, TierLocals
<1>3. Requested /\ Shown /\ Told /\ Counted /\ TierIsHeardOf
  BY <1>1
<1>4. UNCHANGED tierCache => Shown'
  BY <1>3
<1>5. UNCHANGED tierEvents => Told'
  BY <1>3
<1>6. TierFault => tierFaults' \in 0..MaxTierFaults
  BY <1>3, TierAssumption DEF TierFault
<1>7. ASSUME NEW q \in Requests
      PROVE  TierSilence(q) /\ treq[q].agent \in Agents => tierUnheard' \subseteq Agents
  BY <1>3 DEF TierSilence
<1>8. CASE UNCHANGED tierVars
  BY <1>8, <1>2, <1>3, <1>4, <1>5 DEF tierVars, TierIsHeardOf
<1>9. ASSUME NEW a \in Agents, ExpireTier(a)
      PROVE  TierInv'
  <2>1. \A c \in Agents : tierCache'[c] \in {tierCache[c], NoTier}
    BY <1>3, <1>9 DEF ExpireTier
  <2>2. Shown'
    BY <2>1, <1>3, <1>9 DEF ExpireTier
  <2>3. TierIsHeardOf'
    <3> SUFFICES ASSUME NEW c \in Agents, tierCache'[c] # NoTier
                 PROVE  HeardOf(c)'
      BY DEF TierIsHeardOf, HeardOf
    <3>1. tierCache'[c] = tierCache[c]
      BY <2>1
    <3>2. HeardOf(c)
      BY <3>1, <1>3 DEF TierIsHeardOf, HeardOf
    <3> QED BY <3>1, <3>2, <1>9 DEF HeardOf, ExpireTier
  <2>4. UNCHANGED <<tierEvents, treq, tierUnheard, tierFaults>>
    BY <1>9 DEF ExpireTier
  <2> QED BY <2>2, <2>3, <2>4, <1>2, <1>3, <1>5
<1>10. ASSUME NEW q \in Requests, ChangeTier(q)
       PROVE  TierInv'
  <2>1. ASSUME NEW change \in {"promote", "demote"}, NEW a \in Agents, Lookup(q, change, a)
        PROVE  TierInv'
    <3>1. PICK t \in NewTiers(change, a) :
            treq' = [treq EXCEPT ![q] = [phase |-> "set", agent |-> a,
                                         old |-> RowTier(a), new |-> t]]
      BY <2>1 DEF Lookup
    <3> DEFINE r == [phase |-> "set", agent |-> a, old |-> RowTier(a), new |-> t]
    <3>2. t \in Tiers /\ RowTier(a) \in Tiers
      BY DEF NewTiers, RowTier, Tiers
    <3>3. r \in TierLocals /\ r.phase = "set" /\ r.agent \in Agents
      BY <3>2 DEF TierLocals
    <3>4. Requested' /\ \A p \in Requests \ {q} : treq'[p] = treq[p]
      <4> HIDE DEF r
      <4>1. treq' = [treq EXCEPT ![q] = r]
        BY <3>1 DEF r
      <4> QED BY <4>1, <3>3, AnswerStep
    <3>5. treq[q].phase = "idle" /\ UNCHANGED <<tierCache, tierEvents, tierUnheard, tierFaults>>
      BY <2>1 DEF Lookup
    <3>6. TierIsHeardOf'
      BY <3>4, <3>5, HeardStep
    <3> QED BY <3>4, <3>5, <3>6, <1>2, <1>3, <1>4, <1>5
  <2>2. ASSUME NEW change \in {"promote", "demote"}, NEW a \in Agents, RefuseTier(q, change, a)
        PROVE  TierInv'
    <3>1. /\ treq[q].phase = "idle" /\ TierAnswer(q, "refused")
          /\ UNCHANGED <<tierCache, tierEvents, tierUnheard, tierFaults>>
      BY <2>2 DEF RefuseTier
    <3>2. Requested' /\ \A p \in Requests \ {q} : treq'[p] = treq[p]
      BY <3>1, PhaseStep
    <3>3. TierIsHeardOf'
      BY <3>1, <3>2, HeardStep
    <3> QED BY <3>1, <3>2, <3>3, <1>2, <1>3, <1>4, <1>5
  <2>3. CASE SetTier(q)
    <3>1. /\ treq[q].phase = "set" /\ StoreTier(q) /\ TierAnswer(q, "publish")
          /\ UNCHANGED <<tierEvents, tierUnheard, tierFaults>>
      BY <2>3 DEF SetTier, StoreTier, AfterStore
    <3>2. /\ Requested' /\ \A p \in Requests \ {q} : treq'[p] = treq[p]
          /\ treq'[q].phase = "publish" /\ treq'[q].agent = treq[q].agent
          /\ treq'[q].new = treq[q].new
      BY <3>1, PhaseStep
    <3>3. Shown' /\ TierIsHeardOf'
      BY <3>1, <3>2, SetStep
    <3> QED BY <3>1, <3>2, <3>3, <1>2, <1>3, <1>5
  <2>4. CASE PublishTier(q)
    <3>1. /\ treq[q].phase = "publish" /\ AddTierEvent(q) /\ TierAnswer(q, "reply")
          /\ UNCHANGED <<tierCache, tierUnheard, tierFaults>>
      BY <2>4 DEF PublishTier, AddTierEvent
    <3>2. Requested' /\ \A p \in Requests \ {q} : treq'[p] = treq[p]
      BY <3>1, PhaseStep
    <3>3. Told' /\ TierIsHeardOf'
      BY <3>1, <3>2, EventStep
    <3> QED BY <3>1, <3>2, <3>3, <1>2, <1>3, <1>4
  <2>5. CASE Reply(q)
    <3> DEFINE r == [treq[q] EXCEPT !.phase = "ok", !.new = TierInfo(treq[q].agent)]
    <3>1. /\ treq[q].phase = "reply" /\ treq[q].agent \in Agents
          /\ UNCHANGED <<tierCache, tierEvents, tierUnheard, tierFaults>>
      BY <2>5, TierLocalsFacts DEF Reply
    <3>2. TierInfo(treq[q].agent) \in Tiers
      BY <3>1, <1>3 DEF TierInfo, Tiers, NoTier
    <3>3. r \in TierLocals /\ r.phase = "ok"
      BY <3>2, TierLocalsFacts DEF TierLocals
    <3>4. treq' = [treq EXCEPT ![q] = r]
      BY <2>5, <1>3 DEF Reply
    <3> HIDE DEF r
    <3>5. Requested' /\ \A p \in Requests \ {q} : treq'[p] = treq[p]
      BY <3>3, <3>4, AnswerStep
    <3>6. TierIsHeardOf'
      BY <3>1, <3>5, HeardStep
    <3> QED BY <3>1, <3>5, <3>6, <1>2, <1>3, <1>4, <1>5
  <2>6. CASE TierRaises(q)
    <3>1. /\ TierFault /\ treq[q].phase \in {"set", "publish", "reply"}
          /\ TierAnswer(q, "error") /\ UNCHANGED <<tierCache, tierEvents>>
      BY <2>6 DEF TierRaises
    <3>2. Requested' /\ \A p \in Requests \ {q} : treq'[p] = treq[p]
      BY <3>1, PhaseStep
    <3>3. /\ tierUnheard \subseteq tierUnheard' /\ tierUnheard' \subseteq Agents
          /\ treq[q].phase = "publish" => treq[q].agent \in tierUnheard'
      BY <2>6, <3>1, <1>3 DEF TierRaises, TierSilence
    <3>4. TierIsHeardOf'
      BY <3>1, <3>2, <3>3, HeardStep
    <3> QED BY <3>1, <3>2, <3>3, <3>4, <1>2, <1>3, <1>4, <1>5, <1>6
  <2>7. CASE SetReplyLost(q)
    <3>1. /\ TierFault /\ StoreTier(q) /\ TierSilence(q)
          /\ TierAnswer(q, "error") /\ UNCHANGED tierEvents
      BY <2>7 DEF SetReplyLost
    <3>2. Requested' /\ \A p \in Requests \ {q} : treq'[p] = treq[p]
      BY <3>1, PhaseStep
    <3>3. /\ tierUnheard \subseteq tierUnheard' /\ treq[q].agent \in tierUnheard'
          /\ tierUnheard' \subseteq Agents
      BY <3>1, <1>3 DEF TierSilence, StoreTier
    <3>4. Shown' /\ TierIsHeardOf'
      BY <3>1, <3>2, <3>3, SetStep
    <3> QED BY <3>1, <3>2, <3>3, <3>4, <1>2, <1>3, <1>5, <1>6
  <2>8. CASE EventReplyLost(q)
    <3>1. /\ TierFault /\ AddTierEvent(q) /\ TierAnswer(q, "error")
          /\ UNCHANGED <<tierCache, tierUnheard>>
      BY <2>8 DEF EventReplyLost
    <3>2. Requested' /\ \A p \in Requests \ {q} : treq'[p] = treq[p]
      BY <3>1, PhaseStep
    <3>3. Told' /\ TierIsHeardOf'
      BY <3>1, <3>2, EventStep
    <3> QED BY <3>1, <3>2, <3>3, <1>2, <1>3, <1>4, <1>6
  <2> QED BY <1>10, <2>1, <2>2, <2>3, <2>4, <2>5, <2>6, <2>7, <2>8 DEF ChangeTier
<1> QED BY <1>8, <1>9, <1>10 DEF TierNext, allVars

-----------------------------------------------------------------------------
(***************************************************************************)
(* Theorems.                                                               *)
(***************************************************************************)
THEOREM TierInvariance == TierSpec => []TierInv
BY TierInitInv, TierNextInv, PTL DEF TierSpec, allVars

\* The type invariant (TrustTiers!TierTypeOK).
THEOREM TierTypeCorrect == TierSpec => []TierTypeOK
<1>1. TierInv => TierTypeOK
  BY DEF TierInv
<1> QED BY <1>1, TierInvariance, PTL

\* A tier that is shown was announced, is about to be, or its event was lost
\* by a command that failed (promote_tier and demote_tier).
THEOREM TiersAreHeardOf == TierSpec => []TierIsHeardOf
<1>1. TierInv => TierIsHeardOf
  BY DEF TierInv
<1> QED BY <1>1, TierInvariance, PTL
=============================================================================
