------------------------------ MODULE TrustTiers ------------------------------
(***************************************************************************)
(* The trust tiers (layer1/trust) beside the registry they read: the tier  *)
(* ASOR sees is a Redis key with a time to live of 300 s, a change starts  *)
(* from the tier of the agent's row, and nothing writes that back.         *)
(*                                                                         *)
(* A request of Requests either is one of AgentRegistry or changes a tier. *)
(* It is cut at its commands: SELECT, SET, XADD, GET.                      *)
(***************************************************************************)
EXTENDS AgentRegistry

CONSTANTS MaxTierFaults  \* bound: commands of tier changes that fail

ASSUME TierAssumption == MaxTierFaults \in Nat

VARIABLES
    tierCache,    \* trust:tier:{agent_id}
    tierEvents,   \* stream:trust_tier_change
    treq,         \* the locals of the handlers that change a tier
    \* history, read by no action
    tierUnheard,  \* agents with a tier that was set and not announced
    tierFaults

tierVars == <<tierCache, tierEvents, treq, tierUnheard, tierFaults>>

Tiers == 0..3
NoTier == 4

NoChange == [phase |-> "idle", agent |-> NoAgent, old |-> 0, new |-> 0]

TierInit ==
    /\ Init
    /\ tierCache = [a \in Agents |-> NoTier]
    /\ tierEvents = <<>>
    /\ treq = [q \in Requests |-> NoChange]
    /\ tierUnheard = {}
    /\ tierFaults = 0

TierFault == tierFaults < MaxTierFaults /\ tierFaults' = tierFaults + 1

\* get_tier_info: what GET /trust/tier/{agent_id} answers
TierInfo(a) == IF tierCache[a] = NoTier THEN 0 ELSE tierCache[a]

\* The column of the row: register_agent writes 0, and although update_agent
\* would accept the column, no caller names it.
RowTier(a) == 0

UncheckedTiers(change, a) ==
    {IF change = "promote" THEN RowTier(a) + 1 ELSE RowTier(a) - 1}

\* The checks of promote_tier and demote_tier: none at the end of the tiers.
NewTiers(change, a) ==
    {t \in Tiers : IF change = "promote" THEN t = RowTier(a) + 1 ELSE t + 1 = RowTier(a)}

TierAnswer(q, outcome) == treq' = [treq EXCEPT ![q].phase = outcome]

-----------------------------------------------------------------------------
\* SELECT of the row: 404 without one, 400 at either end of the tiers.
Lookup(q, change, a) ==
    /\ treq[q].phase = "idle"
    /\ status[a] # "unregistered"
    /\ \E t \in NewTiers(change, a) :
         treq' = [treq EXCEPT ![q] = [phase |-> "set", agent |-> a,
                                      old |-> RowTier(a), new |-> t]]
    /\ UNCHANGED <<tierCache, tierEvents, tierUnheard, tierFaults>>

RefuseTier(q, change, a) ==
    /\ treq[q].phase = "idle"
    /\ status[a] = "unregistered" \/ NewTiers(change, a) = {}
    /\ TierAnswer(q, "refused")
    /\ UNCHANGED <<tierCache, tierEvents, tierUnheard, tierFaults>>

StoreTier(q) ==
    /\ treq[q].phase = "set"
    /\ tierCache' = [tierCache EXCEPT ![treq[q].agent] = treq[q].new]

SkipsEvent(q) == "reply"

AfterStore(q) == "publish"

SetTier(q) ==
    /\ StoreTier(q)
    /\ TierAnswer(q, AfterStore(q))
    /\ UNCHANGED <<tierEvents, tierUnheard, tierFaults>>

TierChanged(q) == [agent |-> treq[q].agent, old |-> treq[q].old, new |-> treq[q].new]

AddTierEvent(q) ==
    /\ treq[q].phase = "publish"
    /\ tierEvents' = Append(tierEvents, TierChanged(q))

PublishTier(q) ==
    /\ AddTierEvent(q)
    /\ TierAnswer(q, "reply")
    /\ UNCHANGED <<tierCache, tierUnheard, tierFaults>>

\* The answer is read back from the cache.
Reply(q) ==
    /\ treq[q].phase = "reply"
    /\ treq' = [treq EXCEPT ![q].phase = "ok", ![q].new = TierInfo(treq[q].agent)]
    /\ UNCHANGED <<tierCache, tierEvents, tierUnheard, tierFaults>>

\* The key has a time to live of 300 s.
ExpireTier(a) ==
    /\ tierCache[a] # NoTier
    /\ tierCache' = [tierCache EXCEPT ![a] = NoTier]
    /\ UNCHANGED <<tierEvents, treq, tierUnheard, tierFaults>>

-----------------------------------------------------------------------------
TierSilence(q) == tierUnheard' = tierUnheard \cup {treq[q].agent}

\* A command that raises without having been applied, and one applied whose
\* reply is lost; either ends the request.
TierRaises(q) ==
    /\ TierFault
    /\ treq[q].phase \in {"set", "publish", "reply"}
    /\ IF treq[q].phase = "publish" THEN TierSilence(q) ELSE UNCHANGED tierUnheard
    /\ TierAnswer(q, "error")
    /\ UNCHANGED <<tierCache, tierEvents>>

SetReplyLost(q) ==
    /\ TierFault
    /\ StoreTier(q)
    /\ TierSilence(q)
    /\ TierAnswer(q, "error")
    /\ UNCHANGED tierEvents

EventReplyLost(q) ==
    /\ TierFault
    /\ AddTierEvent(q)
    /\ TierAnswer(q, "error")
    /\ UNCHANGED <<tierCache, tierUnheard>>

-----------------------------------------------------------------------------
ChangeTier(q) ==
    \/ \E change \in {"promote", "demote"}, a \in Agents :
         Lookup(q, change, a) \/ RefuseTier(q, change, a)
    \/ SetTier(q) \/ PublishTier(q) \/ Reply(q)
    \/ TierRaises(q) \/ SetReplyLost(q) \/ EventReplyLost(q)

TierNext ==
    \/ \E q \in Requests : treq[q].phase = "idle" /\ (Serve(q) \/ Break(q)) /\ UNCHANGED tierVars
    \/ \E q \in Requests : req[q].phase = "idle" /\ ChangeTier(q) /\ UNCHANGED vars
    \/ \E a \in Agents : ExpireTier(a) /\ UNCHANGED vars

TierSpec == TierInit /\ [][TierNext]_<<vars, tierVars>>

-----------------------------------------------------------------------------
(***************************************************************************)
(* Properties.                                                             *)
(***************************************************************************)
\* The type invariant.
TierTypeOK ==
    /\ tierCache \in [Agents -> Tiers \cup {NoTier}]
    /\ tierEvents \in Seq([agent : Agents, old : Tiers, new : Tiers])
    /\ treq \in [Requests -> [phase : {"idle", "set", "publish", "reply", "ok", "refused", "error"},
                              agent : Agents \cup {NoAgent}, old : Tiers, new : Tiers]]
    /\ \A q \in Requests : treq[q].phase \in {"set", "publish", "reply"} => treq[q].agent \in Agents
    /\ tierUnheard \subseteq Agents
    /\ tierFaults \in 0..MaxTierFaults

\* A tier that ASOR is shown is heard of: an event of the agent with that tier
\* is in the stream or about to be added, or one was lost by a command that
\* failed after the SET (promote_tier: the key is written before the event).
TierIsHeardOf ==
    \A a \in Agents : tierCache[a] # NoTier =>
        \/ a \in tierUnheard
        \/ \E i \in DOMAIN tierEvents :
             tierEvents[i].agent = a /\ tierEvents[i].new = tierCache[a]
        \/ \E q \in Requests :
             /\ treq[q].phase = "publish"
             /\ treq[q].agent = a
             /\ treq[q].new = tierCache[a]

\* No change of the agent's tier is under way.
Untouched(a) ==
    \A q \in Requests :
        treq[q].agent = a => treq[q].phase \notin {"set", "publish", "reply"}

\* layer1/trust/router.py:52 and service.py:58, "Promote agent trust tier by one
\* level": a promotion that no other change of the agent's tier overlaps is to
\* a tier one above the one the agent is shown with (promote_tier).
PromotesByOneLevel ==
    [][\A q \in Requests, a \in Agents :
          Lookup(q, "promote", a) /\ Untouched(a)
              => treq'[q].new = TierInfo(a) + 1]_<<vars, tierVars>>
=============================================================================
