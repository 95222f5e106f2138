---------------------------- MODULE AgentRegistry ----------------------------
(***************************************************************************)
(* The KYA engine (layer1/kya) and the bulk revocation of the circuit      *)
(* breaker (layer1/circuit_breaker): concurrent HTTP requests, in any      *)
(* number of replicas, on one table of agents and two Redis streams.       *)
(*                                                                         *)
(* A request is cut at its commands: a SELECT with the checks that follow  *)
(* it, an INSERT or UPDATE (each commits on its own), an XADD.  Every      *)
(* command may fail, with or without having been applied.                  *)
(***************************************************************************)
EXTENDS AgentLifecycle, Naturals, FiniteSets, SequencesExt

CONSTANTS
    Agents,     \* ids the registry may hand out
    NoAgent,    \* the agent of a request that is not about one
    Requests,   \* HTTP requests, each handled once
    Scopes,     \* sets of agents that share a class, an authorizer or tier 0
    Limit,      \* rows list_agents gives back (10000)
    MaxFaults   \* bound: commands that fail

ASSUME RegistryAssumption ==
    /\ IsFiniteSet(Agents)
    /\ NoAgent \notin Agents
    /\ Scopes \subseteq SUBSET Agents
    /\ Limit \in Nat
    /\ MaxFaults \in Nat

VARIABLES
    status,       \* status of every row; "unregistered" where there is none
    created,      \* the rows in the order of created_at
    req,          \* the locals of every request's handler
    trustEvents,  \* stream:trust_event
    vcRevoke,     \* stream:vc_revoke
    \* history, read by no action
    outdated,     \* agents whose row was updated under another request's check
    unheard,      \* events of rows that were written and not announced
    targets,      \* per bulk revocation: who was in its scope and not revoked
    faults

rowVars == <<status, created>>
streams == <<trustEvents, vcRevoke>>
vars == <<status, created, req, trustEvents, vcRevoke,
          outdated, unheard, targets, faults>>

Unhandled == [phase |-> "idle", event |-> "none", agent |-> NoAgent, todo |-> {}]

Init ==
    /\ status = [a \in Agents |-> "unregistered"]
    /\ created = <<>>
    /\ req = [q \in Requests |-> Unhandled]
    /\ trustEvents = <<>>
    /\ vcRevoke = <<>>
    /\ outdated = {}
    /\ unheard = {}
    /\ targets = [q \in Requests |-> {}]
    /\ faults = 0

Fault == faults < MaxFaults /\ faults' = faults + 1

Answer(q, outcome) == req' = [req EXCEPT ![q].phase = outcome]

-----------------------------------------------------------------------------
(***************************************************************************)
(* POST /kya/agents                                                        *)
(***************************************************************************)
\* created_at is the clock of the replica: rows need not arrive in its order.
InsertRow(a) ==
    /\ status' = [status EXCEPT ![a] = Target["register"]]
    /\ \E i \in 1..(Len(created) + 1) : created' = InsertAt(created, i, a)

Register(q, a) ==
    /\ req[q].phase = "idle"
    /\ status[a] = "unregistered"
    /\ InsertRow(a)
    /\ req' = [req EXCEPT ![q] = [phase |-> "publish", event |-> "register",
                                  agent |-> a, todo |-> {}]]
    /\ UNCHANGED <<streams, outdated, unheard, targets, faults>>

RegisterReplyLost(q, a) ==
    /\ Fault
    /\ req[q].phase = "idle"
    /\ status[a] = "unregistered"
    /\ InsertRow(a)
    /\ req' = [req EXCEPT ![q] = [phase |-> "error", event |-> "register",
                                  agent |-> a, todo |-> {}]]
    /\ unheard' = unheard \cup {[event |-> "register", agent |-> a]}
    /\ UNCHANGED <<streams, outdated, targets>>

-----------------------------------------------------------------------------
(***************************************************************************)
(* PATCH /kya/agents/{agent_id}/status                                     *)
(***************************************************************************)
\* The other events of the machine are answered with 400.
Actions == {"verify", "suspend", "revoke"}

MayAlways(e, a) == status[a] # "unregistered"

\* get_agent, then the machine at the state it gave: 404 or 409 if not.
MayTransition(e, a) == status[a] # "unregistered" /\ status[a] \in Source[e]

Check(q, e, a) ==
    /\ req[q].phase = "idle"
    /\ MayTransition(e, a)
    /\ req' = [req EXCEPT ![q] = [phase |-> "checked", event |-> e,
                                  agent |-> a, todo |-> {}]]
    /\ UNCHANGED <<rowVars, streams, outdated, unheard, targets, faults>>

Refuse(q, e, a) ==
    /\ req[q].phase = "idle"
    /\ ~MayTransition(e, a)
    /\ Answer(q, "refused")
    /\ UNCHANGED <<rowVars, streams, outdated, unheard, targets, faults>>

Overtaken(q) ==
    \E p \in Requests \ {q} : req[p].phase = "checked" /\ req[p].agent = req[q].agent

\* UPDATE agents SET status = ... WHERE id = ...
UpdateRow(q) ==
    /\ status' = [status EXCEPT ![req[q].agent] = Target[req[q].event]]
    /\ outdated' = IF Overtaken(q) THEN outdated \cup {req[q].agent} ELSE outdated
    /\ UNCHANGED created

NeverPublishes(e) == "ok"

\* Only a revocation has an event.
AfterUpdate(e) == IF e = "revoke" THEN "publish" ELSE "ok"

Update(q) ==
    /\ req[q].phase = "checked"
    /\ UpdateRow(q)
    /\ Answer(q, AfterUpdate(req[q].event))
    /\ UNCHANGED <<streams, unheard, targets, faults>>

Event(q) == [event |-> req[q].event, agent |-> req[q].agent]

Publish(q) ==
    /\ req[q].phase = "publish"
    /\ trustEvents' = Append(trustEvents, Event(q))
    /\ Answer(q, "ok")
    /\ UNCHANGED <<rowVars, vcRevoke, outdated, unheard, targets, faults>>

-----------------------------------------------------------------------------
(***************************************************************************)
(* POST /circuit-breaker/bulk-revoke                                       *)
(***************************************************************************)
\* ORDER BY created_at DESC LIMIT Limit
Newest == SubSeq(Reverse(created), 1, IF Limit < Len(created) THEN Limit ELSE Len(created))

NotRevoked(a) == status[a] # "revoked"

\* The class and the authorizer are compared after the rows have been read.
Matching(scope) == {a \in scope \cap ToSet(Newest) : NotRevoked(a)}

Query(q, scope) ==
    /\ req[q].phase = "idle"
    /\ req' = [req EXCEPT ![q] =
                 [phase |-> IF Matching(scope) = {} THEN "ok" ELSE "announce",
                  event |-> "bulk", agent |-> NoAgent, todo |-> Matching(scope)]]
    /\ targets' = [targets EXCEPT ![q] = {a \in scope \cap ToSet(created) : NotRevoked(a)}]
    /\ UNCHANGED <<rowVars, streams, outdated, unheard, faults>>

CountsAllRead(q) ==
    [kind |-> "activated", count |-> Len(Newest), agent |-> NoAgent]

\* CircuitBreakerActivated, with the number of revocations that follow.
Activated(q) == [kind |-> "activated", count |-> Cardinality(req[q].todo), agent |-> NoAgent]

Announce(q) ==
    /\ req[q].phase = "announce"
    /\ vcRevoke' = Append(vcRevoke, Activated(q))
    /\ Answer(q, "bulk")
    /\ UNCHANGED <<rowVars, trustEvents, outdated, unheard, targets, faults>>

Revocation(a) == [kind |-> "revoke", count |-> 0, agent |-> a]

StopsShort(q, a) == IF Cardinality(req[q].todo \ {a}) <= 1 THEN "ok" ELSE "bulk"

AfterRevocation(q, a) == IF req[q].todo = {a} THEN "ok" ELSE "bulk"

\* The loop of bulk_revoke; the order of its list is left open.
RevokeNext(q, a) ==
    /\ req[q].phase = "bulk"
    /\ a \in req[q].todo
    /\ vcRevoke' = Append(vcRevoke, Revocation(a))
    /\ req' = [req EXCEPT ![q].phase = AfterRevocation(q, a), ![q].todo = @ \ {a}]
    /\ UNCHANGED <<rowVars, trustEvents, outdated, unheard, targets, faults>>

-----------------------------------------------------------------------------
(***************************************************************************)
(* Commands that raise.  A request ends with its first failing command; a  *)
(* replica that dies ends its requests in the same ways.                   *)
(***************************************************************************)
Silence(q) == unheard' = unheard \cup {Event(q)}

\* The command was not applied.
Raises(q) ==
    /\ Fault
    /\ req[q].phase \in {"checked", "publish", "announce", "bulk"}
    /\ IF req[q].phase = "publish" THEN Silence(q) ELSE UNCHANGED unheard
    /\ req' = [req EXCEPT ![q].phase = "error",
                          ![q].todo = IF req[q].phase = "announce" THEN {} ELSE @]
    /\ UNCHANGED <<rowVars, streams, outdated, targets>>

\* The command was applied and its reply is lost.
UpdateReplyLost(q) ==
    /\ Fault
    /\ req[q].phase = "checked"
    /\ UpdateRow(q)
    /\ IF AfterUpdate(req[q].event) = "publish" THEN Silence(q) ELSE UNCHANGED unheard
    /\ Answer(q, "error")
    /\ UNCHANGED <<streams, targets>>

XaddReplyLost(q) ==
    /\ Fault
    /\ \/ /\ req[q].phase = "publish"
          /\ trustEvents' = Append(trustEvents, Event(q))
          /\ Answer(q, "error")
          /\ UNCHANGED vcRevoke
       \/ /\ req[q].phase = "announce"
          /\ vcRevoke' = Append(vcRevoke, Activated(q))
          /\ Answer(q, "error")
          /\ UNCHANGED trustEvents
       \/ /\ req[q].phase = "bulk"
          /\ \E a \in req[q].todo :
               /\ vcRevoke' = Append(vcRevoke, Revocation(a))
               /\ req' = [req EXCEPT ![q].phase = "error", ![q].todo = @ \ {a}]
          /\ UNCHANGED trustEvents
    /\ UNCHANGED <<rowVars, outdated, unheard, targets>>

-----------------------------------------------------------------------------
Serve(q) ==
    \/ \E a \in Agents : Register(q, a)
    \/ \E e \in Actions, a \in Agents : Check(q, e, a) \/ Refuse(q, e, a)
    \/ Update(q) \/ Publish(q)
    \/ \E scope \in Scopes : Query(q, scope)
    \/ Announce(q)
    \/ \E a \in Agents : RevokeNext(q, a)

Break(q) ==
    \/ \E a \in Agents : RegisterReplyLost(q, a)
    \/ Raises(q) \/ UpdateReplyLost(q) \/ XaddReplyLost(q)

Next == \E q \in Requests : Serve(q) \/ Break(q)

Spec == Init /\ [][Next]_vars

-----------------------------------------------------------------------------
(***************************************************************************)
(* Properties.                                                             *)
(***************************************************************************)
Phases == {"idle", "checked", "publish", "announce", "bulk", "ok", "refused", "error"}

\* The type invariant.  The API reaches neither attested nor established: the
\* router's action_map has no such action.
TypeOK ==
    /\ status \in [Agents -> {"unregistered", "registered", "verified", "suspended", "revoked"}]
    /\ created \in Seq(Agents)
    /\ req \in [Requests -> [phase : Phases,
                             event : Actions \cup {"none", "register", "bulk"},
                             agent : Agents \cup {NoAgent},
                             todo : SUBSET Agents]]
    /\ trustEvents \in Seq([event : {"register", "revoke"}, agent : Agents])
    /\ vcRevoke \in Seq([kind : {"activated", "revoke"}, count : Nat,
                         agent : Agents \cup {NoAgent}])
    /\ outdated \subseteq Agents
    /\ unheard \subseteq [event : {"register", "revoke"}, agent : Agents]
    /\ targets \in [Requests -> SUBSET Agents]
    /\ faults \in 0..MaxFaults

\* A row moves against the lifecycle machine only when two requests on its
\* agent overlapped, the one updating it between the check and the UPDATE of
\* the other (KYAService: the UPDATE does not repeat the check).
LifecycleFollowed ==
    [][\A a \in Agents \ outdated :
          status'[a] # status[a] => Transition(status[a], status'[a])]_vars

\* A row that is written is heard of: a revoked agent's event, and that of any
\* registered one, is in the stream, is about to be published, or was lost by
\* a command that failed after the UPDATE or INSERT (revoke_agent).
Heard(e, a) ==
    \/ [event |-> e, agent |-> a] \in ToSet(trustEvents) \cup unheard
    \/ \E q \in Requests : req[q].phase = "publish" /\ Event(q) = [event |-> e, agent |-> a]

RowsAreHeardOf ==
    \A a \in Agents :
        /\ status[a] # "unregistered" => Heard("register", a)
        /\ status[a] = "revoked" => Heard("revoke", a)

IsRevocationOf(i, a) == trustEvents[i] = [event |-> "revoke", agent |-> a]

\* Without overlapping requests the stream says what the table says: no event
\* revokes an agent that is not revoked, and none is revoked twice
\* (revoke_agent: check, UPDATE and event are three steps).
StreamMatchesRow ==
    \A a \in Agents \ outdated : \A i \in DOMAIN trustEvents :
        IsRevocationOf(i, a) =>
            /\ status[a] = "revoked"
            /\ \A j \in DOMAIN trustEvents : IsRevocationOf(j, a) => j = i

BulkRevoked == {vcRevoke[i].agent : i \in {j \in DOMAIN vcRevoke : vcRevoke[j].kind = "revoke"}}

\* When a bulk revocation reports success, each agent that was in scope and not
\* revoked when it looked has a revocation in the stream, its own or that of
\* another bulk request, except those behind Limit newer rows, of whatever
\* scope (the router filters what it was given).
BulkCoversScope ==
    \A q \in Requests : req[q].phase = "ok" =>
        \A a \in targets[q] \ BulkRevoked :
            \E i \in DOMAIN created : created[i] = a /\ Len(created) - i >= Limit

\* The announced numbers are kept: taken together they are the revocations in
\* the stream, those still to come, and those a failed request still owed
\* (bulk_revoke: one event with affected_agent_count, then the loop).
BulkAccounted ==
    LET Number(i) == vcRevoke[i].count
        Owed(q) == Cardinality(req[q].todo)
        Of(k) == {i \in DOMAIN vcRevoke : vcRevoke[i].kind = k}
    IN  MapThenSumSet(Number, Of("activated")) =
          Cardinality(Of("revoke"))
          + MapThenSumSet(Owed, {q \in Requests : req[q].phase \in {"bulk", "error"}})

\* state_machine.py:5, "Terminal: Any non-revoked -> REVOKED": a revoked agent
\* stays revoked.
RevokedIsTerminal ==
    [][\A a \in Agents : status[a] = "revoked" => status'[a] = "revoked"]_vars
=============================================================================
