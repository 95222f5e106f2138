------------------------ MODULE AgentRegistry_proofs ------------------------
(***************************************************************************)
(* What holds of AgentRegistry for any number of agents, requests, scopes  *)
(* and failures.                                                           *)
(***************************************************************************)
EXTENDS AgentRegistry, SumTheorems, SequenceTheorems

\* What a request that waits for its UPDATE has checked still holds, unless it
\* was overtaken.
CheckedInv ==
    \A q \in Requests : req[q].phase = "checked" =>
        /\ req[q].event \in Actions
        /\ req[q].agent \in Agents
        /\ status[req[q].agent] # "unregistered"
        /\ req[q].agent \notin outdated => status[req[q].agent] \in Source[req[q].event]

\* A request that waits for its XADD has written a row.
PublishInv ==
    \A q \in Requests : req[q].phase = "publish" =>
        /\ req[q].event \in {"register", "revoke"}
        /\ req[q].agent \in Agents

Revoking(q, a) == req[q].phase = "publish" /\ Event(q) = [event |-> "revoke", agent |-> a]

\* Without overlapping requests, one request at most is about to announce the
\* revocation of an agent, which is revoked and not announced yet.
RevokingInv ==
    \A a \in Agents \ outdated : \A q \in Requests :
        Revoking(q, a) =>
            /\ status[a] = "revoked"
            /\ \A i \in DOMAIN trustEvents : ~IsRevocationOf(i, a)
            /\ \A p \in Requests : Revoking(p, a) => p = q

IInv ==
    /\ TypeOK
    /\ CheckedInv
    /\ PublishInv
    /\ RevokingInv
    /\ RowsAreHeardOf
    /\ StreamMatchesRow

-----------------------------------------------------------------------------
(***************************************************************************)
(* Sequences.                                                              *)
(***************************************************************************)
\* Appending keeps what was there and adds one element at the end.
LEMMA AppendFacts ==
  ASSUME NEW S, NEW s \in Seq(S), NEW e \in S
  PROVE  /\ Append(s, e) \in Seq(S)
         /\ DOMAIN Append(s, e) = DOMAIN s \cup {Len(s) + 1}
         /\ \A i \in DOMAIN s : Append(s, e)[i] = s[i] /\ i # Len(s) + 1
         /\ Append(s, e)[Len(s) + 1] = e
         /\ ToSet(Append(s, e)) = ToSet(s) \cup {e}
<1>1. /\ Append(s, e) \in Seq(S)
      /\ DOMAIN Append(s, e) = DOMAIN s \cup {Len(s) + 1}
      /\ \A i \in DOMAIN s : Append(s, e)[i] = s[i] /\ i # Len(s) + 1
      /\ Append(s, e)[Len(s) + 1] = e
  BY AppendProperties, LenProperties
<1>2. ToSet(Append(s, e)) = ToSet(s) \cup {e}
  BY <1>1 DEF ToSet
<1> QED BY <1>1, <1>2

\* A row inserted anywhere leaves a sequence of agents.
LEMMA InsertAtType ==
  ASSUME NEW S, NEW s \in Seq(S), NEW e \in S, NEW i \in 1..(Len(s) + 1)
  PROVE  InsertAt(s, i, e) \in Seq(S)
<1>1. SubSeq(s, 1, i - 1) \in Seq(S) /\ SubSeq(s, i, Len(s)) \in Seq(S)
  BY LenProperties, SubSeqProperties
<1>2. <<e>> \in Seq(S)
  OBVIOUS
<1>3. SubSeq(s, 1, i - 1) \o <<e>> \in Seq(S)
  BY <1>1, <1>2, ConcatProperties
<1> QED BY <1>1, <1>3, ConcatProperties DEF InsertAt

-----------------------------------------------------------------------------
(***************************************************************************)
(* Types.                                                                  *)
(***************************************************************************)
Outcomes == [phase : Phases, event : Actions \cup {"none", "register", "bulk"},
             agent : Agents \cup {NoAgent}, todo : SUBSET Agents]

\* What a step makes of the locals of a request.
LEMMA LocalsType ==
  ASSUME TypeOK, NEW q \in Requests
  PROVE  /\ \A r \in Outcomes : [req EXCEPT ![q] = r] \in [Requests -> Outcomes]
         /\ \A ph \in Phases : [req EXCEPT ![q].phase = ph] \in [Requests -> Outcomes]
         /\ \A ph \in Phases, owed \in SUBSET Agents :
              [req EXCEPT ![q].phase = ph, ![q].todo = owed] \in [Requests -> Outcomes]
<1>1. req \in [Requests -> Outcomes]
  BY DEF TypeOK, Outcomes
<1>2. req[q] \in Outcomes
  BY <1>1
<1>3. \A ph \in Phases : [req[q] EXCEPT !.phase = ph] \in Outcomes
  BY <1>2 DEF Outcomes
<1>4. \A ph \in Phases, owed \in SUBSET Agents :
        [req[q] EXCEPT !.phase = ph, !.todo = owed] \in Outcomes
  BY <1>2 DEF Outcomes
<1> QED BY <1>1, <1>2, <1>3, <1>4

\* A new row, and the two ways its request goes on.
LEMMA RegisterType ==
  ASSUME TypeOK, NEW q \in Requests, NEW a \in Agents,
         Register(q, a) \/ RegisterReplyLost(q, a)
  PROVE  TypeOK'
<1>1. status' \in [Agents -> {"unregistered", "registered", "verified", "suspended", "revoked"}]
  BY DEF TypeOK, Register, RegisterReplyLost, InsertRow, Target
<1>2. created' \in Seq(Agents)
  BY InsertAtType DEF TypeOK, Register, RegisterReplyLost, InsertRow
<1>3. req' \in [Requests -> Outcomes]
  <2>1. [phase |-> "publish", event |-> "register", agent |-> a, todo |-> {}] \in Outcomes
    BY DEF Outcomes, Phases
  <2>2. [phase |-> "error", event |-> "register", agent |-> a, todo |-> {}] \in Outcomes
    BY DEF Outcomes, Phases
  <2>3. CASE Register(q, a)
    BY <2>1, <2>3, LocalsType DEF Register
  <2>4. CASE RegisterReplyLost(q, a)
    BY <2>2, <2>4, LocalsType DEF RegisterReplyLost
  <2> QED BY <2>3, <2>4
<1>4. unheard' \subseteq [event : {"register", "revoke"}, agent : Agents]
  BY DEF TypeOK, Register, RegisterReplyLost
<1>5. faults' \in 0..MaxFaults
  BY RegistryAssumption DEF TypeOK, Register, RegisterReplyLost, Fault
<1> QED BY <1>1, <1>2, <1>3, <1>4, <1>5
        DEF TypeOK, Register, RegisterReplyLost, streams, Outcomes

\* The check, granted or refused.
LEMMA CheckType ==
  ASSUME TypeOK, NEW q \in Requests, NEW e \in Actions, NEW a \in Agents,
         Check(q, e, a) \/ Refuse(q, e, a)
  PROVE  TypeOK'
<1>1. req' \in [Requests -> Outcomes]
  <2>1. "checked" \in Phases /\ "refused" \in Phases
    BY DEF Phases
  <2>2. [phase |-> "checked", event |-> e, agent |-> a, todo |-> {}] \in Outcomes
    BY <2>1 DEF Outcomes
  <2>3. CASE Check(q, e, a)
    BY <2>2, <2>3, LocalsType DEF Check
  <2>4. CASE Refuse(q, e, a)
    BY <2>1, <2>4, LocalsType DEF Refuse, Answer
  <2> QED BY <2>3, <2>4
<1> QED BY <1>1 DEF TypeOK, Check, Refuse, rowVars, streams, Outcomes

\* The UPDATE, answered or not.
LEMMA UpdateType ==
  ASSUME TypeOK, CheckedInv, NEW q \in Requests, Update(q) \/ UpdateReplyLost(q)
  PROVE  TypeOK'
<1>1. req[q].event \in Actions /\ req[q].agent \in Agents
  BY DEF CheckedInv, Update, UpdateReplyLost
<1>2. Target[req[q].event] \in {"verified", "suspended", "revoked"}
  BY <1>1 DEF Actions, Target
<1>3. status' \in [Agents -> {"unregistered", "registered", "verified", "suspended", "revoked"}]
  BY <1>1, <1>2 DEF TypeOK, Update, UpdateReplyLost, UpdateRow
<1>4. outdated' \subseteq Agents /\ created' = created
  BY <1>1 DEF TypeOK, Update, UpdateReplyLost, UpdateRow
<1>5. req' \in [Requests -> Outcomes]
  <2>1. "error" \in Phases /\ AfterUpdate(req[q].event) \in Phases
    BY DEF Phases, AfterUpdate
  <2>2. req[q] \in Outcomes
    BY DEF TypeOK, Outcomes
  <2> QED BY <2>1, <2>2, LocalsType DEF Update, UpdateReplyLost, Answer
<1>6. unheard' \subseteq [event : {"register", "revoke"}, agent : Agents]
  BY <1>1 DEF TypeOK, Update, UpdateReplyLost, AfterUpdate, Silence, Event
<1>7. faults' \in 0..MaxFaults
  BY RegistryAssumption DEF TypeOK, Update, UpdateReplyLost, Fault
<1> QED BY <1>3, <1>4, <1>5, <1>6, <1>7
        DEF TypeOK, Update, UpdateReplyLost, streams, Outcomes

\* The query of a bulk revocation.
LEMMA QueryType ==
  ASSUME TypeOK, NEW q \in Requests, NEW scope \in Scopes, Query(q, scope)
  PROVE  TypeOK'
<1>1. scope \subseteq Agents
  BY RegistryAssumption
<1>2. Matching(scope) \subseteq Agents
  BY <1>1 DEF Matching
<1>3. req' \in [Requests -> Outcomes]
  BY <1>2 DEF TypeOK, Query, Outcomes, Phases
<1>4. targets' \in [Requests -> SUBSET Agents]
  BY <1>1 DEF TypeOK, Query
<1> QED BY <1>3, <1>4 DEF TypeOK, Query, rowVars, streams, Outcomes

\* What an XADD appends.
LEMMA MessageTypes ==
  ASSUME TypeOK, PublishInv, NEW q \in Requests
  PROVE  /\ req[q].phase = "publish" =>
              Event(q) \in [event : {"register", "revoke"}, agent : Agents]
         /\ Activated(q) \in [kind : {"activated", "revoke"}, count : Nat,
                              agent : Agents \cup {NoAgent}]
         /\ \A a \in req[q].todo :
              Revocation(a) \in [kind : {"activated", "revoke"}, count : Nat,
                                 agent : Agents \cup {NoAgent}]
<1>1. req[q].phase = "publish" =>
        Event(q) \in [event : {"register", "revoke"}, agent : Agents]
  BY DEF PublishInv, Event
<1>2. req[q].todo \subseteq Agents
  BY DEF TypeOK
<1>3. Cardinality(req[q].todo) \in Nat
  BY <1>2, RegistryAssumption, FS_Subset, FS_CardinalityType
<1> QED BY <1>1, <1>2, <1>3 DEF Activated, Revocation

\* The XADDs, answered or not.
LEMMA XaddType ==
  ASSUME TypeOK, PublishInv, NEW q \in Requests,
         \/ Publish(q) \/ Announce(q) \/ XaddReplyLost(q)
         \/ \E a \in Agents : RevokeNext(q, a)
  PROVE  TypeOK'
<1> DEFINE TrustMessage == [event : {"register", "revoke"}, agent : Agents]
           VcMessage == [kind : {"activated", "revoke"}, count : Nat,
                         agent : Agents \cup {NoAgent}]
<1>1. /\ trustEvents \in Seq(TrustMessage)
      /\ vcRevoke \in Seq(VcMessage)
      /\ req[q].todo \subseteq Agents
  BY DEF TypeOK
<1>2. req[q].phase = "publish" => Append(trustEvents, Event(q)) \in Seq(TrustMessage)
  BY <1>1, MessageTypes, AppendFacts
<1>3. Append(vcRevoke, Activated(q)) \in Seq(VcMessage)
  BY <1>1, MessageTypes, AppendFacts
<1>4. \A a \in req[q].todo : Append(vcRevoke, Revocation(a)) \in Seq(VcMessage)
  BY <1>1, MessageTypes, AppendFacts
<1>5. trustEvents' \in Seq(TrustMessage)
  BY <1>1, <1>2 DEF Publish, Announce, XaddReplyLost, RevokeNext
<1>6. vcRevoke' \in Seq(VcMessage)
  BY <1>1, <1>3, <1>4 DEF Publish, Announce, XaddReplyLost, RevokeNext
<1>7. req' \in [Requests -> Outcomes]
  <2>1. "ok" \in Phases /\ "bulk" \in Phases /\ "error" \in Phases
    BY DEF Phases
  <2>2. CASE Publish(q) \/ Announce(q)
    <3>1. PICK ph \in {"ok", "bulk"} : req' = [req EXCEPT ![q].phase = ph]
      BY <2>2 DEF Publish, Announce, Answer
    <3>2. ph \in Phases
      BY <2>1
    <3> QED BY <3>1, <3>2, LocalsType
  <2>3. CASE \E a \in Agents : RevokeNext(q, a)
    <3>1. PICK a \in Agents : RevokeNext(q, a)
      BY <2>3
    <3>2. AfterRevocation(q, a) \in Phases /\ req[q].todo \ {a} \in SUBSET Agents
      BY <1>1, <2>1 DEF AfterRevocation
    <3>3. req' = [req EXCEPT ![q].phase = AfterRevocation(q, a),
                             ![q].todo = req[q].todo \ {a}]
      BY <3>1 DEF RevokeNext
    <3> QED BY <3>2, <3>3, LocalsType
  <2>4. CASE XaddReplyLost(q)
    <3>1. CASE req' = [req EXCEPT ![q].phase = "error"]
      BY <2>1, <3>1, LocalsType
    <3>2. CASE \E a \in req[q].todo :
                 req' = [req EXCEPT ![q].phase = "error", ![q].todo = req[q].todo \ {a}]
      <4>1. PICK a \in req[q].todo :
              req' = [req EXCEPT ![q].phase = "error", ![q].todo = req[q].todo \ {a}]
        BY <3>2
      <4>2. req[q].todo \ {a} \in SUBSET Agents
        BY <1>1
      <4> QED BY <2>1, <4>1, <4>2, LocalsType
    <3> QED BY <2>4, <3>1, <3>2 DEF XaddReplyLost, Answer
  <2> QED BY <2>2, <2>3, <2>4
<1>8. faults' \in 0..MaxFaults
  <2>1. faults' = faults \/ Fault
    BY DEF Publish, Announce, XaddReplyLost, RevokeNext
  <2> QED BY <2>1, RegistryAssumption DEF TypeOK, Fault
<1>9. UNCHANGED <<status, created, outdated, unheard, targets>>
  BY DEF Publish, Announce, XaddReplyLost, RevokeNext, rowVars
<1> QED BY <1>5, <1>6, <1>7, <1>8, <1>9 DEF TypeOK, Outcomes

\* A command that raises.
LEMMA RaisesType ==
  ASSUME TypeOK, PublishInv, NEW q \in Requests, Raises(q)
  PROVE  TypeOK'
<1>0. PICK owed \in SUBSET Agents :
         req' = [req EXCEPT ![q].phase = "error", ![q].todo = owed]
  <2>1. (IF req[q].phase = "announce" THEN {} ELSE req[q].todo) \in SUBSET Agents
    BY DEF TypeOK
  <2> QED BY <2>1 DEF Raises
<1>1. req' \in [Requests -> Outcomes]
  <2>1. "error" \in Phases
    BY DEF Phases
  <2>2. req[q] \in Outcomes
    BY DEF TypeOK, Outcomes
  <2> QED BY <1>0, <2>1, <2>2, LocalsType
<1>2. unheard' \subseteq [event : {"register", "revoke"}, agent : Agents]
  BY MessageTypes DEF TypeOK, Raises, Silence
<1>3. faults' \in 0..MaxFaults
  BY RegistryAssumption DEF TypeOK, Raises, Fault
<1> QED BY <1>1, <1>2, <1>3 DEF TypeOK, Raises, rowVars, streams, Outcomes

-----------------------------------------------------------------------------
(***************************************************************************)
(* The invariant.                                                          *)
(***************************************************************************)
LEMMA InitIInv == Init => IInv
<1> SUFFICES ASSUME Init PROVE IInv
  OBVIOUS
<1>1. Unhandled \in Outcomes
  BY DEF Unhandled, Outcomes, Phases
<1>2. req \in [Requests -> Outcomes]
  BY <1>1 DEF Init
<1>3. TypeOK
  BY <1>2, RegistryAssumption DEF Init, TypeOK, Outcomes
<1>4. \A q \in Requests : req[q].phase = "idle"
  BY DEF Init, Unhandled
<1>5. CheckedInv /\ PublishInv /\ RevokingInv
  BY <1>4 DEF CheckedInv, PublishInv, RevokingInv, Revoking
<1>6. RowsAreHeardOf /\ StreamMatchesRow
  BY DEF Init, RowsAreHeardOf, StreamMatchesRow
<1> QED BY <1>3, <1>5, <1>6 DEF IInv

\* A step of q that leaves the rows and the trust stream alone, and after which
\* q waits neither for its UPDATE nor for its XADD on that stream.
LEMMA OtherStep ==
  ASSUME IInv, TypeOK', NEW q \in Requests,
         UNCHANGED <<status, trustEvents, outdated>>,
         unheard \subseteq unheard',
         \A p \in Requests \ {q} : req'[p] = req[p],
         req'[q].phase \notin {"checked", "publish"},
         req[q].phase = "publish" => Event(q) \in unheard'
  PROVE  IInv'
<1>1. \A p \in Requests : req'[p].phase \in {"checked", "publish"} => req'[p] = req[p]
  OBVIOUS
<1>2. CheckedInv'
  BY <1>1 DEF IInv, CheckedInv
<1>3. PublishInv'
  BY <1>1 DEF IInv, PublishInv
<1>4. \A p \in Requests, a \in Agents : Revoking(p, a)' => Revoking(p, a)
  BY <1>1 DEF Revoking, Event
<1>5. RevokingInv'
  BY <1>4 DEF IInv, RevokingInv, IsRevocationOf
<1>6. \A e \in {"register", "revoke"}, a \in Agents : Heard(e, a) => Heard(e, a)'
  <2> SUFFICES ASSUME NEW e \in {"register", "revoke"}, NEW a \in Agents, Heard(e, a)
               PROVE  Heard(e, a)'
    OBVIOUS
  <2>1. CASE [event |-> e, agent |-> a] \in ToSet(trustEvents) \cup unheard
    BY <2>1 DEF Heard
  <2>2. CASE \E p \in Requests : req[p].phase = "publish"
                               /\ Event(p) = [event |-> e, agent |-> a]
    <3>1. PICK p \in Requests : req[p].phase = "publish"
                              /\ Event(p) = [event |-> e, agent |-> a]
      BY <2>2
    <3>2. CASE p = q
      BY <3>1, <3>2 DEF Heard
    <3>3. CASE p # q
      BY <3>1, <3>3 DEF Heard, Event
    <3> QED BY <3>2, <3>3
  <2> QED BY <2>1, <2>2 DEF Heard
<1>7. RowsAreHeardOf'
  BY <1>6 DEF IInv, RowsAreHeardOf
<1>8. StreamMatchesRow'
  BY DEF IInv, StreamMatchesRow, IsRevocationOf
<1> QED BY <1>2, <1>3, <1>5, <1>7, <1>8 DEF IInv

\* A request passes its check.
LEMMA CheckStep ==
  ASSUME IInv, TypeOK', NEW q \in Requests, NEW e \in Actions, NEW a \in Agents,
         Check(q, e, a)
  PROVE  IInv'
<1>1. /\ UNCHANGED <<status, trustEvents, outdated, unheard>>
      /\ req[q].phase = "idle"
      /\ status[a] # "unregistered" /\ status[a] \in Source[e]
  BY DEF Check, MayTransition, rowVars, streams
<1>2. /\ \A p \in Requests \ {q} : req'[p] = req[p]
      /\ req'[q] = [phase |-> "checked", event |-> e, agent |-> a, todo |-> {}]
  BY DEF IInv, TypeOK, Check
<1>3. CheckedInv'
  <2> SUFFICES ASSUME NEW p \in Requests, req'[p].phase = "checked"
               PROVE  /\ req'[p].event \in Actions
                      /\ req'[p].agent \in Agents
                      /\ status[req'[p].agent] # "unregistered"
                      /\ req'[p].agent \notin outdated =>
                            status[req'[p].agent] \in Source[req'[p].event]
    BY <1>1 DEF CheckedInv
  <2>1. CASE p = q
    BY <1>1, <1>2, <2>1
  <2>2. CASE p # q
    BY <1>2, <2>2 DEF IInv, CheckedInv
  <2> QED BY <2>1, <2>2
<1>4. \A p \in Requests : (req'[p].phase = "publish" \/ req[p].phase = "publish")
                          => req'[p] = req[p]
  BY <1>1, <1>2
<1>5. PublishInv'
  BY <1>4 DEF IInv, PublishInv
<1>6. \A p \in Requests, b \in Agents : Revoking(p, b)' <=> Revoking(p, b)
  BY <1>4 DEF Revoking, Event
<1>7. RevokingInv'
  BY <1>1, <1>6 DEF IInv, RevokingInv, IsRevocationOf
<1>8. \A x \in {"register", "revoke"}, b \in Agents : Heard(x, b) => Heard(x, b)'
  BY <1>1, <1>4 DEF Heard, Event
<1>9. RowsAreHeardOf' /\ StreamMatchesRow'
  BY <1>1, <1>8 DEF IInv, RowsAreHeardOf, StreamMatchesRow, IsRevocationOf
<1> QED BY <1>3, <1>5, <1>7, <1>9 DEF IInv

\* The event of q gets into the trust stream, whether q is told or not.
LEMMA TrustXaddStep ==
  ASSUME IInv, TypeOK', NEW q \in Requests, req[q].phase = "publish",
         trustEvents' = Append(trustEvents, Event(q)),
         UNCHANGED <<status, outdated, unheard>>,
         \A p \in Requests \ {q} : req'[p] = req[p],
         req'[q].phase \notin {"checked", "publish"}
  PROVE  IInv'
<1> DEFINE new == Len(trustEvents) + 1
<1>1. /\ DOMAIN trustEvents' = DOMAIN trustEvents \cup {new}
      /\ \A i \in DOMAIN trustEvents : trustEvents'[i] = trustEvents[i] /\ i # new
      /\ trustEvents'[new] = Event(q)
      /\ ToSet(trustEvents') = ToSet(trustEvents) \cup {Event(q)}
  <2> DEFINE Messages == [event : {"register", "revoke"}, agent : Agents]
  <2>1. Event(q) \in Messages
    BY MessageTypes DEF IInv
  <2>2. trustEvents \in Seq(Messages)
    BY DEF IInv, TypeOK
  <2>3. /\ DOMAIN Append(trustEvents, Event(q)) = DOMAIN trustEvents \cup {new}
        /\ \A i \in DOMAIN trustEvents :
              Append(trustEvents, Event(q))[i] = trustEvents[i] /\ i # new
        /\ Append(trustEvents, Event(q))[new] = Event(q)
        /\ ToSet(Append(trustEvents, Event(q))) = ToSet(trustEvents) \cup {Event(q)}
    <3> HIDE DEF Messages
    <3> QED BY <2>1, <2>2, AppendFacts
  <2> QED BY <2>3
<1>2. \A p \in Requests : req'[p].phase \in {"checked", "publish"}
                          => p # q /\ req'[p] = req[p]
  OBVIOUS
<1>3. CheckedInv' /\ PublishInv'
  BY <1>2 DEF IInv, CheckedInv, PublishInv
<1>4. \A p \in Requests, a \in Agents : Revoking(p, a)' => p # q /\ Revoking(p, a)
  BY <1>2 DEF Revoking, Event
<1>5. /\ \A i \in DOMAIN trustEvents, a \in Agents :
            IsRevocationOf(i, a)' <=> IsRevocationOf(i, a)
      /\ \A a \in Agents :
            trustEvents'[new] = [event |-> "revoke", agent |-> a] <=> Revoking(q, a)
  BY <1>1 DEF IsRevocationOf, Revoking
<1>6. RevokingInv'
  <2> SUFFICES ASSUME NEW a \in Agents \ outdated, NEW p \in Requests, Revoking(p, a)'
               PROVE  /\ status[a] = "revoked"
                      /\ \A i \in DOMAIN trustEvents' : ~IsRevocationOf(i, a)'
                      /\ \A r \in Requests : Revoking(r, a)' => r = p
    BY DEF RevokingInv
  <2>1. Revoking(p, a) /\ p # q
    BY <1>4
  <2>2. ~Revoking(q, a)
    BY <2>1 DEF IInv, RevokingInv
  <2>3. status[a] = "revoked" /\ \A r \in Requests : Revoking(r, a)' => r = p
    BY <1>4, <2>1 DEF IInv, RevokingInv
  <2>4. \A i \in DOMAIN trustEvents : ~IsRevocationOf(i, a)'
    BY <1>5, <2>1 DEF IInv, RevokingInv
  <2>5. trustEvents'[new] # [event |-> "revoke", agent |-> a]
    BY <1>5, <2>2
  <2> QED BY <1>1, <2>3, <2>4, <2>5 DEF IsRevocationOf
<1>7. \A x \in {"register", "revoke"}, a \in Agents : Heard(x, a) => Heard(x, a)'
  <2> SUFFICES ASSUME NEW x \in {"register", "revoke"}, NEW a \in Agents, Heard(x, a)
               PROVE  Heard(x, a)'
    OBVIOUS
  <2>1. CASE [event |-> x, agent |-> a] \in ToSet(trustEvents) \cup unheard
    BY <1>1, <2>1 DEF Heard
  <2>2. CASE \E p \in Requests : req[p].phase = "publish"
                               /\ Event(p) = [event |-> x, agent |-> a]
    <3>1. PICK p \in Requests : req[p].phase = "publish"
                              /\ Event(p) = [event |-> x, agent |-> a]
      BY <2>2
    <3>2. CASE p = q
      BY <1>1, <3>1, <3>2 DEF Heard
    <3>3. CASE p # q
      BY <3>1, <3>3 DEF Heard, Event
    <3> QED BY <3>2, <3>3
  <2> QED BY <2>1, <2>2 DEF Heard
<1>8. RowsAreHeardOf'
  BY <1>7 DEF IInv, RowsAreHeardOf
<1>9. StreamMatchesRow'
  <2> SUFFICES ASSUME NEW a \in Agents \ outdated,
                      NEW i \in DOMAIN trustEvents', IsRevocationOf(i, a)'
               PROVE  /\ status[a] = "revoked"
                      /\ \A j \in DOMAIN trustEvents' : IsRevocationOf(j, a)' => j = i
    BY DEF StreamMatchesRow
  <2>1. CASE Revoking(q, a)
    <3>1. status[a] = "revoked" /\ \A j \in DOMAIN trustEvents : ~IsRevocationOf(j, a)'
      BY <1>5, <2>1 DEF IInv, RevokingInv
    <3> QED BY <1>1, <3>1
  <2>2. CASE ~Revoking(q, a)
    <3>1. \A j \in DOMAIN trustEvents' : IsRevocationOf(j, a)' =>
            j \in DOMAIN trustEvents /\ IsRevocationOf(j, a)
      BY <1>1, <1>5, <2>2 DEF IsRevocationOf
    <3> QED BY <3>1 DEF IInv, StreamMatchesRow
  <2> QED BY <2>1, <2>2
<1> QED BY <1>3, <1>6, <1>8, <1>9 DEF IInv

\* A row is inserted; its request goes on to the event, or never hears of it.
LEMMA RegisterStep ==
  ASSUME IInv, TypeOK', NEW q \in Requests, NEW a \in Agents,
         Register(q, a) \/ RegisterReplyLost(q, a)
  PROVE  IInv'
<1>1. /\ UNCHANGED <<trustEvents, outdated>>
      /\ req[q].phase = "idle"
      /\ status[a] = "unregistered"
      /\ unheard \subseteq unheard'
  BY DEF Register, RegisterReplyLost, streams
<1>2. status'[a] = "registered" /\ \A b \in Agents \ {a} : status'[b] = status[b]
  BY DEF IInv, TypeOK, Register, RegisterReplyLost, InsertRow, Target
<1>3. /\ \A p \in Requests \ {q} : req'[p] = req[p]
      /\ req'[q].phase \in {"publish", "error"}
      /\ req'[q].event = "register" /\ req'[q].agent = a
      /\ req'[q].phase = "error" => [event |-> "register", agent |-> a] \in unheard'
  <2>1. CASE Register(q, a)
    BY <2>1 DEF IInv, TypeOK, Register
  <2>2. CASE RegisterReplyLost(q, a)
    BY <2>2 DEF IInv, TypeOK, RegisterReplyLost
  <2> QED BY <2>1, <2>2
<1>4. CheckedInv'
  <2> SUFFICES ASSUME NEW p \in Requests, req'[p].phase = "checked"
               PROVE  /\ req'[p].event \in Actions
                      /\ req'[p].agent \in Agents
                      /\ status'[req'[p].agent] # "unregistered"
                      /\ req'[p].agent \notin outdated =>
                            status'[req'[p].agent] \in Source[req'[p].event]
    BY <1>1 DEF CheckedInv
  <2>1. req'[p] = req[p] /\ req[p].phase = "checked"
    BY <1>3
  <2>2. req[p].agent \in Agents \ {a}
    BY <1>1, <2>1 DEF IInv, CheckedInv
  <2> QED BY <1>2, <2>1, <2>2 DEF IInv, CheckedInv
<1>5. PublishInv'
  BY <1>3 DEF IInv, PublishInv
<1>6. \A p \in Requests, b \in Agents : Revoking(p, b)' => Revoking(p, b)
  BY <1>3 DEF Revoking, Event
<1>7. RevokingInv'
  BY <1>1, <1>2, <1>6 DEF IInv, RevokingInv, IsRevocationOf
<1>8. \A x \in {"register", "revoke"}, b \in Agents : Heard(x, b) => Heard(x, b)'
  BY <1>1, <1>3 DEF Heard, Event
<1>9. Heard("register", a)'
  BY <1>3 DEF Heard, Event
<1>10. RowsAreHeardOf'
  BY <1>2, <1>8, <1>9 DEF IInv, RowsAreHeardOf
<1>11. StreamMatchesRow'
  BY <1>1, <1>2 DEF IInv, StreamMatchesRow, IsRevocationOf
<1> QED BY <1>4, <1>5, <1>7, <1>10, <1>11 DEF IInv

\* What the API's three actions may leave, and where they lead.
LEMMA MachineFacts ==
  ASSUME NEW e \in Actions
  PROVE  /\ "revoked" \notin Source[e]
         /\ Target[e] # "unregistered"
         /\ Target[e] = "revoked" => e = "revoke"
         /\ e \in DOMAIN Source
BY DEF Actions, Source, Target, Active, NonFinal

\* The row is updated; the request goes on, or its reply is lost.
LEMMA UpdateStep ==
  ASSUME IInv, TypeOK', NEW q \in Requests, Update(q) \/ UpdateReplyLost(q)
  PROVE  IInv'
<1> DEFINE a == req[q].agent
           e == req[q].event
<1>1. /\ req[q].phase = "checked"
      /\ trustEvents' = trustEvents
      /\ unheard \subseteq unheard'
      /\ outdated \subseteq outdated'
      /\ Overtaken(q) => a \in outdated'
  BY DEF Update, UpdateReplyLost, UpdateRow, Silence, streams
<1>2. /\ e \in Actions /\ a \in Agents
      /\ status[a] # "unregistered"
      /\ a \notin outdated => status[a] \in Source[e]
  BY <1>1 DEF IInv, CheckedInv
<1>3. status'[a] = Target[e] /\ \A b \in Agents \ {a} : status'[b] = status[b]
  BY <1>2 DEF IInv, TypeOK, Update, UpdateReplyLost, UpdateRow
<1>4. /\ \A p \in Requests \ {q} : req'[p] = req[p]
      /\ req'[q].agent = a /\ req'[q].event = e
      /\ \/ req'[q].phase = AfterUpdate(e)
         \/ /\ req'[q].phase = "error"
            /\ e = "revoke" => Event(q) \in unheard'
  <2>1. CASE Update(q)
    <3>1. req' = [req EXCEPT ![q].phase = AfterUpdate(e)]
      BY <2>1 DEF Update, Answer
    <3>2. req \in [Requests -> Outcomes]
      BY DEF IInv, TypeOK, Outcomes
    <3>3. /\ \A p \in Requests \ {q} : req'[p] = req[p]
          /\ req'[q] = [req[q] EXCEPT !.phase = AfterUpdate(e)]
      BY <3>1, <3>2
    <3>4. req[q] \in Outcomes
      BY <3>2
    <3>5. /\ req'[q].agent = a /\ req'[q].event = e
          /\ req'[q].phase = AfterUpdate(e)
      BY <3>3, <3>4 DEF Outcomes
    <3> QED BY <3>3, <3>5
  <2>2. CASE UpdateReplyLost(q)
    BY <2>2 DEF IInv, TypeOK, UpdateReplyLost, Answer, AfterUpdate, Silence
  <2> QED BY <2>1, <2>2
<1>5. req'[q].phase # "checked" /\ (req'[q].phase = "publish" => e = "revoke")
  BY <1>4 DEF AfterUpdate
<1>6. CheckedInv'
  <2> SUFFICES ASSUME NEW p \in Requests, req'[p].phase = "checked"
               PROVE  /\ req'[p].event \in Actions
                      /\ req'[p].agent \in Agents
                      /\ status'[req'[p].agent] # "unregistered"
                      /\ req'[p].agent \notin outdated' =>
                            status'[req'[p].agent] \in Source[req'[p].event]
    BY DEF CheckedInv
  <2>1. p # q /\ req'[p] = req[p]
    BY <1>4, <1>5
  <2>2. CASE req[p].agent = a
    <3>1. a \in outdated'
      BY <1>1, <2>1, <2>2 DEF Overtaken
    <3> QED BY <1>2, <1>3, <2>1, <2>2, <3>1, MachineFacts DEF IInv, CheckedInv
  <2>3. CASE req[p].agent # a
    BY <1>1, <1>3, <2>1, <2>3 DEF IInv, CheckedInv
  <2> QED BY <2>2, <2>3
<1>7. PublishInv'
  BY <1>2, <1>4, <1>5 DEF IInv, PublishInv
<1>8. a \notin outdated => status[a] # "revoked"
  BY <1>2, MachineFacts
<1>9. \A p \in Requests \ {q}, b \in Agents : Revoking(p, b)' <=> Revoking(p, b)
  BY <1>4 DEF Revoking, Event
<1>10. \A b \in Agents : Revoking(q, b)' => b = a /\ e = "revoke"
  BY <1>4, <1>5 DEF Revoking, Event
<1>11. \A b \in Agents \ outdated, p \in Requests : Revoking(p, b) => b # a
  BY <1>8 DEF IInv, RevokingInv
<1>12. \A b \in Agents \ outdated, i \in DOMAIN trustEvents : IsRevocationOf(i, b) => b # a
  BY <1>8 DEF IInv, StreamMatchesRow
<1>13. RevokingInv'
  <2> SUFFICES ASSUME NEW b \in Agents \ outdated', NEW p \in Requests, Revoking(p, b)'
               PROVE  /\ status'[b] = "revoked"
                      /\ \A i \in DOMAIN trustEvents : ~IsRevocationOf(i, b)
                      /\ \A r \in Requests : Revoking(r, b)' => r = p
    BY <1>1 DEF RevokingInv, IsRevocationOf
  <2>1. CASE p = q
    <3>1. b = a /\ e = "revoke"
      BY <1>10, <2>1
    <3>2. status'[b] = "revoked"
      BY <1>3, <3>1 DEF Target
    <3> QED BY <1>1, <1>9, <1>11, <1>12, <2>1, <3>1, <3>2
  <2>2. CASE p # q
    <3>1. Revoking(p, b) /\ b # a
      BY <1>1, <1>9, <1>11, <2>2
    <3> QED BY <1>1, <1>3, <1>9, <1>10, <3>1 DEF IInv, RevokingInv
  <2> QED BY <2>1, <2>2
<1>14. \A x \in {"register", "revoke"}, b \in Agents : Heard(x, b) => Heard(x, b)'
  BY <1>1, <1>4 DEF Heard, Event
<1>15. \A b \in Agents : b = a /\ e = "revoke" => Heard("revoke", b)'
  BY <1>4 DEF Heard, Event, AfterUpdate
<1>16. RowsAreHeardOf'
  <2> SUFFICES ASSUME NEW b \in Agents
               PROVE  /\ status'[b] # "unregistered" => Heard("register", b)'
                      /\ status'[b] = "revoked" => Heard("revoke", b)'
    BY DEF RowsAreHeardOf
  <2>1. CASE b = a
    <3>1. Heard("register", b)'
      BY <1>2, <1>14, <2>1 DEF IInv, RowsAreHeardOf
    <3>2. status'[b] = "revoked" => Heard("revoke", b)'
      BY <1>2, <1>3, <1>15, <2>1, MachineFacts
    <3> QED BY <3>1, <3>2
  <2>2. CASE b # a
    BY <1>3, <1>14, <2>2 DEF IInv, RowsAreHeardOf
  <2> QED BY <2>1, <2>2
<1>17. StreamMatchesRow'
  BY <1>1, <1>3, <1>12 DEF IInv, StreamMatchesRow, IsRevocationOf
<1> QED BY <1>6, <1>7, <1>13, <1>16, <1>17 DEF IInv

LEMMA NextIInv == IInv /\ [Next]_vars => IInv'
<1> SUFFICES ASSUME IInv, [Next]_vars PROVE IInv'
  OBVIOUS
<1>1. ASSUME NEW q \in Requests, NEW a \in Agents,
             Register(q, a) \/ RegisterReplyLost(q, a)
      PROVE  IInv'
  BY <1>1, RegisterType, RegisterStep DEF IInv
<1>2. ASSUME NEW q \in Requests, NEW e \in Actions, NEW a \in Agents, Check(q, e, a)
      PROVE  IInv'
  BY <1>2, CheckType, CheckStep DEF IInv
<1>3. ASSUME NEW q \in Requests, NEW e \in Actions, NEW a \in Agents, Refuse(q, e, a)
      PROVE  IInv'
  <2>1. /\ UNCHANGED <<status, trustEvents, outdated, unheard>>
        /\ \A p \in Requests \ {q} : req'[p] = req[p]
        /\ req'[q].phase = "refused" /\ req[q].phase = "idle"
    BY <1>3 DEF IInv, TypeOK, Refuse, Answer, rowVars, streams
  <2> QED BY <1>3, <2>1, CheckType, OtherStep DEF IInv
<1>4. ASSUME NEW q \in Requests, Update(q) \/ UpdateReplyLost(q) PROVE IInv'
  BY <1>4, UpdateType, UpdateStep DEF IInv
<1>5. ASSUME NEW q \in Requests, Publish(q) PROVE IInv'
  <2>1. /\ trustEvents' = Append(trustEvents, Event(q))
        /\ UNCHANGED <<status, outdated, unheard>>
        /\ \A p \in Requests \ {q} : req'[p] = req[p]
        /\ req'[q].phase = "ok" /\ req[q].phase = "publish"
    BY <1>5 DEF IInv, TypeOK, Publish, Answer, rowVars
  <2> QED BY <1>5, <2>1, XaddType, TrustXaddStep DEF IInv
<1>6. ASSUME NEW q \in Requests, NEW scope \in Scopes, Query(q, scope) PROVE IInv'
  <2>1. /\ UNCHANGED <<status, trustEvents, outdated, unheard>>
        /\ \A p \in Requests \ {q} : req'[p] = req[p]
        /\ req'[q].phase \in {"ok", "announce"} /\ req[q].phase = "idle"
    BY <1>6 DEF IInv, TypeOK, Query, rowVars, streams
  <2> QED BY <1>6, <2>1, QueryType, OtherStep DEF IInv
<1>7. ASSUME NEW q \in Requests, Announce(q) PROVE IInv'
  <2>1. /\ UNCHANGED <<status, trustEvents, outdated, unheard>>
        /\ \A p \in Requests \ {q} : req'[p] = req[p]
        /\ req'[q].phase = "bulk" /\ req[q].phase = "announce"
    BY <1>7 DEF IInv, TypeOK, Announce, Answer, rowVars
  <2> QED BY <1>7, <2>1, XaddType, OtherStep DEF IInv
<1>8. ASSUME NEW q \in Requests, NEW a \in Agents, RevokeNext(q, a) PROVE IInv'
  <2>1. /\ UNCHANGED <<status, trustEvents, outdated, unheard>>
        /\ \A p \in Requests \ {q} : req'[p] = req[p]
        /\ req'[q].phase \in {"ok", "bulk"} /\ req[q].phase = "bulk"
    BY <1>8 DEF IInv, TypeOK, RevokeNext, AfterRevocation, rowVars
  <2> QED BY <1>8, <2>1, XaddType, OtherStep DEF IInv
<1>9. ASSUME NEW q \in Requests, Raises(q) PROVE IInv'
  <2>1. /\ UNCHANGED <<status, trustEvents, outdated>>
        /\ \A p \in Requests \ {q} : req'[p] = req[p]
        /\ req'[q].phase = "error"
    BY <1>9 DEF IInv, TypeOK, Raises, rowVars, streams
  <2>2. unheard \subseteq unheard' /\ (req[q].phase = "publish" => Event(q) \in unheard')
    BY <1>9 DEF Raises, Silence
  <2> QED BY <1>9, <2>1, <2>2, RaisesType, OtherStep DEF IInv
<1>10. ASSUME NEW q \in Requests, XaddReplyLost(q) PROVE IInv'
  <2>1. /\ UNCHANGED <<status, outdated, unheard>>
        /\ \A p \in Requests \ {q} : req'[p] = req[p]
        /\ req'[q].phase = "error"
    BY <1>10 DEF IInv, TypeOK, XaddReplyLost, Answer, rowVars
  <2>2. CASE req[q].phase = "publish"
    <3>1. trustEvents' = Append(trustEvents, Event(q))
      BY <1>10, <2>2 DEF XaddReplyLost
    <3> QED BY <1>10, <2>1, <2>2, <3>1, XaddType, TrustXaddStep DEF IInv
  <2>3. CASE req[q].phase # "publish"
    <3>1. trustEvents' = trustEvents
      BY <1>10, <2>3 DEF XaddReplyLost
    <3> QED BY <1>10, <2>1, <2>3, <3>1, XaddType, OtherStep DEF IInv
  <2> QED BY <2>2, <2>3
<1>11. CASE UNCHANGED vars
  <2>1. TypeOK'
    BY <1>11 DEF vars, IInv, TypeOK
  <2>2. CheckedInv' /\ PublishInv'
    BY <1>11 DEF vars, IInv, CheckedInv, PublishInv
  <2>3. RevokingInv'
    BY <1>11 DEF vars, IInv, RevokingInv, Revoking, Event, IsRevocationOf
  <2>4. RowsAreHeardOf'
    BY <1>11 DEF vars, IInv, RowsAreHeardOf, Heard, Event
  <2>5. StreamMatchesRow'
    BY <1>11 DEF vars, IInv, StreamMatchesRow, IsRevocationOf
  <2> QED BY <2>1, <2>2, <2>3, <2>4, <2>5 DEF IInv
<1> QED
  BY <1>1, <1>2, <1>3, <1>4, <1>5, <1>6, <1>7, <1>8, <1>9, <1>10, <1>11
  DEF Next, Serve, Break

LEMMA Invariance == Spec => []IInv
<1> QED BY InitIInv, NextIInv, PTL DEF Spec

-----------------------------------------------------------------------------
(***************************************************************************)
(* Whom a bulk revocation reaches.                                         *)
(***************************************************************************)
\* Limit newer rows hide the row of a from a bulk revocation.  Rows are only
\* added, so this stays so.
Behind(a) == \E i \in DOMAIN created : created[i] = a /\ Len(created) - i >= Limit

\* Whoever was in scope is revoked in the stream, still on the list, or behind.
Reached(q) == \A a \in targets[q] \ BulkRevoked : Behind(a) \/ a \in req[q].todo

Covered(q) ==
    /\ req[q].phase \in {"idle", "checked", "publish"} => targets[q] = {}
    /\ req[q].phase \in {"announce", "bulk"} => Reached(q)
    /\ req[q].phase = "ok" => \A a \in targets[q] \ BulkRevoked : Behind(a)

CoverInv == \A q \in Requests : Covered(q)

\* A row inserted at k moves those from k on by one place, and none else.
LEMMA InsertAtFacts ==
  ASSUME NEW S, NEW s \in Seq(S), NEW e \in S, NEW k \in 1..(Len(s) + 1)
  PROVE  /\ Len(InsertAt(s, k, e)) = Len(s) + 1
         /\ DOMAIN InsertAt(s, k, e) = 1..(Len(s) + 1)
         /\ \A i \in DOMAIN s : i < k => InsertAt(s, k, e)[i] = s[i]
         /\ \A i \in DOMAIN s : i >= k => InsertAt(s, k, e)[i + 1] = s[i]
<1> DEFINE before == SubSeq(s, 1, k - 1)
           after == SubSeq(s, k, Len(s))
<1>0. Len(s) \in Nat /\ DOMAIN s = 1..Len(s)
  BY LenProperties
<1>1. /\ before \in Seq(S) /\ Len(before) = k - 1
      /\ \A i \in 1..(k - 1) : before[i] = s[i]
  <2>1. \A i \in 1..(k - 1) : s[i] \in S
    BY <1>0
  <2>2. /\ before \in Seq(S)
        /\ Len(before) = IF 1 <= k - 1 THEN (k - 1) - 1 + 1 ELSE 0
        /\ \A i \in 1..((k - 1) - 1 + 1) : before[i] = s[1 + i - 1]
    BY <1>0, <2>1, SubSeqProperties
  <2> HIDE DEF before
  <2> QED BY <1>0, <2>2
<1>2. /\ after \in Seq(S) /\ Len(after) = Len(s) - k + 1
      /\ \A i \in 1..(Len(s) - k + 1) : after[i] = s[k + i - 1]
  <2>1. \A i \in k..Len(s) : s[i] \in S
    BY <1>0
  <2>2. /\ after \in Seq(S)
        /\ Len(after) = IF k <= Len(s) THEN Len(s) - k + 1 ELSE 0
        /\ \A i \in 1..(Len(s) - k + 1) : after[i] = s[k + i - 1]
    BY <1>0, <2>1, SubSeqProperties
  <2> HIDE DEF after
  <2> QED BY <1>0, <2>2
<1> HIDE DEF before, after
<1>3. <<e>> \in Seq(S) /\ Len(<<e>>) = 1
  OBVIOUS
<1>4. PICK front : front = before \o <<e>>
  OBVIOUS
<1>5. /\ front \in Seq(S) /\ Len(front) = k
      /\ \A i \in 1..(k - 1) : front[i] = s[i]
  <2>1. /\ front \in Seq(S)
        /\ Len(front) = Len(before) + Len(<<e>>)
        /\ \A i \in 1..(Len(before) + Len(<<e>>)) :
              front[i] = IF i <= Len(before) THEN before[i] ELSE <<e>>[i - Len(before)]
    BY <1>1, <1>3, <1>4, ConcatProperties
  <2> QED BY <1>0, <1>1, <1>3, <2>1
<1>6. PICK t : t = front \o after
  OBVIOUS
<1>7. /\ t \in Seq(S) /\ Len(t) = Len(s) + 1
      /\ \A i \in 1..(Len(s) + 1) : t[i] = IF i <= k THEN front[i] ELSE after[i - k]
  <2>1. /\ t \in Seq(S)
        /\ Len(t) = Len(front) + Len(after)
        /\ \A i \in 1..(Len(front) + Len(after)) :
              t[i] = IF i <= Len(front) THEN front[i] ELSE after[i - Len(front)]
    BY <1>2, <1>5, <1>6, ConcatProperties
  <2> QED BY <1>0, <1>2, <1>5, <2>1
<1>8. t = InsertAt(s, k, e)
  BY <1>4, <1>6 DEF InsertAt, before, after
<1>9. \A i \in DOMAIN s : i < k => t[i] = s[i]
  BY <1>0, <1>5, <1>7
<1>10. \A i \in DOMAIN s : i >= k => t[i + 1] = s[i]
  <2> SUFFICES ASSUME NEW i \in DOMAIN s, i >= k PROVE t[i + 1] = s[i]
    OBVIOUS
  <2>1. i \in Int /\ i + 1 \in 1..(Len(s) + 1) /\ ~(i + 1 <= k)
    BY <1>0
  <2>2. t[i + 1] = after[i + 1 - k]
    BY <1>7, <2>1
  <2>3. i + 1 - k \in 1..(Len(s) - k + 1) /\ k + (i + 1 - k) - 1 = i
    BY <1>0, <2>1
  <2> QED BY <1>2, <2>2, <2>3
<1>11. DOMAIN t = 1..(Len(s) + 1)
  BY <1>7, LenProperties
<1> QED BY <1>7, <1>8, <1>9, <1>10, <1>11

\* An insertion leaves a row behind Limit others, if it was.
LEMMA BehindKept ==
  ASSUME created \in Seq(Agents), NEW b \in Agents, InsertRow(b),
         NEW a \in Agents, Behind(a)
  PROVE  Behind(a)'
<1>1. PICK k \in 1..(Len(created) + 1) : created' = InsertAt(created, k, b)
  BY DEF InsertRow
<1>2. PICK i \in DOMAIN created : created[i] = a /\ Len(created) - i >= Limit
  BY DEF Behind
<1>3. Len(created) \in Nat /\ DOMAIN created = 1..Len(created) /\ Limit \in Nat
  BY LenProperties, RegistryAssumption
<1>4. /\ Len(created') = Len(created) + 1
      /\ DOMAIN created' = 1..(Len(created) + 1)
      /\ i < k => created'[i] = a
      /\ i >= k => created'[i + 1] = a
  BY <1>1, <1>2, InsertAtFacts
<1>5. CASE i < k
  <2>1. i \in DOMAIN created' /\ Len(created') - i >= Limit
    BY <1>2, <1>3, <1>4
  <2> QED BY <1>4, <1>5, <2>1 DEF Behind
<1>6. CASE i >= k
  <2>1. i + 1 \in DOMAIN created' /\ Len(created') - (i + 1) >= Limit
    BY <1>2, <1>3, <1>4
  <2> QED BY <1>4, <1>6, <2>1 DEF Behind
<1> QED BY <1>2, <1>3, <1>5, <1>6

\* A row that list_agents does not give back is behind Limit others.
LEMMA NewestFacts ==
  ASSUME created \in Seq(Agents), NEW a \in ToSet(created), a \notin ToSet(Newest)
  PROVE  Behind(a)
<1> DEFINE n == Len(created)
           size == IF Limit < n THEN Limit ELSE n
<1>1. n \in Nat /\ Limit \in Nat /\ size \in Nat /\ size <= n
      /\ (size = n \/ size = Limit) /\ DOMAIN created = 1..n
  BY LenProperties, RegistryAssumption
<1>2. PICK i \in 1..n : created[i] = a
  BY <1>1 DEF ToSet
<1>3. PICK r : r = Reverse(created)
  OBVIOUS
<1>4. \A j \in 1..n : r[j] = created[(n - j) + 1] /\ r[j] \in Agents
  BY <1>1, <1>3 DEF Reverse
<1>5. PICK s : s = SubSeq(r, 1, size)
  OBVIOUS
<1>6. Newest = s
  BY <1>3, <1>5 DEF Newest
<1> HIDE DEF n, size
<1>7. /\ s \in Seq(Agents)
      /\ Len(s) = size
      /\ \A j \in 1..size : s[j] = r[j]
  <2>1. \A j \in 1..size : r[j] \in Agents
    BY <1>1, <1>4
  <2>2. /\ s \in Seq(Agents)
        /\ Len(s) = IF 1 <= size THEN size - 1 + 1 ELSE 0
        /\ \A j \in 1..(size - 1 + 1) : s[j] = r[1 + j - 1]
    BY <1>1, <1>5, <2>1, SubSeqProperties
  <2> QED BY <1>1, <2>2
<1>8. DOMAIN s = 1..size
  BY <1>7, LenProperties
<1>9. ~((n - i) + 1 \in 1..size)
  <2> SUFFICES ASSUME (n - i) + 1 \in 1..size PROVE FALSE
    OBVIOUS
  <2>1. /\ (n - i) + 1 \in 1..n
        /\ (n - ((n - i) + 1)) + 1 = i
    BY <1>1, <1>2
  <2>2. s[(n - i) + 1] = a
    BY <1>2, <1>4, <1>7, <2>1
  <2> QED BY <1>6, <1>8, <2>2 DEF ToSet
<1>10. n - i >= Limit
  BY <1>1, <1>2, <1>9
<1> QED BY <1>1, <1>2, <1>10 DEF Behind, n

\* What one more message makes of the revocations in the stream.
LEMMA RevokedFacts ==
  ASSUME TypeOK, NEW q \in Requests
  PROVE  /\ vcRevoke' = Append(vcRevoke, Activated(q)) => BulkRevoked' = BulkRevoked
         /\ \A a \in req[q].todo :
              vcRevoke' = Append(vcRevoke, Revocation(a)) => BulkRevoked' = BulkRevoked \cup {a}
<1> DEFINE VcMessage == [kind : {"activated", "revoke"}, count : Nat,
                         agent : Agents \cup {NoAgent}]
           new == Len(vcRevoke) + 1
<1>0. vcRevoke \in Seq(VcMessage) /\ req[q].todo \subseteq Agents
  BY DEF TypeOK
<1> HIDE DEF VcMessage
<1>1. ASSUME NEW m \in VcMessage, vcRevoke' = Append(vcRevoke, m)
      PROVE  /\ DOMAIN vcRevoke' = DOMAIN vcRevoke \cup {new}
             /\ \A i \in DOMAIN vcRevoke : vcRevoke'[i] = vcRevoke[i]
             /\ vcRevoke'[new] = m
  BY <1>0, <1>1, AppendFacts
<1> HIDE DEF new
<1>2. ASSUME vcRevoke' = Append(vcRevoke, Activated(q))
      PROVE  BulkRevoked' = BulkRevoked
  <2>1. Activated(q) \in VcMessage
    <3>1. Cardinality(req[q].todo) \in Nat
      BY <1>0, RegistryAssumption, FS_Subset, FS_CardinalityType
    <3> QED BY <3>1 DEF Activated, VcMessage
  <2>2. PICK m \in VcMessage : m = Activated(q)
    BY <2>1
  <2>3. /\ DOMAIN vcRevoke' = DOMAIN vcRevoke \cup {new}
        /\ \A i \in DOMAIN vcRevoke : vcRevoke'[i] = vcRevoke[i]
        /\ vcRevoke'[new] = m
    BY <1>1, <1>2, <2>2
  <2>4. m.kind # "revoke"
    BY <2>2 DEF Activated
  <2> QED BY <2>3, <2>4 DEF BulkRevoked
<1>3. ASSUME NEW a \in req[q].todo, vcRevoke' = Append(vcRevoke, Revocation(a))
      PROVE  BulkRevoked' = BulkRevoked \cup {a}
  <2>1. Revocation(a) \in VcMessage
    BY <1>0 DEF Revocation, VcMessage
  <2>2. PICK m \in VcMessage : m = Revocation(a)
    BY <2>1
  <2>3. /\ DOMAIN vcRevoke' = DOMAIN vcRevoke \cup {new}
        /\ \A i \in DOMAIN vcRevoke : vcRevoke'[i] = vcRevoke[i]
        /\ vcRevoke'[new] = m
    BY <1>1, <1>3, <2>2
  <2>4. m.kind = "revoke" /\ m.agent = a
    BY <2>2 DEF Revocation
  <2> QED BY <2>3, <2>4 DEF BulkRevoked
<1> QED BY <1>2, <1>3

\* A step of q keeps the promises of the others.
LEMMA CoverFrame ==
  ASSUME TypeOK, CoverInv, NEW q \in Requests,
         \A p \in Requests \ {q} : req'[p] = req[p] /\ targets'[p] = targets[p],
         BulkRevoked \subseteq BulkRevoked',
         \A a \in Agents : Behind(a) => Behind(a)',
         Covered(q)'
  PROVE  CoverInv'
<1> SUFFICES ASSUME NEW p \in Requests \ {q} PROVE Covered(p)'
  BY DEF CoverInv
<1>1. req'[p] = req[p] /\ targets'[p] = targets[p] /\ targets[p] \subseteq Agents
  BY DEF TypeOK
<1>2. Covered(p)
  BY DEF CoverInv
<1> QED BY <1>1, <1>2 DEF Covered, Reached

\* The query: whom it leaves out of its list is behind.
LEMMA QueryCover ==
  ASSUME TypeOK, CoverInv, NEW q \in Requests, NEW scope \in Scopes, Query(q, scope)
  PROVE  CoverInv'
<1>1. /\ UNCHANGED <<status, created, vcRevoke>>
      /\ \A p \in Requests \ {q} : req'[p] = req[p] /\ targets'[p] = targets[p]
  BY DEF TypeOK, Query, rowVars, streams
<1>2. /\ req'[q].todo = Matching(scope)
      /\ req'[q].phase = IF Matching(scope) = {} THEN "ok" ELSE "announce"
      /\ targets'[q] = {a \in scope \cap ToSet(created) : NotRevoked(a)}
  BY DEF TypeOK, Query
<1>3. \A a \in targets'[q] : a \notin Matching(scope) => Behind(a)
  <2> SUFFICES ASSUME NEW a \in targets'[q], a \notin Matching(scope) PROVE Behind(a)
    OBVIOUS
  <2>1. a \in ToSet(created) /\ a \notin ToSet(Newest)
    BY <1>2 DEF Matching
  <2> QED BY <2>1, NewestFacts DEF TypeOK
<1>4. BulkRevoked' = BulkRevoked /\ \A a : Behind(a)' <=> Behind(a)
  BY <1>1 DEF BulkRevoked, Behind
<1>5. Covered(q)'
  BY <1>2, <1>3, <1>4 DEF Covered, Reached
<1> QED BY <1>1, <1>4, <1>5, CoverFrame

\* A row appears, and its request takes no part in this.
LEMMA RegisterCover ==
  ASSUME TypeOK, CoverInv, NEW q \in Requests, NEW b \in Agents,
         Register(q, b) \/ RegisterReplyLost(q, b)
  PROVE  CoverInv'
<1>1. /\ InsertRow(b) /\ UNCHANGED <<vcRevoke, targets>>
      /\ req[q].phase = "idle"
  BY DEF Register, RegisterReplyLost, streams
<1>2. /\ \A p \in Requests \ {q} : req'[p] = req[p]
      /\ req'[q].phase \in {"publish", "error"}
  BY DEF TypeOK, Register, RegisterReplyLost
<1>3. targets[q] = {}
  BY <1>1 DEF CoverInv, Covered
<1>4. \A a \in Agents : Behind(a) => Behind(a)'
  BY <1>1, BehindKept DEF TypeOK
<1>5. BulkRevoked' = BulkRevoked
  BY <1>1 DEF BulkRevoked
<1>6. Covered(q)'
  BY <1>1, <1>2, <1>3 DEF Covered
<1> QED BY <1>1, <1>2, <1>4, <1>5, <1>6, CoverFrame

\* A revocation takes one agent off the list, and into the stream.
LEMMA RevokeCover ==
  ASSUME TypeOK, CoverInv, NEW q \in Requests, NEW a \in req[q].todo,
         req[q].phase = "bulk",
         vcRevoke' = Append(vcRevoke, Revocation(a)),
         UNCHANGED <<created, targets>>,
         \A p \in Requests \ {q} : req'[p] = req[p],
         req'[q].todo = req[q].todo \ {a},
         req'[q].phase \in {AfterRevocation(q, a), "error"}
  PROVE  CoverInv'
<1>1. BulkRevoked' = BulkRevoked \cup {a}
  BY RevokedFacts
<1>2. \A b : Behind(b)' <=> Behind(b)
  BY DEF Behind
<1>3. Reached(q)
  BY DEF CoverInv, Covered
<1>4. \A b \in targets[q] \ BulkRevoked' : Behind(b)' \/ b \in req[q].todo \ {a}
  BY <1>1, <1>2, <1>3 DEF Reached
<1>5. Covered(q)'
  <2>1. CASE req'[q].phase = "ok"
    <3>1. req[q].todo = {a}
      BY <2>1 DEF AfterRevocation
    <3> QED BY <1>4, <2>1, <3>1 DEF Covered
  <2>2. CASE req'[q].phase = "bulk"
    BY <1>4, <2>2 DEF Covered, Reached
  <2>3. CASE req'[q].phase = "error"
    BY <2>3 DEF Covered
  <2> QED BY <2>1, <2>2, <2>3 DEF AfterRevocation
<1> QED BY <1>1, <1>2, <1>5, CoverFrame

\* Every other step leaves the rows' order and the revocations alone.
LEMMA OtherCover ==
  ASSUME TypeOK, CoverInv, NEW q \in Requests,
         UNCHANGED <<created, targets>>,
         BulkRevoked' = BulkRevoked,
         \A p \in Requests \ {q} : req'[p] = req[p],
         \/ req'[q].phase \in {"refused", "error"}
         \/ /\ req[q].phase \in {"idle", "checked", "publish"}
            /\ req'[q].phase \in {"checked", "publish", "ok"}
         \/ /\ req[q].phase = "announce" /\ req'[q].phase = "bulk"
            /\ req'[q].todo = req[q].todo
  PROVE  CoverInv'
<1>1. \A b : Behind(b)' <=> Behind(b)
  BY DEF Behind
<1>2. Covered(q)
  BY DEF CoverInv
<1>3. Covered(q)'
  BY <1>1, <1>2 DEF Covered, Reached
<1> QED BY <1>1, <1>3, CoverFrame

LEMMA NextCoverInv == IInv /\ CoverInv /\ [Next]_vars => CoverInv'
<1> SUFFICES ASSUME IInv, CoverInv, [Next]_vars PROVE CoverInv'
  OBVIOUS
<1>0. TypeOK
  BY DEF IInv
<1>1. ASSUME NEW q \in Requests, NEW a \in Agents,
             Register(q, a) \/ RegisterReplyLost(q, a)
      PROVE  CoverInv'
  BY <1>0, <1>1, RegisterCover
<1>2. ASSUME NEW q \in Requests, NEW e \in Actions, NEW a \in Agents,
             Check(q, e, a) \/ Refuse(q, e, a)
      PROVE  CoverInv'
  <2>1. /\ UNCHANGED <<created, targets, vcRevoke>>
        /\ \A p \in Requests \ {q} : req'[p] = req[p]
        /\ req[q].phase = "idle" /\ req'[q].phase \in {"checked", "refused"}
    BY <1>0, <1>2 DEF TypeOK, Check, Refuse, Answer, rowVars, streams
  <2>2. BulkRevoked' = BulkRevoked
    BY <2>1 DEF BulkRevoked
  <2> QED BY <1>0, <2>1, <2>2, OtherCover
<1>3. ASSUME NEW q \in Requests, Update(q) \/ UpdateReplyLost(q) PROVE CoverInv'
  <2>1. PICK ph \in {"publish", "ok", "error"} : req' = [req EXCEPT ![q].phase = ph]
    BY <1>3 DEF Update, UpdateReplyLost, Answer, AfterUpdate
  <2>2. /\ UNCHANGED <<created, targets, vcRevoke>>
        /\ \A p \in Requests \ {q} : req'[p] = req[p]
        /\ req[q].phase = "checked" /\ req'[q].phase = ph
    BY <1>0, <1>3, <2>1 DEF TypeOK, Update, UpdateReplyLost, UpdateRow, streams
  <2>3. BulkRevoked' = BulkRevoked
    BY <2>2 DEF BulkRevoked
  <2> QED BY <1>0, <2>2, <2>3, OtherCover
<1>4. ASSUME NEW q \in Requests, Publish(q) PROVE CoverInv'
  <2>1. /\ UNCHANGED <<created, targets, vcRevoke>>
        /\ \A p \in Requests \ {q} : req'[p] = req[p]
        /\ req[q].phase = "publish" /\ req'[q].phase = "ok"
    BY <1>0, <1>4 DEF TypeOK, Publish, Answer, rowVars
  <2>2. BulkRevoked' = BulkRevoked
    BY <2>1 DEF BulkRevoked
  <2> QED BY <1>0, <2>1, <2>2, OtherCover
<1>5. ASSUME NEW q \in Requests, NEW scope \in Scopes, Query(q, scope) PROVE CoverInv'
  BY <1>0, <1>5, QueryCover
<1>6. ASSUME NEW q \in Requests, Announce(q) PROVE CoverInv'
  <2>1. /\ UNCHANGED <<created, targets>>
        /\ vcRevoke' = Append(vcRevoke, Activated(q))
        /\ \A p \in Requests \ {q} : req'[p] = req[p]
        /\ req[q].phase = "announce" /\ req'[q].phase = "bulk"
        /\ req'[q].todo = req[q].todo
    BY <1>0, <1>6 DEF TypeOK, Announce, Answer, rowVars
  <2>2. BulkRevoked' = BulkRevoked
    BY <1>0, <2>1, RevokedFacts
  <2> QED BY <1>0, <2>1, <2>2, OtherCover
<1>7. ASSUME NEW q \in Requests, NEW a \in Agents, RevokeNext(q, a) PROVE CoverInv'
  <2>1. /\ a \in req[q].todo /\ req[q].phase = "bulk"
        /\ vcRevoke' = Append(vcRevoke, Revocation(a))
        /\ UNCHANGED <<created, targets>>
        /\ \A p \in Requests \ {q} : req'[p] = req[p]
        /\ req'[q].todo = req[q].todo \ {a}
        /\ req'[q].phase = AfterRevocation(q, a)
    BY <1>0, <1>7 DEF TypeOK, RevokeNext, rowVars
  <2> QED BY <1>0, <2>1, RevokeCover
<1>8. ASSUME NEW q \in Requests, Raises(q) PROVE CoverInv'
  <2>1. /\ UNCHANGED <<created, targets, vcRevoke>>
        /\ \A p \in Requests \ {q} : req'[p] = req[p]
        /\ req'[q].phase = "error"
    BY <1>0, <1>8 DEF TypeOK, Raises, rowVars, streams
  <2>2. BulkRevoked' = BulkRevoked
    BY <2>1 DEF BulkRevoked
  <2> QED BY <1>0, <2>1, <2>2, OtherCover
<1>9. ASSUME NEW q \in Requests, XaddReplyLost(q) PROVE CoverInv'
  <2>1. /\ UNCHANGED <<created, targets>>
        /\ \A p \in Requests \ {q} : req'[p] = req[p]
        /\ req'[q].phase = "error"
    BY <1>0, <1>9 DEF TypeOK, XaddReplyLost, Answer, rowVars
  <2>2. CASE req[q].phase = "publish"
    <3>1. BulkRevoked' = BulkRevoked
      BY <1>9, <2>2 DEF XaddReplyLost, BulkRevoked
    <3> QED BY <1>0, <2>1, <3>1, OtherCover
  <2>3. CASE req[q].phase = "announce"
    <3>1. vcRevoke' = Append(vcRevoke, Activated(q))
      BY <1>9, <2>3 DEF XaddReplyLost
    <3>2. BulkRevoked' = BulkRevoked
      BY <1>0, <3>1, RevokedFacts
    <3> QED BY <1>0, <2>1, <3>2, OtherCover
  <2>4. CASE req[q].phase = "bulk"
    <3>1. PICK a \in req[q].todo :
            /\ vcRevoke' = Append(vcRevoke, Revocation(a))
            /\ req' = [req EXCEPT ![q].phase = "error", ![q].todo = req[q].todo \ {a}]
      BY <1>9, <2>4 DEF XaddReplyLost
    <3>2. req'[q].todo = req[q].todo \ {a}
      BY <1>0, <3>1 DEF TypeOK
    <3> QED BY <1>0, <2>1, <2>4, <3>1, <3>2, RevokeCover
  <2> QED BY <1>9, <2>2, <2>3, <2>4 DEF XaddReplyLost
<1>10. CASE UNCHANGED vars
  <2>1. BulkRevoked' = BulkRevoked /\ \A b : Behind(b)' <=> Behind(b)
    BY <1>10 DEF vars, BulkRevoked, Behind
  <2> QED BY <1>10, <2>1 DEF vars, CoverInv, Covered, Reached
<1> QED
  BY <1>1, <1>2, <1>3, <1>4, <1>5, <1>6, <1>7, <1>8, <1>9, <1>10
  DEF Next, Serve, Break

LEMMA CoverInvariance == Spec => []CoverInv
<1>1. Init => CoverInv
  BY DEF Init, Unhandled, CoverInv, Covered
<1> QED BY <1>1, Invariance, NextCoverInv, PTL DEF Spec

-----------------------------------------------------------------------------
(***************************************************************************)
(* The announced numbers of revocations.                                   *)
(***************************************************************************)
Counts == [i \in DOMAIN vcRevoke |-> vcRevoke[i].count]
Of(k) == {i \in DOMAIN vcRevoke : vcRevoke[i].kind = k}
Announced == Total(Counts, Of("activated"))

\* For locals r of the requests: those that still owe what is on their lists.
Owes(r, q) == r[q].phase \in {"bulk", "error"}
Owing(r) == {q \in Requests : Owes(r, q)}
Dues(r) == [q \in Requests |-> Cardinality(r[q].todo)]
Owed(r) == Total(Dues(r), Owing(r))
OwedBy(r, q) == IF Owes(r, q) THEN Dues(r)[q] ELSE 0

Accounted == Announced = Cardinality(Of("revoke")) + Owed(req)

AccountInv ==
    /\ IsFiniteSet(Owing(req))
    /\ \A q \in Requests : req[q].phase \in {"idle", "checked", "publish"} => req[q].todo = {}
    /\ Accounted

\* The messages of the stream are finitely many, with their counts.
LEMMA LogFacts ==
  ASSUME TypeOK
  PROVE  /\ IsFiniteSet(DOMAIN vcRevoke)
         /\ Counts \in [DOMAIN vcRevoke -> Nat]
         /\ \A i \in DOMAIN vcRevoke : vcRevoke[i].count \in Nat
         /\ \A k : IsFiniteSet(Of(k)) /\ Cardinality(Of(k)) \in Nat
         /\ Announced \in Nat
<1>1. /\ DOMAIN vcRevoke = 1..Len(vcRevoke) /\ Len(vcRevoke) \in Nat
      /\ \A i \in DOMAIN vcRevoke : vcRevoke[i].count \in Nat
  <2> DEFINE VcMessage == [kind : {"activated", "revoke"}, count : Nat,
                           agent : Agents \cup {NoAgent}]
  <2>1. \A m \in VcMessage : m.count \in Nat
    OBVIOUS
  <2>2. vcRevoke \in Seq(VcMessage)
    BY DEF TypeOK
  <2> HIDE DEF VcMessage
  <2>3. /\ DOMAIN vcRevoke = 1..Len(vcRevoke) /\ Len(vcRevoke) \in Nat
        /\ \A i \in DOMAIN vcRevoke : vcRevoke[i] \in VcMessage
    BY <2>2, LenProperties
  <2> QED BY <2>1, <2>3
<1>2. IsFiniteSet(DOMAIN vcRevoke)
  BY <1>1, FS_Interval
<1>3. Counts \in [DOMAIN vcRevoke -> Nat]
  BY <1>1 DEF Counts
<1>4. \A k : Of(k) \in SUBSET DOMAIN vcRevoke
  BY DEF Of
<1>5. \A k : IsFiniteSet(Of(k)) /\ Cardinality(Of(k)) \in Nat
  BY <1>2, <1>4, FS_Subset, FS_CardinalityType
<1>6. Announced \in Nat
  BY <1>3, <1>4, <1>5, TotalFacts DEF Announced
<1> QED BY <1>1, <1>2, <1>3, <1>5, <1>6

\* The lists are finite sets of agents.
LEMMA ListFacts ==
  ASSUME NEW r \in [Requests -> Outcomes], NEW q \in Requests
  PROVE  /\ IsFiniteSet(r[q].todo) /\ Cardinality(r[q].todo) \in Nat
         /\ Dues(r) \in [Requests -> Nat]
         /\ OwedBy(r, q) \in Nat
<1>1. \A p \in Requests : IsFiniteSet(r[p].todo) /\ Cardinality(r[p].todo) \in Nat
  BY RegistryAssumption, FS_Subset, FS_CardinalityType DEF Outcomes
<1> QED BY <1>1 DEF Dues, OwedBy

\* The sums of BulkAccounted are these totals.
LEMMA SumsAreTotals == TypeOK /\ AccountInv => BulkAccounted
<1> SUFFICES ASSUME TypeOK, AccountInv PROVE BulkAccounted
  OBVIOUS
<1> DEFINE Number(i) == vcRevoke[i].count
           Debt(q) == Cardinality(req[q].todo)
           A == Of("activated")
           W == Owing(req)
<1>1. \A s : s # {} => Pick(s) \in s
  BY DEF Pick
<1>2. MapThenSumSet(Number, A) = Announced
  <2> DEFINE Fold(sum) == [s \in SUBSET A |->
                 IF s = {} THEN 0 ELSE Number(Pick(s)) + sum[s \ {Pick(s)}]]
  <2>1. MapThenSumSet(Number, A) = (CHOOSE sum : sum = Fold(sum))[A]
    BY DEF MapThenSumSet, MapThenFoldSet, Pick
  <2>2. PICK f : f = [x \in A |-> Number(x)]
    OBVIOUS
  <2>3. IsFiniteSet(A) /\ f \in [A -> Nat]
    BY <2>2, LogFacts DEF Of
  <2>4. \A sum : IsSum(sum, f, A) <=> sum = Fold(sum)
    <3> DEFINE Other(sum) == [s \in SUBSET A |->
                 IF s = {} THEN 0 ELSE f[Pick(s)] + sum[s \ {Pick(s)}]]
    <3>1. \A s \in SUBSET A : s # {} => f[Pick(s)] = Number(Pick(s))
      BY <1>1, <2>2
    <3>2. \A sum : Other(sum) = Fold(sum)
      BY <3>1
    <3>3. \A sum : IsSum(sum, f, A) <=> sum = Other(sum)
      BY DEF IsSum
    <3> HIDE DEF Other, Fold
    <3> QED BY <3>2, <3>3
  <2> HIDE DEF Fold
  <2>5. PICK c : c = CHOOSE sum : sum = Fold(sum)
    OBVIOUS
  <2>6. c = Fold(c)
    <3>1. \E sum : sum = Fold(sum)
      BY <2>3, <2>4, SumIsTotal
    <3> QED BY <2>5, <3>1
  <2>7. MapThenSumSet(Number, A) = Total(f, A)
    <3>1. c[A] = Total(f, A)
      BY <2>3, <2>4, <2>6, SumIsTotal
    <3>2. MapThenSumSet(Number, A) = c[A]
      BY <2>1, <2>5
    <3> QED BY <3>1, <3>2
  <2>8. \A i \in A : f[i] = Counts[i]
    BY <2>2 DEF Counts, Of
  <2> QED BY <2>7, <2>8, TotalAgrees DEF Announced
<1>3. MapThenSumSet(Debt, W) = Owed(req)
  <2> DEFINE Fold(sum) == [s \in SUBSET W |->
                 IF s = {} THEN 0 ELSE Debt(Pick(s)) + sum[s \ {Pick(s)}]]
  <2>1. MapThenSumSet(Debt, W) = (CHOOSE sum : sum = Fold(sum))[W]
    BY DEF MapThenSumSet, MapThenFoldSet, Pick
  <2>2. PICK f : f = [x \in W |-> Debt(x)]
    OBVIOUS
  <2>3. IsFiniteSet(W) /\ f \in [W -> Nat]
    BY <2>2, ListFacts DEF AccountInv, Owing, TypeOK, Outcomes
  <2>4. \A sum : IsSum(sum, f, W) <=> sum = Fold(sum)
    <3> DEFINE Other(sum) == [s \in SUBSET W |->
                 IF s = {} THEN 0 ELSE f[Pick(s)] + sum[s \ {Pick(s)}]]
    <3>1. \A s \in SUBSET W : s # {} => f[Pick(s)] = Debt(Pick(s))
      BY <1>1, <2>2
    <3>2. \A sum : Other(sum) = Fold(sum)
      BY <3>1
    <3>3. \A sum : IsSum(sum, f, W) <=> sum = Other(sum)
      BY DEF IsSum
    <3> HIDE DEF Other, Fold
    <3> QED BY <3>2, <3>3
  <2> HIDE DEF Fold
  <2>5. PICK c : c = CHOOSE sum : sum = Fold(sum)
    OBVIOUS
  <2>6. c = Fold(c)
    <3>1. \E sum : sum = Fold(sum)
      BY <2>3, <2>4, SumIsTotal
    <3> QED BY <2>5, <3>1
  <2>7. MapThenSumSet(Debt, W) = Total(f, W)
    <3>1. c[W] = Total(f, W)
      BY <2>3, <2>4, <2>6, SumIsTotal
    <3>2. MapThenSumSet(Debt, W) = c[W]
      BY <2>1, <2>5
    <3> QED BY <3>1, <3>2
  <2>8. \A q \in W : f[q] = Dues(req)[q]
    BY <2>2 DEF Dues, Owing
  <2> QED BY <2>7, <2>8, TotalAgrees DEF Owed
<1>4. MapThenSumSet(Number, A) = Cardinality(Of("revoke")) + MapThenSumSet(Debt, W)
  BY <1>2, <1>3 DEF AccountInv, Accounted
<1> QED BY <1>4 DEF BulkAccounted, Of, Owing, Owes

\* A step of q changes what is owed by what q owes.
LEMMA OwedStep ==
  ASSUME NEW r \in [Requests -> Outcomes], NEW s \in [Requests -> Outcomes],
         IsFiniteSet(Owing(r)), NEW q \in Requests,
         \A p \in Requests \ {q} : s[p] = r[p]
  PROVE  /\ IsFiniteSet(Owing(s))
         /\ Owed(r) \in Nat /\ Owed(s) \in Nat
         /\ Owed(s) + OwedBy(r, q) = Owed(r) + OwedBy(s, q)
<1> DEFINE Others == Owing(r) \ {q}
<1>1. IsFiniteSet(Others) /\ Others \subseteq Requests /\ q \notin Others
  BY FS_RemoveElement DEF Owing
<1>2. Others = Owing(s) \ {q} /\ \A p \in Others : Dues(s)[p] = Dues(r)[p]
  BY DEF Owing, Owes, Dues
<1>3. Owing(r) = (IF Owes(r, q) THEN Others \cup {q} ELSE Others)
  BY DEF Owing
<1>4. Owing(s) = (IF Owes(s, q) THEN Others \cup {q} ELSE Others)
  BY <1>2 DEF Owing
<1> HIDE DEF Others
<1>5. IsFiniteSet(Owing(s))
  BY <1>1, <1>4, FS_AddElement
<1>6. Total(Dues(s), Others) = Total(Dues(r), Others)
  BY <1>2, TotalAgrees
<1>7. ASSUME NEW t \in {r, s}
      PROVE  /\ Dues(t)[q] \in Nat
             /\ Total(Dues(t), Others) \in Nat
             /\ Total(Dues(t), Others \cup {q}) = Total(Dues(t), Others) + Dues(t)[q]
  <2>1. Dues(t) \in [Requests -> Nat]
    BY ListFacts
  <2> QED BY <1>1, <2>1, TotalFacts
<1>8. ASSUME NEW t \in {r, s}
      PROVE  Owed(t) \in Nat /\ Owed(t) = Total(Dues(t), Others) + OwedBy(t, q)
  <2>1. Owing(t) = (IF Owes(t, q) THEN Others \cup {q} ELSE Others)
    BY <1>3, <1>4
  <2>2. Owed(t) = Total(Dues(t), Others) + OwedBy(t, q)
    <3>1. CASE Owes(t, q)
      BY <1>7, <2>1, <3>1 DEF Owed, OwedBy
    <3>2. CASE ~Owes(t, q)
      BY <1>7, <2>1, <3>2 DEF Owed, OwedBy
    <3> QED BY <3>1, <3>2
  <2>3. OwedBy(t, q) \in Nat
    BY ListFacts
  <2> QED BY <1>7, <2>2, <2>3
<1>9. OwedBy(r, q) \in Nat /\ OwedBy(s, q) \in Nat
  BY ListFacts
<1>10. Total(Dues(r), Others) \in Nat
  BY <1>7
<1> QED BY <1>5, <1>6, <1>8, <1>9, <1>10

\* What a message adds to the numbers announced and to the revocations.
LEMMA LogStep ==
  ASSUME TypeOK, TypeOK', NEW m, vcRevoke' = Append(vcRevoke, m),
         m \in [kind : {"activated", "revoke"}, count : Nat, agent : Agents \cup {NoAgent}]
  PROVE  /\ m.kind = "activated" =>
               /\ Announced' = Announced + m.count
               /\ Cardinality(Of("revoke"))' = Cardinality(Of("revoke"))
         /\ m.kind = "revoke" =>
               /\ Announced' = Announced
               /\ Cardinality(Of("revoke"))' = Cardinality(Of("revoke")) + 1
<1> DEFINE VcMessage == [kind : {"activated", "revoke"}, count : Nat,
                         agent : Agents \cup {NoAgent}]
           new == Len(vcRevoke) + 1
<1>1. /\ DOMAIN vcRevoke' = DOMAIN vcRevoke \cup {new}
      /\ \A i \in DOMAIN vcRevoke : vcRevoke'[i] = vcRevoke[i] /\ i # new
      /\ vcRevoke'[new] = m
  <2>1. vcRevoke \in Seq(VcMessage) /\ m \in VcMessage
    BY DEF TypeOK
  <2> HIDE DEF VcMessage
  <2> QED BY <2>1, AppendFacts
<1> HIDE DEF new
<1>2. \A k : Of(k)' = IF m.kind = k THEN Of(k) \cup {new} ELSE Of(k)
  BY <1>1 DEF Of
<1>3. /\ \A k : IsFiniteSet(Of(k)) /\ Cardinality(Of(k)) \in Nat /\ new \notin Of(k)
      /\ Announced \in Nat
  BY <1>1, LogFacts DEF Of
<1>4. PICK f, D : f = Counts' /\ D = DOMAIN vcRevoke' /\ f \in [D -> Nat]
  <2>1. Counts' \in [DOMAIN vcRevoke' -> Nat]
    BY <1>1, LogFacts DEF Counts
  <2> QED BY <2>1
<1>5. /\ \A i \in Of("activated") : f[i] = Counts[i]
      /\ f[new] = m.count
  BY <1>1, <1>4 DEF Counts, Of
<1>6. Total(f, Of("activated")) = Announced
  BY <1>5, TotalAgrees DEF Announced
<1>7. Announced' = Total(f, Of("activated")')
  BY <1>4 DEF Announced
<1>8. /\ Of("activated") \in SUBSET D
      /\ new \in D \ Of("activated")
      /\ IsFiniteSet(Of("activated"))
  BY <1>1, <1>3, <1>4 DEF Of
<1>9. Total(f, Of("activated") \cup {new}) = Total(f, Of("activated")) + f[new]
  <2>1. PICK old, k : old = Of("activated") /\ k = new
    OBVIOUS
  <2>2. /\ f \in [D -> Nat] /\ old \in SUBSET D /\ k \in D \ old
        /\ IsFiniteSet(old)
    BY <1>4, <1>8, <2>1
  <2>3. Total(f, old \cup {k}) = Total(f, old) + f[k]
    BY ONLY <2>2, TotalFacts
  <2> QED BY <2>1, <2>3
<1>10. Cardinality(Of("revoke") \cup {new}) = Cardinality(Of("revoke")) + 1
  BY <1>3, FS_AddElement
<1>11. Cardinality(Of("revoke"))' = Cardinality(Of("revoke")')
  OBVIOUS
<1>12. CASE m.kind = "activated"
  BY <1>2, <1>5, <1>6, <1>7, <1>9, <1>11, <1>12
<1>13. CASE m.kind = "revoke"
  BY <1>2, <1>6, <1>7, <1>10, <1>11, <1>13
<1> QED BY <1>12, <1>13

\* A step of q that sends no revocation message, and neither begins nor ends
\* what q owes.
LEMMA QuietAccount ==
  ASSUME TypeOK, TypeOK', AccountInv, NEW q \in Requests,
         vcRevoke' = vcRevoke,
         \A p \in Requests \ {q} : req'[p] = req[p],
         OwedBy(req', q) = OwedBy(req, q),
         req'[q].phase \in {"idle", "checked", "publish"} => req'[q].todo = {}
  PROVE  AccountInv'
<1>1. req \in [Requests -> Outcomes] /\ req' \in [Requests -> Outcomes]
  BY DEF TypeOK, Outcomes
<1>2. PICK r, s : r = req /\ s = req'
  OBVIOUS
<1>3. /\ IsFiniteSet(Owing(s)) /\ Owed(r) \in Nat /\ Owed(s) \in Nat
      /\ Owed(s) + OwedBy(r, q) = Owed(r) + OwedBy(s, q)
  BY <1>1, <1>2, OwedStep DEF AccountInv
<1>4. OwedBy(r, q) \in Nat
  BY <1>1, <1>2, ListFacts
<1>5. Owed(s) = Owed(r)
  BY <1>2, <1>3, <1>4
<1>6. Announced' = Announced /\ Cardinality(Of("revoke"))' = Cardinality(Of("revoke"))
  BY DEF Announced, Counts, Of
<1>7. Accounted'
  BY <1>2, <1>5, <1>6 DEF AccountInv, Accounted
<1>8. IsFiniteSet(Owing(req))'
  BY <1>2, <1>3
<1> QED BY <1>7, <1>8 DEF AccountInv

\* The announcement: from now on q owes the number it announced.
LEMMA AnnounceAccount ==
  ASSUME TypeOK, TypeOK', AccountInv, NEW q \in Requests,
         req[q].phase = "announce",
         vcRevoke' = Append(vcRevoke, Activated(q)),
         \A p \in Requests \ {q} : req'[p] = req[p],
         req'[q].phase \in {"bulk", "error"},
         req'[q].todo = req[q].todo
  PROVE  AccountInv'
<1>1. req \in [Requests -> Outcomes] /\ req' \in [Requests -> Outcomes]
  BY DEF TypeOK, Outcomes
<1>2. PICK r, s : r = req /\ s = req'
  OBVIOUS
<1>3. /\ IsFiniteSet(Owing(s)) /\ Owed(r) \in Nat /\ Owed(s) \in Nat
      /\ Owed(s) + OwedBy(r, q) = Owed(r) + OwedBy(s, q)
  BY <1>1, <1>2, OwedStep DEF AccountInv
<1>4. PICK n : n = Cardinality(req[q].todo)
  OBVIOUS
<1>5. n \in Nat /\ OwedBy(r, q) = 0 /\ OwedBy(s, q) = n
  <2>1. n \in Nat
    BY <1>1, <1>4, ListFacts
  <2> QED BY <1>2, <1>4, <2>1 DEF OwedBy, Owes, Dues
<1>6. PICK m : m = Activated(q)
  OBVIOUS
<1>7. /\ m \in [kind : {"activated", "revoke"}, count : Nat, agent : Agents \cup {NoAgent}]
      /\ m.kind = "activated" /\ m.count = n
  BY <1>4, <1>5, <1>6 DEF Activated
<1>8. /\ Announced' = Announced + n
      /\ Cardinality(Of("revoke"))' = Cardinality(Of("revoke"))
  BY <1>6, <1>7, LogStep
<1>9. Announced \in Nat /\ Cardinality(Of("revoke")) \in Nat
  BY LogFacts
<1>10. Accounted'
  BY <1>2, <1>3, <1>5, <1>8, <1>9 DEF AccountInv, Accounted
<1>11. IsFiniteSet(Owing(req))'
  BY <1>2, <1>3
<1> QED BY <1>10, <1>11 DEF AccountInv

\* A revocation: one more in the stream, one less owed.
LEMMA RevokeAccount ==
  ASSUME TypeOK, TypeOK', AccountInv, NEW q \in Requests, NEW a \in req[q].todo,
         req[q].phase = "bulk",
         vcRevoke' = Append(vcRevoke, Revocation(a)),
         \A p \in Requests \ {q} : req'[p] = req[p],
         req'[q].todo = req[q].todo \ {a},
         req'[q].phase \in {AfterRevocation(q, a), "error"}
  PROVE  AccountInv'
<1>1. req \in [Requests -> Outcomes] /\ req' \in [Requests -> Outcomes]
  BY DEF TypeOK, Outcomes
<1>2. PICK r, s : r = req /\ s = req'
  OBVIOUS
<1>3. /\ IsFiniteSet(Owing(s)) /\ Owed(r) \in Nat /\ Owed(s) \in Nat
      /\ Owed(s) + OwedBy(r, q) = Owed(r) + OwedBy(s, q)
  BY <1>1, <1>2, OwedStep DEF AccountInv
<1>4. PICK todo : todo = req[q].todo
  OBVIOUS
<1>5. /\ Cardinality(todo) \in Nat
      /\ Cardinality(todo \ {a}) = Cardinality(todo) - 1
      /\ todo = {a} => Cardinality(todo) = 1
  <2>1. IsFiniteSet(todo) /\ Cardinality(todo) \in Nat
    BY <1>1, <1>4, ListFacts
  <2>2. Cardinality(todo \ {a}) = Cardinality(todo) - 1
    BY <1>4, <2>1, FS_RemoveElement
  <2>3. todo = {a} => Cardinality(todo) = 1
    BY FS_Singleton
  <2> QED BY <2>1, <2>2, <2>3
<1>6. OwedBy(r, q) = Cardinality(todo)
  BY <1>2, <1>4 DEF OwedBy, Owes, Dues
<1>7. OwedBy(s, q) = Cardinality(todo) - 1
  <2>1. CASE req'[q].phase \in {"bulk", "error"}
    BY <1>2, <1>4, <1>5, <2>1 DEF OwedBy, Owes, Dues
  <2>2. CASE req'[q].phase \notin {"bulk", "error"}
    <3>1. todo = {a}
      BY <1>4, <2>2 DEF AfterRevocation
    <3>2. OwedBy(s, q) = 0
      BY <1>2, <2>2 DEF OwedBy, Owes
    <3> QED BY <1>5, <3>1, <3>2
  <2> QED BY <2>1, <2>2
<1>8. PICK m : m = Revocation(a)
  OBVIOUS
<1>9. /\ m \in [kind : {"activated", "revoke"}, count : Nat, agent : Agents \cup {NoAgent}]
      /\ m.kind = "revoke"
  BY <1>8 DEF Revocation, TypeOK
<1>10. /\ Announced' = Announced
       /\ Cardinality(Of("revoke"))' = Cardinality(Of("revoke")) + 1
  BY <1>8, <1>9, LogStep
<1>11. Announced \in Nat /\ Cardinality(Of("revoke")) \in Nat
  BY LogFacts
<1>12. Accounted'
  <2>1. Owed(r) = Owed(s) + 1
    BY <1>3, <1>5, <1>6, <1>7
  <2>2. Announced = Cardinality(Of("revoke")) + Owed(r)
    BY <1>2 DEF AccountInv, Accounted
  <2>3. Announced' = Cardinality(Of("revoke"))' + Owed(s)
    BY <1>3, <1>10, <1>11, <2>1, <2>2
  <2> QED BY <1>2, <2>3 DEF Accounted
<1>13. IsFiniteSet(Owing(req))'
  BY <1>2, <1>3
<1>14. req'[q].phase \notin {"idle", "checked", "publish"}
  BY DEF AfterRevocation
<1> QED BY <1>12, <1>13, <1>14 DEF AccountInv

LEMMA NextAccountInv == IInv /\ AccountInv /\ [Next]_vars => AccountInv'
<1> SUFFICES ASSUME IInv, AccountInv, [Next]_vars PROVE AccountInv'
  OBVIOUS
<1>0. TypeOK /\ TypeOK'
  BY NextIInv DEF IInv
<1>1. \A q \in Requests : req[q].phase \in {"idle", "checked", "publish"} => req[q].todo = {}
  BY DEF AccountInv
\* Requests that are about one agent owe nothing before or after.
<1>2. ASSUME NEW q \in Requests, vcRevoke' = vcRevoke,
             \A p \in Requests \ {q} : req'[p] = req[p],
             req[q].phase \in {"idle", "checked", "publish"},
             req'[q].todo = {}
      PROVE  AccountInv'
  <2>1. OwedBy(req, q) = 0
    BY <1>2 DEF OwedBy, Owes
  <2>2. OwedBy(req', q) = 0
    BY <1>2, FS_EmptySet DEF OwedBy, Dues
  <2> QED BY <1>0, <1>2, <2>1, <2>2, QuietAccount
<1>3. ASSUME NEW q \in Requests, NEW a \in Agents,
             Register(q, a) \/ RegisterReplyLost(q, a)
      PROVE  AccountInv'
  <2>1. /\ vcRevoke' = vcRevoke
        /\ \A p \in Requests \ {q} : req'[p] = req[p]
        /\ req[q].phase = "idle" /\ req'[q].todo = {}
    BY <1>0, <1>3 DEF TypeOK, Register, RegisterReplyLost, streams
  <2> QED BY <1>2, <2>1
<1>4. ASSUME NEW q \in Requests, NEW e \in Actions, NEW a \in Agents,
             Check(q, e, a) \/ Refuse(q, e, a)
      PROVE  AccountInv'
  <2>1. /\ vcRevoke' = vcRevoke
        /\ \A p \in Requests \ {q} : req'[p] = req[p]
        /\ req[q].phase = "idle" /\ req'[q].todo = {}
    BY <1>0, <1>1, <1>4 DEF TypeOK, Check, Refuse, Answer, streams
  <2> QED BY <1>2, <2>1
<1>5. ASSUME NEW q \in Requests, Update(q) \/ UpdateReplyLost(q) PROVE AccountInv'
  <2>1. PICK ph : req' = [req EXCEPT ![q].phase = ph]
    BY <1>5 DEF Update, UpdateReplyLost, Answer
  <2>2. /\ vcRevoke' = vcRevoke
        /\ \A p \in Requests \ {q} : req'[p] = req[p]
        /\ req[q].phase = "checked" /\ req'[q].todo = {}
    BY <1>0, <1>1, <1>5, <2>1 DEF TypeOK, Update, UpdateReplyLost, streams
  <2> QED BY <1>2, <2>2
<1>6. ASSUME NEW q \in Requests, Publish(q) PROVE AccountInv'
  <2>1. /\ vcRevoke' = vcRevoke
        /\ \A p \in Requests \ {q} : req'[p] = req[p]
        /\ req[q].phase = "publish" /\ req'[q].todo = {}
    BY <1>0, <1>1, <1>6 DEF TypeOK, Publish, Answer
  <2> QED BY <1>2, <2>1
<1>7. ASSUME NEW q \in Requests, NEW scope \in Scopes, Query(q, scope) PROVE AccountInv'
  <2>1. /\ vcRevoke' = vcRevoke
        /\ \A p \in Requests \ {q} : req'[p] = req[p]
        /\ req[q].phase = "idle" /\ req'[q].phase \in {"ok", "announce"}
    BY <1>0, <1>7 DEF TypeOK, Query, streams
  <2>2. OwedBy(req, q) = 0 /\ OwedBy(req', q) = 0
    BY <2>1 DEF OwedBy, Owes
  <2> QED BY <1>0, <2>1, <2>2, QuietAccount
<1>8. ASSUME NEW q \in Requests, Announce(q) PROVE AccountInv'
  <2>1. /\ vcRevoke' = Append(vcRevoke, Activated(q))
        /\ \A p \in Requests \ {q} : req'[p] = req[p]
        /\ req[q].phase = "announce" /\ req'[q].phase = "bulk"
        /\ req'[q].todo = req[q].todo
    BY <1>0, <1>8 DEF TypeOK, Announce, Answer
  <2> QED BY <1>0, <2>1, AnnounceAccount
<1>9. ASSUME NEW q \in Requests, NEW a \in Agents, RevokeNext(q, a) PROVE AccountInv'
  <2>1. /\ a \in req[q].todo /\ req[q].phase = "bulk"
        /\ vcRevoke' = Append(vcRevoke, Revocation(a))
        /\ \A p \in Requests \ {q} : req'[p] = req[p]
        /\ req'[q].todo = req[q].todo \ {a}
        /\ req'[q].phase = AfterRevocation(q, a)
    BY <1>0, <1>9 DEF TypeOK, RevokeNext
  <2> QED BY <1>0, <2>1, RevokeAccount
<1>10. ASSUME NEW q \in Requests, Raises(q) PROVE AccountInv'
  <2>1. /\ vcRevoke' = vcRevoke
        /\ \A p \in Requests \ {q} : req'[p] = req[p]
        /\ req'[q].phase = "error"
        /\ req'[q].todo = IF req[q].phase = "announce" THEN {} ELSE req[q].todo
        /\ req[q].phase \in {"checked", "publish", "announce", "bulk"}
    BY <1>0, <1>10 DEF TypeOK, Raises, streams
  <2>2. CASE req[q].phase \in {"checked", "publish"}
    BY <1>1, <1>2, <2>1, <2>2
  <2>3. CASE req[q].phase = "announce"
    <3>1. OwedBy(req, q) = 0 /\ OwedBy(req', q) = 0
      BY <2>1, <2>3, FS_EmptySet DEF OwedBy, Owes, Dues
    <3> QED BY <1>0, <2>1, <3>1, QuietAccount
  <2>4. CASE req[q].phase = "bulk"
    <3>1. OwedBy(req', q) = OwedBy(req, q)
      BY <2>1, <2>4 DEF OwedBy, Owes, Dues
    <3> QED BY <1>0, <2>1, <3>1, QuietAccount
  <2> QED BY <2>1, <2>2, <2>3, <2>4
<1>11. ASSUME NEW q \in Requests, XaddReplyLost(q) PROVE AccountInv'
  <2>1. /\ \A p \in Requests \ {q} : req'[p] = req[p]
        /\ req'[q].phase = "error"
    BY <1>0, <1>11 DEF TypeOK, XaddReplyLost, Answer
  <2>2. CASE req[q].phase = "publish"
    <3>1. vcRevoke' = vcRevoke /\ req'[q].todo = {}
      BY <1>0, <1>1, <1>11, <2>2 DEF TypeOK, XaddReplyLost, Answer
    <3> QED BY <1>2, <2>1, <2>2, <3>1
  <2>3. CASE req[q].phase = "announce"
    <3>1. /\ vcRevoke' = Append(vcRevoke, Activated(q))
          /\ req'[q].todo = req[q].todo
      BY <1>0, <1>11, <2>3 DEF TypeOK, XaddReplyLost, Answer
    <3> QED BY <1>0, <2>1, <2>3, <3>1, AnnounceAccount
  <2>4. CASE req[q].phase = "bulk"
    <3>1. PICK a \in req[q].todo :
            /\ vcRevoke' = Append(vcRevoke, Revocation(a))
            /\ req' = [req EXCEPT ![q].phase = "error", ![q].todo = req[q].todo \ {a}]
      BY <1>11, <2>4 DEF XaddReplyLost
    <3>2. req'[q].todo = req[q].todo \ {a}
      BY <1>0, <3>1 DEF TypeOK
    <3> QED BY <1>0, <2>1, <2>4, <3>1, <3>2, RevokeAccount
  <2> QED BY <1>11, <2>2, <2>3, <2>4 DEF XaddReplyLost
<1>12. CASE UNCHANGED vars
  <2>1. req' = req /\ vcRevoke' = vcRevoke
    BY <1>12 DEF vars
  <2>2. Announced' = Announced /\ Of("revoke")' = Of("revoke")
    BY <2>1 DEF Announced, Counts, Of
  <2> QED BY <2>1, <2>2 DEF AccountInv, Accounted
<1> QED
  BY <1>3, <1>4, <1>5, <1>6, <1>7, <1>8, <1>9, <1>10, <1>11, <1>12
  DEF Next, Serve, Break

LEMMA AccountInvariance == Spec => []AccountInv
<1>1. Init => AccountInv
  <2> SUFFICES ASSUME Init PROVE AccountInv
    OBVIOUS
  <2>1. \A q \in Requests : req[q].phase = "idle" /\ req[q].todo = {}
    BY DEF Init, Unhandled
  <2>2. Owing(req) = {} /\ \A k : Of(k) = {}
    BY <2>1 DEF Init, Owing, Owes, Of
  <2>3. \A f : Total(f, {}) = 0
    BY FS_EmptySet DEF Total, Pairs
  <2>4. Announced = 0 /\ Owed(req) = 0
    BY <2>2, <2>3 DEF Announced, Owed
  <2>5. IsFiniteSet(Owing(req)) /\ Cardinality(Of("revoke")) = 0
    BY <2>2, FS_EmptySet
  <2> QED BY <2>1, <2>4, <2>5 DEF AccountInv, Accounted
<1> QED BY <1>1, Invariance, NextAccountInv, PTL DEF Spec

-----------------------------------------------------------------------------
(***************************************************************************)
(* Theorems.                                                               *)
(***************************************************************************)
\* The registry's variables keep their types: the API never leads to a status
\* beyond verified (router.py, action_map).
THEOREM TypeCorrect == Spec => []TypeOK
<1>1. IInv => TypeOK
  BY DEF IInv
<1> QED BY <1>1, Invariance, PTL

\* No row is written unheard of, but for the failures named in the model
\* (register_agent and revoke_agent: the row first, then the event).
THEOREM RowsHeardOf == Spec => []RowsAreHeardOf
<1>1. IInv => RowsAreHeardOf
  BY DEF IInv
<1> QED BY <1>1, Invariance, PTL

\* Without overlapping requests the trust stream revokes exactly once, and
\* only agents that are revoked (revoke_agent).
THEOREM StreamFollowsRows == Spec => []StreamMatchesRow
<1>1. IInv => StreamMatchesRow
  BY DEF IInv
<1> QED BY <1>1, Invariance, PTL

\* For any scopes, any order of created_at and any requests in between, a bulk
\* revocation that answers 200 has announced the revocation of everyone it
\* should, but those whose rows Limit newer ones hid (bulk_revoke, list_agents).
THEOREM BulkReachesItsScope == Spec => []BulkCoversScope
<1>1. CoverInv => BulkCoversScope
  BY DEF CoverInv, Covered, BulkCoversScope, Behind
<1> QED BY <1>1, CoverInvariance, PTL

\* However many bulk revocations overlap and wherever they fail, the announced
\* numbers are those of the revocations sent, those to come, and those that
\* failed requests still owed (bulk_revoke, affected_agent_count).
THEOREM BulkIsAccounted == Spec => []BulkAccounted
<1>1. IInv /\ AccountInv => BulkAccounted
  BY SumsAreTotals DEF IInv
<1> QED BY <1>1, Invariance, AccountInvariance, PTL

\* A step changes the status of an agent whose requests have not overlapped
\* only along the lifecycle machine.
LEMMA StepFollowsLifecycle ==
  IInv /\ [Next]_vars =>
    [\A a \in Agents \ outdated :
        status'[a] # status[a] => Transition(status[a], status'[a])]_vars
<1> SUFFICES ASSUME IInv, Next, NEW a \in Agents \ outdated, status'[a] # status[a]
             PROVE  Transition(status[a], status'[a])
  OBVIOUS
<1>1. CASE \E q \in Requests, b \in Agents : Register(q, b) \/ RegisterReplyLost(q, b)
  <2>1. PICK q \in Requests, b \in Agents : Register(q, b) \/ RegisterReplyLost(q, b)
    BY <1>1
  <2>2. b = a /\ status[a] = "unregistered" /\ status'[a] = Target["register"]
    BY <2>1 DEF IInv, TypeOK, Register, RegisterReplyLost, InsertRow
  <2> QED BY <2>2 DEF Transition, Source
<1>2. CASE \E q \in Requests : Update(q) \/ UpdateReplyLost(q)
  <2>1. PICK q \in Requests : Update(q) \/ UpdateReplyLost(q)
    BY <1>2
  <2>2. req[q].agent = a /\ status'[a] = Target[req[q].event]
    BY <2>1 DEF IInv, TypeOK, Update, UpdateReplyLost, UpdateRow
  <2>3. req[q].event \in Actions /\ status[a] \in Source[req[q].event]
    BY <2>1, <2>2 DEF IInv, CheckedInv, Update, UpdateReplyLost
  <2> QED BY <2>2, <2>3, MachineFacts DEF Transition
<1>3. CASE UNCHANGED status
  BY <1>3
<1> QED
  BY <1>1, <1>2, <1>3
  DEF Next, Serve, Break, Check, Refuse, Publish, Query, Announce, RevokeNext, Raises,
      XaddReplyLost, rowVars

\* Revoked, suspended or verified against the machine: only where a request
\* was overtaken between its check and its UPDATE (KYAService).
THEOREM LifecycleFollowedUnlessOvertaken == Spec => LifecycleFollowed
<1> QED BY Invariance, StepFollowsLifecycle, PTL DEF Spec, LifecycleFollowed
=============================================================================
