------------------------ MODULE SessionCapture_proofs ------------------------
(***************************************************************************)
(* What holds of SessionCapture for any number of sessions, of overlapping *)
(* calls of end_session, of records and of failures, in every wiring, and  *)
(* that its sessions implement SealedLogs.                                 *)
(***************************************************************************)
EXTENDS SessionCapture, SequenceTheorems, FiniteSetTheorems, TLAPS

(***************************************************************************)
(* The inductive invariant.                                                *)
(***************************************************************************)
Ended(s) == phase[s] \in {"ended", "gone"}

Suspended(c) == calls[c].stage # "free"

TypeInv == TypeOK /\ \A s \in Sessions : Len(records[s]) <= MaxRecords

\* What a summary says is what the capture holds, which has not changed since.
Agrees(sm, s) ==
    /\ sm.root = Hashes(s)
    /\ \A k \in Reported : sm.counts[k] = tally[s][k]

\* A summary, or a later change, accounts for each difference in the records,
\* and in the transcript.
Explains(sm, s) ==
    /\ \A i \in DOMAIN records[s] :
         records[s][i].data # records[s][i].hash => i \in sm.errors \cup late[s]
    /\ \A i \in DOMAIN transcript[s] :
         transcript[s][i] # records[s][i].hash => i \in sm.errors \cup late[s]

\* A reported path is that of a complete directory.
PathHolds(sm, s) == wiring.storage = "local" /\ sm.path => writer[s] = "done"

SummaryOK(sm, s) == Agrees(sm, s) /\ Explains(sm, s) /\ PathHolds(sm, s)

\* Until end_session nothing of a session is stored or sent.
UntouchedOK(s) ==
    ~Ended(s) =>
        /\ writer[s] = "none" /\ files[s] = 0 /\ transcript[s] = <<>>
        /\ batchRecords[s] = <<>> /\ stream[s] = <<>>
        /\ ~results[s].given

\* The root and the event are sent once at most, and are those of the capture.
EventOf(s) == [k \in Numbers |-> tally[s][k]]

SentOK(s) ==
    /\ batchRecords[s] \in {<<>>, <<Hashes(s)>>}
    /\ stream[s] \in {<<>>, <<EventOf(s)>>}

\* How far the storage thread is, and what the transcript holds then.
WriterOK(s) ==
    /\ writer[s] = "running" => files[s] < 5
    /\ writer[s] = "done" => files[s] = 5
    /\ \/ transcript[s] = <<>> /\ files[s] < 3
       \/ DOMAIN transcript[s] = DOMAIN records[s] /\ files[s] >= 3

\* The counters are those of the records, unless an append raised.
TallyOK(s) ==
    s \notin uncounted =>
        \A k \in Numbers : tally[s][k] = Cardinality(Feeding(s, k))

\* In a server the records are what plain JSON gave, and stay so.
CanonOK(s) == wiring.hosted => ~Unverifiable(s)

SessionOK(s) ==
    /\ s \in active => phase[s] = "open"
    /\ UntouchedOK(s)
    /\ results[s].given => SummaryOK(results[s], s)
    /\ SentOK(s)
    /\ WriterOK(s)
    /\ TallyOK(s)
    /\ CanonOK(s)

\* A suspended call of end_session is about a session that has ended, that has
\* no summary yet and of which no event has been sent, nor a root before the
\* RPUSH.
CallOK(c) ==
    Suspended(c) =>
        LET s == calls[c].session IN
        /\ phase[s] = "ended"
        /\ ~results[s].given
        /\ SummaryOK(calls[c].summary, s)
        /\ stream[s] = <<>>
        /\ calls[c].stage # "feedback" => batchRecords[s] = <<>>

OneCallInv ==
    \A c, d \in Calls :
        Suspended(c) /\ Suspended(d) /\ calls[c].session = calls[d].session => c = d

IInv ==
    /\ TypeInv
    /\ \A s \in Sessions : SessionOK(s)
    /\ \A c \in Calls : CallOK(c)
    /\ OneCallInv
    /\ SessionIsFindable

-----------------------------------------------------------------------------
(***************************************************************************)
(* Types.                                                                  *)
(***************************************************************************)
RecordSet == [feeds : SUBSET Numbers, hash : Contents, data : Contents]

SuspendedCalls ==
    [stage : {"storing", "batch", "feedback"}, session : Sessions, summary : Summaries]

\* The types of one session's and one call's variables.
LEMMA SessionTypes ==
    ASSUME TypeInv, NEW s \in Sessions
    PROVE  /\ records[s] \in Seq(RecordSet) /\ Len(records[s]) \in Nat
           /\ DOMAIN records[s] = 1..Len(records[s]) /\ Len(records[s]) <= MaxRecords
           /\ \A i \in DOMAIN records[s] : records[s][i] \in RecordSet
           /\ tally[s] \in [Numbers -> Nat]
           /\ files[s] \in 0..5
           /\ late[s] \subseteq 1..MaxRecords
<1>1. records[s] \in Seq(RecordSet) /\ Len(records[s]) <= MaxRecords
  BY DEF TypeInv, TypeOK, RecordSet
<1>2. /\ Len(records[s]) \in Nat /\ DOMAIN records[s] = 1..Len(records[s])
      /\ \A i \in DOMAIN records[s] : records[s][i] \in RecordSet
  BY <1>1, LenProperties, ElementOfSeq
<1>3. Len(Artifacts) = 5
  BY DEF Artifacts
<1>4. tally[s] \in [Numbers -> Nat] /\ files[s] \in 0..5 /\ late[s] \subseteq 1..MaxRecords
  BY <1>3 DEF TypeInv, TypeOK
<1> QED BY <1>1, <1>2, <1>4

LEMMA CallTypes ==
    ASSUME TypeInv, NEW c \in Calls, Suspended(c)
    PROVE  /\ calls[c] \in SuspendedCalls
           /\ calls[c].session \in Sessions /\ calls[c].summary \in Summaries
BY DEF TypeInv, TypeOK, Suspended, NoCall, SuspendedCalls

LEMMA HashesType ==
    ASSUME TypeInv, NEW s \in Sessions
    PROVE  Hashes(s) \in Seq(Contents)
<1> DEFINE n == Len(records[s])
<1>1. n \in Nat /\ DOMAIN records[s] = 1..n /\ \A i \in 1..n : records[s][i].hash \in Contents
  BY SessionTypes DEF RecordSet
<1>2. Hashes(s) \in [1..n -> Contents]
  BY <1>1 DEF Hashes
<1> QED BY <1>1, <1>2, SeqDef

\* What EndSession puts together is a summary, and stays one when its path, its
\* batch id or its feedback is filled in.
LEMMA SummaryType ==
    ASSUME TypeInv, NEW s \in Sessions
    PROVE  SessionSummary(s) \in Summaries
<1>1. Mismatches(s) \in SUBSET (1..MaxRecords)
  BY SessionTypes, SessionBounds DEF Mismatches
<1>2. [k \in Reported |-> tally[s][k]] \in [Reported -> Nat]
  BY SessionTypes DEF Reported, Numbers
<1> QED BY <1>1, <1>2, HashesType DEF SessionSummary, Summaries

LEMMA SummaryFilled ==
    ASSUME NEW sm \in Summaries, NEW b \in BOOLEAN
    PROVE  /\ [sm EXCEPT !.path = b] \in Summaries
           /\ [sm EXCEPT !.batchId = b] \in Summaries
           /\ [sm EXCEPT !.feedback = b] \in Summaries
BY DEF Summaries

\* Every variable of a session and every call but those named stays as it is.
LEMMA SuspendTypes ==
    ASSUME TypeInv, NEW c \in Calls, NEW s \in Sessions, NEW sm \in Summaries,
           NEW stage \in {"storing", "batch", "feedback"}, Suspend(c, s, stage, sm)
    PROVE  /\ calls' \in [Calls -> {NoCall} \cup SuspendedCalls]
           /\ results' \in [Sessions -> {NoResult} \cup Summaries]
BY DEF TypeInv, TypeOK, Suspend, SuspendedCalls

LEMMA ReturnTypes ==
    ASSUME TypeInv, NEW c \in Calls, NEW s \in Sessions, NEW sm \in Summaries, Return(c, s, sm)
    PROVE  /\ calls' \in [Calls -> {NoCall} \cup SuspendedCalls]
           /\ results' \in [Sessions -> {NoResult} \cup Summaries]
BY DEF TypeInv, TypeOK, Return, SuspendedCalls

LEMMA StoredTypes ==
    ASSUME TypeInv, NEW c \in Calls, NEW s \in Sessions, NEW sm \in Summaries, AfterStorage(c, s, sm)
    PROVE  /\ calls' \in [Calls -> {NoCall} \cup SuspendedCalls]
           /\ results' \in [Sessions -> {NoResult} \cup Summaries]
BY SummaryFilled, SuspendTypes, ReturnTypes DEF AfterStorage

LEMMA TypeInit == Init => TypeInv
<1> SUFFICES ASSUME Init
             PROVE  TypeInv
  OBVIOUS
<1>1. /\ wiring \in Wirings
      /\ phase \in [Sessions -> {"new", "open", "ended", "gone"}]
      /\ active \subseteq Sessions
      /\ tally \in [Sessions -> [Numbers -> Nat]]
      /\ writer \in [Sessions -> {"none", "running", "done", "failed"}]
      /\ uncounted \subseteq Sessions
      /\ late \in [Sessions -> SUBSET (1..MaxRecords)]
      /\ raised \subseteq Sessions
      /\ faults \in [FaultKinds -> Nat]
  BY DEF Init
<1>2. /\ records \in [Sessions -> Seq(RecordSet)]
      /\ transcript \in [Sessions -> Seq(Contents)]
      /\ batchRecords \in [Sessions -> Seq(Seq(Contents))]
      /\ stream \in [Sessions -> Seq([Numbers -> Nat])]
      /\ \A s \in Sessions : Len(records[s]) <= MaxRecords
  BY EmptySeq, SessionBounds DEF Init
<1>3. files \in [Sessions -> 0..Len(Artifacts)]
  BY DEF Init, Artifacts
<1>4. /\ calls \in [Calls -> {NoCall} \cup SuspendedCalls]
      /\ results \in [Sessions -> {NoResult} \cup Summaries]
  BY DEF Init
<1> QED BY <1>1, <1>2, <1>3, <1>4 DEF TypeInv, TypeOK, RecordSet, SuspendedCalls

\* The steps of end_session after its awaits.
OutTypes ==
    /\ batchRecords \in [Sessions -> Seq(Seq(Contents))]
    /\ stream \in [Sessions -> Seq([Numbers -> Nat])]

LEMMA PushTypes ==
    ASSUME TypeInv, NEW c \in Calls, Suspended(c), PushRoot(c)
    PROVE  batchRecords' \in [Sessions -> Seq(Seq(Contents))]
<1>1. calls[c].session \in Sessions /\ calls[c].summary.root \in Seq(Contents)
  BY CallTypes DEF Summaries
<1>2. batchRecords[calls[c].session] \in Seq(Seq(Contents))
  BY <1>1 DEF TypeInv, TypeOK
<1>3. Append(batchRecords[calls[c].session], calls[c].summary.root) \in Seq(Seq(Contents))
  BY <1>1, <1>2, AppendProperties
<1> QED BY <1>1, <1>3 DEF PushRoot, TypeInv, TypeOK

LEMMA EventTypes ==
    ASSUME TypeInv, NEW c \in Calls, Suspended(c), AddEvent(c)
    PROVE  stream' \in [Sessions -> Seq([Numbers -> Nat])]
<1> DEFINE t == calls[c].session
           e == [k \in Numbers |-> IF k \in {"tools", "accesses"} THEN tally[t][k]
                                   ELSE calls[c].summary.counts[k]]
<1>1. t \in Sessions /\ calls[c].summary.counts \in [Reported -> Nat]
  BY CallTypes DEF Summaries
<1>2. e \in [Numbers -> Nat]
  BY <1>1, SessionTypes DEF Numbers, Reported
<1>3. Append(stream[t], e) \in Seq([Numbers -> Nat])
  BY <1>1, <1>2, AppendProperties DEF TypeInv, TypeOK
<1> QED BY <1>1, <1>3 DEF AddEvent, TypeInv, TypeOK

LEMMA CountedTypes ==
    ASSUME TypeInv, NEW s \in Sessions, NEW feeds, CountedFirst(s, feeds)
    PROVE  tally' \in [Sessions -> [Numbers -> Nat]]
<1>1. tally[s] \in [Numbers -> Nat]
  BY SessionTypes
<1>2. [k \in Numbers |-> IF k \in feeds THEN tally[s][k] + 1 ELSE tally[s][k]]
        \in [Numbers -> Nat]
  BY <1>1
<1> QED BY <1>2 DEF CountedFirst, TypeInv, TypeOK

LEMMA FaultTypes ==
    ASSUME TypeInv, NEW kind \in FaultKinds, Fault(kind)
    PROVE  faults' \in [FaultKinds -> Nat]
BY DEF Fault, TypeInv, TypeOK

LEMMA AppendedTypes ==
    ASSUME TypeInv, NEW s \in Sessions, NEW feeds \in SUBSET Numbers, NEW content \in Contents,
           Record(s, feeds, content)
    PROVE  /\ records' \in [Sessions -> Seq(RecordSet)]
           /\ \A t \in Sessions : Len(records'[t]) <= MaxRecords
<1> DEFINE e == [feeds |-> feeds, hash |-> content, data |-> content]
<1>1. e \in RecordSet
  BY DEF RecordSet
<1>2. /\ records' = [records EXCEPT ![s] = Append(records[s], e)]
      /\ Len(records[s]) < MaxRecords
  BY DEF Record, AppendRecord
<1>3. Append(records[s], e) \in Seq(RecordSet) /\ Len(Append(records[s], e)) = Len(records[s]) + 1
  BY <1>1, SessionTypes, AppendProperties
<1>4. records \in [Sessions -> Seq(RecordSet)] /\ \A t \in Sessions : Len(records[t]) <= MaxRecords
  BY DEF TypeInv, TypeOK, RecordSet
<1>5. Len(records[s]) \in Nat
  BY SessionTypes
<1> QED BY <1>2, <1>3, <1>4, <1>5, SessionBounds

\* Changing the data of one record changes nothing else of the list.
LEMMA MutatedTypes ==
    ASSUME TypeInv, NEW s \in Sessions, NEW i \in DOMAIN records[s], NEW content \in Contents,
           records' = [records EXCEPT ![s][i].data = content]
    PROVE  /\ records' \in [Sessions -> Seq(RecordSet)]
           /\ \A t \in Sessions : Len(records'[t]) <= MaxRecords
           /\ \A t \in Sessions \ {s} : records'[t] = records[t]
           /\ DOMAIN records'[s] = DOMAIN records[s]
           /\ \A j \in DOMAIN records[s] :
                /\ records'[s][j].hash = records[s][j].hash
                /\ records'[s][j].feeds = records[s][j].feeds
                /\ j # i => records'[s][j] = records[s][j]
<1> DEFINE e == [records[s][i] EXCEPT !.data = content]
           q == [records[s] EXCEPT ![i] = e]
<1>1. /\ records[s] \in Seq(RecordSet) /\ records[s][i] \in RecordSet
      /\ i \in 1..Len(records[s]) /\ DOMAIN records[s] = 1..Len(records[s])
      /\ Len(records[s]) \in Nat /\ Len(records[s]) <= MaxRecords
      /\ \A j \in DOMAIN records[s] : records[s][j] \in RecordSet
  BY SessionTypes
<1>2. e \in RecordSet /\ e.hash = records[s][i].hash /\ e.feeds = records[s][i].feeds
  BY <1>1 DEF RecordSet
<1>3. /\ q \in [1..Len(records[s]) -> RecordSet] /\ q[i] = e
      /\ \A j \in DOMAIN records[s] : j # i => q[j] = records[s][j]
  BY <1>1, <1>2
<1>4. q \in Seq(RecordSet) /\ Len(q) = Len(records[s])
  BY <1>1, <1>3, SeqDef, LenProperties
<1>5. records \in [Sessions -> Seq(RecordSet)] /\ \A t \in Sessions : Len(records[t]) <= MaxRecords
  BY DEF TypeInv, TypeOK, RecordSet
<1>6. records' = [records EXCEPT ![s] = q]
  OBVIOUS
<1> HIDE DEF q, e
<1>7. /\ records' \in [Sessions -> Seq(RecordSet)] /\ records'[s] = q
      /\ \A t \in Sessions \ {s} : records'[t] = records[t]
  BY <1>4, <1>5, <1>6
<1>8. \A j \in DOMAIN records[s] : q[j].hash = records[s][j].hash /\ q[j].feeds = records[s][j].feeds
  BY <1>2, <1>3
<1> QED BY <1>1, <1>3, <1>4, <1>5, <1>7, <1>8

LEMMA TranscriptType ==
    ASSUME TypeInv, NEW s \in Sessions
    PROVE  [i \in DOMAIN records[s] |-> records[s][i].data] \in Seq(Contents)
<1> DEFINE n == Len(records[s])
           q == [i \in DOMAIN records[s] |-> records[s][i].data]
<1>1. n \in Nat /\ DOMAIN records[s] = 1..n /\ \A i \in 1..n : records[s][i].data \in Contents
  BY SessionTypes DEF RecordSet
<1>2. q \in [1..n -> Contents]
  BY <1>1
<1> HIDE DEF q
<1> QED BY <1>1, <1>2, SeqDef

\* Whichever method records, it is a Record that feeds some of the numbers.
Recording(s, content) ==
    \/ RecordStep(s, content) \/ RecordObservation(s, content)
    \/ RecordToolInvocation(s, content) \/ RecordLlmCall(s, content)
    \/ RecordDeadEnd(s, content)

LEMMA RecordingFeeds ==
    ASSUME NEW s \in Sessions, NEW content \in Contents, Recording(s, content)
    PROVE  \E feeds \in SUBSET Numbers : Record(s, feeds, content)
<1>1. CASE RecordToolInvocation(s, content)
  <2>1. PICK extra \in ToolExtras : Record(s, {"tools"} \cup extra, content)
    BY <1>1 DEF RecordToolInvocation
  <2>2. {"tools"} \cup extra \in SUBSET Numbers
    BY <2>1, SessionBounds DEF Numbers
  <2> QED BY <2>1, <2>2
<1>2. /\ {} \in SUBSET Numbers /\ {"accesses"} \in SUBSET Numbers
      /\ {"cost"} \in SUBSET Numbers /\ {"dead_ends"} \in SUBSET Numbers
  BY DEF Numbers
<1> QED BY <1>1, <1>2 DEF Recording, RecordStep, RecordObservation, RecordLlmCall, RecordDeadEnd

LEMMA TypeStep ==
    ASSUME TypeInv, \A s \in Sessions : SessionOK(s), [Next]_vars
    PROVE  TypeInv'
<1> USE DEF captureVars, storeVars, outVars, history
<1> DEFINE Rest ==
      /\ wiring \in Wirings
      /\ phase \in [Sessions -> {"new", "open", "ended", "gone"}]
      /\ active \subseteq Sessions
      /\ writer \in [Sessions -> {"none", "running", "done", "failed"}]
      /\ files \in [Sessions -> 0..Len(Artifacts)]
      /\ transcript \in [Sessions -> Seq(Contents)]
      /\ uncounted \subseteq Sessions
      /\ late \in [Sessions -> SUBSET (1..MaxRecords)]
      /\ raised \subseteq Sessions
           Recorded ==
      /\ records \in [Sessions -> Seq(RecordSet)]
      /\ \A t \in Sessions : Len(records[t]) <= MaxRecords
           Counted == tally \in [Sessions -> [Numbers -> Nat]]
           Answered ==
      /\ calls \in [Calls -> {NoCall} \cup SuspendedCalls]
      /\ results \in [Sessions -> {NoResult} \cup Summaries]
           Failed == faults \in [FaultKinds -> Nat]
<1>1. Rest /\ Recorded /\ Counted /\ Answered /\ OutTypes /\ Failed
  BY DEF TypeInv, TypeOK, RecordSet, SuspendedCalls, OutTypes
<1>2. Rest' /\ Recorded' /\ Counted' /\ Answered' /\ OutTypes' /\ Failed' => TypeInv'
  BY DEF TypeInv, TypeOK, RecordSet, SuspendedCalls, OutTypes
<1>3. ASSUME NEW s \in Sessions, Start(s)
      PROVE  TypeInv'
  <2>1. Rest'
    BY <1>1, <1>3 DEF Start
  <2> QED BY <2>1, <1>1, <1>2, <1>3 DEF Start, OutTypes
<1>4. ASSUME NEW s \in Sessions, NEW feeds \in SUBSET Numbers, NEW content \in Contents,
             Record(s, feeds, content)
      PROVE  TypeInv'
  <2>1. Recorded' /\ Counted'
    BY <1>4, AppendedTypes, CountedTypes DEF Record
  <2> QED BY <2>1, <1>1, <1>2, <1>4 DEF Record, OutTypes
<1>5. ASSUME NEW s \in Sessions, RecordRaises(s)
      PROVE  TypeInv'
  <2>1. Counted' /\ Failed'
    BY <1>5, CountedTypes, FaultTypes DEF RecordRaises, FaultKinds
  <2>2. Rest'
    BY <1>1, <1>5 DEF RecordRaises
  <2> QED BY <2>1, <2>2, <1>1, <1>2, <1>5 DEF RecordRaises, OutTypes
<1>6. ASSUME NEW s \in Sessions, NEW i \in DOMAIN records[s], NEW content \in Contents,
             Mutate(s, i, content)
      PROVE  TypeInv'
  <2>1. Recorded' /\ Failed'
    BY <1>6, MutatedTypes, FaultTypes DEF Mutate, FaultKinds
  <2>2. i \in 1..MaxRecords
    BY SessionTypes, SessionBounds
  <2>3. Rest'
    BY <2>2, <1>1, <1>6 DEF Mutate
  <2> QED BY <2>1, <2>3, <1>1, <1>2, <1>6 DEF Mutate, OutTypes
<1>7. ASSUME NEW c \in Calls, NEW s \in Sessions, EndSession(c, s)
      PROVE  TypeInv'
  <2>1. SessionSummary(s) \in Summaries /\ [SessionSummary(s) EXCEPT !.path = TRUE] \in Summaries
    BY SummaryType, SummaryFilled
  <2>2. wiring.storage \in {"none", "local", "s3"}
    BY <1>1, SessionBounds
  <2>3. Answered' /\ writer' \in [Sessions -> {"none", "running", "done", "failed"}]
    <3>1. CASE wiring.storage = "none"
      BY <3>1, <2>1, <1>1, <1>7, ReturnTypes DEF EndSession
    <3>2. CASE wiring.storage = "s3"
      BY <3>2, <2>1, <1>1, <1>7, StoredTypes DEF EndSession
    <3>3. CASE wiring.storage = "local"
      <4>1. Suspend(c, s, "storing", SessionSummary(s)) /\ writer' = [writer EXCEPT ![s] = "running"]
        BY <3>3, <1>7 DEF EndSession
      <4> QED BY <4>1, <2>1, <1>1, SuspendTypes
    <3> QED BY <2>2, <3>1, <3>2, <3>3
  <2>4. Rest'
    BY <2>3, <1>1, <1>7 DEF EndSession, Pop
  <2> QED BY <2>3, <2>4, <1>1, <1>2, <1>7 DEF EndSession, OutTypes
<1>8. ASSUME NEW c \in Calls, StorageReturns(c)
      PROVE  TypeInv'
  <2>1. /\ calls[c].session \in Sessions
        /\ [calls[c].summary EXCEPT !.path = WrittenInFull(calls[c].session)] \in Summaries
    BY <1>8, CallTypes, SummaryFilled DEF StorageReturns, Suspended, WrittenInFull
  <2>2. Answered'
    BY <2>1, <1>8, StoredTypes DEF StorageReturns
  <2> QED BY <2>2, <1>1, <1>2, <1>8 DEF StorageReturns, OutTypes
<1>9. ASSUME NEW c \in Calls, Enqueue(c) \/ EnqueueFails(c)
      PROVE  TypeInv'
  <2>1. Suspended(c) /\ calls[c].session \in Sessions /\ calls[c].summary \in Summaries
    BY <1>9, CallTypes DEF Enqueue, EnqueueFails, Suspended
  <2>2. Answered'
    BY <2>1, <1>9, SuspendTypes DEF Enqueue, EnqueueFails
  <2>3. OutTypes'
    BY <2>1, <1>1, <1>9, PushTypes DEF Enqueue, EnqueueFails, OutTypes
  <2>4. Failed'
    BY <1>1, <1>9, FaultTypes DEF Enqueue, EnqueueFails, FaultKinds
  <2> QED BY <2>2, <2>3, <2>4, <1>1, <1>2, <1>9 DEF Enqueue, EnqueueFails
<1>10. ASSUME NEW c \in Calls, Emit(c) \/ EmitFails(c)
       PROVE  TypeInv'
  <2>1. /\ Suspended(c) /\ calls[c].session \in Sessions /\ calls[c].summary \in Summaries
        /\ [calls[c].summary EXCEPT !.feedback = TRUE] \in Summaries
    BY <1>10, CallTypes, SummaryFilled DEF Emit, EmitFails, Suspended
  <2>2. Answered'
    BY <2>1, <1>10, ReturnTypes DEF Emit, EmitFails
  <2>3. OutTypes'
    BY <2>1, <1>1, <1>10, EventTypes DEF Emit, EmitFails, OutTypes
  <2>4. Failed'
    BY <1>1, <1>10, FaultTypes DEF Emit, EmitFails, FaultKinds
  <2> QED BY <2>2, <2>3, <2>4, <1>1, <1>2, <1>10 DEF Emit, EmitFails
<1>11. ASSUME NEW c \in Calls, Cancel(c)
       PROVE  TypeInv'
  <2>1. Answered' /\ Failed'
    BY <1>1, <1>11, FaultTypes DEF Cancel, FaultKinds
  <2>2. OutTypes'
    BY <1>1, <1>11, PushTypes, EventTypes DEF Cancel, Suspended, OutTypes
  <2> QED BY <2>1, <2>2, <1>1, <1>2, <1>11 DEF Cancel
<1>12. ASSUME NEW s \in Sessions, WriteArtifact(s)
       PROVE  TypeInv'
  <2>1. files[s] \in 0..5 /\ files[s] < 5 /\ Len(Artifacts) = 5
    BY <1>12, SessionTypes DEF WriteArtifact, SessionOK, WriterOK, Artifacts
  <2>2. Rest'
    BY <2>1, <1>1, <1>12, TranscriptType DEF WriteArtifact
  <2> QED BY <2>2, <1>1, <1>2, <1>12 DEF WriteArtifact, OutTypes
<1>13. ASSUME NEW s \in Sessions, WriteRaises(s)
       PROVE  TypeInv'
  <2>1. Failed'
    BY <1>1, <1>13, FaultTypes DEF WriteRaises, FaultKinds
  <2>2. Rest'
    BY <1>1, <1>13 DEF WriteRaises
  <2> QED BY <2>1, <2>2, <1>1, <1>2, <1>13 DEF WriteRaises, OutTypes
<1>14. ASSUME Crash
       PROVE  TypeInv'
  <2>1. Failed'
    BY <1>1, <1>14, FaultTypes DEF Crash, FaultKinds
  <2>2. Rest' /\ Answered'
    BY <1>1, <1>14 DEF Crash
  <2> QED BY <2>1, <2>2, <1>1, <1>2, <1>14 DEF Crash, OutTypes
<1>15. CASE UNCHANGED vars
  BY <1>1, <1>2, <1>15 DEF vars, OutTypes
<1>16. ASSUME NEW s \in Sessions, EndRaises(s)
       PROVE  TypeInv'
  <2>1. Rest'
    BY <1>1, <1>16 DEF EndRaises, Pop
  <2> QED BY <2>1, <1>1, <1>2, <1>16 DEF EndRaises, OutTypes
<1> QED
  BY <1>3, <1>4, <1>5, <1>6, <1>7, <1>8, <1>9, <1>10, <1>11, <1>12, <1>13, <1>14, <1>15,
     <1>16, RecordingFeeds
  DEF Next, Resume, RunThread, Recording

-----------------------------------------------------------------------------
(***************************************************************************)
(* What a step leaves alone.                                               *)
(***************************************************************************)
SameCapture(s) ==
    /\ DOMAIN records'[s] = DOMAIN records[s]
    /\ \A i \in DOMAIN records[s] :
         /\ records'[s][i].hash = records[s][i].hash
         /\ records'[s][i].feeds = records[s][i].feeds
    /\ tally'[s] = tally[s]

SameStore(s) ==
    wiring' = wiring /\ writer'[s] = writer[s] /\ files'[s] = files[s] /\ transcript'[s] = transcript[s]

SameOut(s) == batchRecords'[s] = batchRecords[s] /\ stream'[s] = stream[s]

SameHistory(s) == late'[s] = late[s] /\ (s \in uncounted' <=> s \in uncounted)

SamePhase(s) == phase'[s] = phase[s] /\ (s \in active' <=> s \in active)

Unmoved(s) ==
    /\ SamePhase(s) /\ records'[s] = records[s] /\ tally'[s] = tally[s]
    /\ SameStore(s) /\ SameOut(s) /\ SameHistory(s) /\ results'[s] = results[s]

LEMMA HashesKept ==
    ASSUME NEW s \in Sessions, SameCapture(s)
    PROVE  Hashes(s)' = Hashes(s)
BY DEF SameCapture, Hashes

LEMMA FeedsKept ==
    ASSUME NEW s \in Sessions, SameCapture(s), NEW k
    PROVE  Feeding(s, k)' = Feeding(s, k)
BY DEF SameCapture, Feeding

LEMMA UnmovedCapture ==
    ASSUME NEW s \in Sessions, records'[s] = records[s], tally'[s] = tally[s]
    PROVE  SameCapture(s)
BY DEF SameCapture

LEMMA FrameSession ==
    ASSUME NEW s \in Sessions, SessionOK(s), Unmoved(s)
    PROVE  SessionOK(s)'
<1>1. /\ Hashes(s)' = Hashes(s) /\ \A k \in Numbers : Feeding(s, k)' = Feeding(s, k)
      /\ EventOf(s)' = EventOf(s)
  BY UnmovedCapture, HashesKept, FeedsKept DEF Unmoved, EventOf
<1>2. UntouchedOK(s)' /\ WriterOK(s)' /\ (s \in active' => phase'[s] = "open")
  BY DEF Unmoved, SamePhase, SameStore, SameOut, SessionOK, UntouchedOK, WriterOK, Ended
<1>3. ASSUME results'[s].given
      PROVE  SummaryOK(results[s], s)'
  <2>1. results'[s] = results[s] /\ SummaryOK(results[s], s)
    BY <1>3 DEF Unmoved, SessionOK
  <2> QED BY <2>1, <1>1 DEF SummaryOK, Agrees, Explains, PathHolds, Unmoved, SameStore, SameHistory
<1>4. SentOK(s)'
  BY <1>1 DEF SessionOK, SentOK, Unmoved, SameOut
<1>5. TallyOK(s)' /\ CanonOK(s)'
  BY <1>1 DEF SessionOK, TallyOK, CanonOK, Unverifiable, Unmoved, SameStore, SameHistory
<1> QED BY <1>2, <1>3, <1>4, <1>5 DEF SessionOK

LEMMA FrameCall ==
    ASSUME NEW c \in Calls, CallOK(c), calls'[c] = calls[c],
           Suspended(c) => Unmoved(calls[c].session) /\ calls[c].session \in Sessions
    PROVE  CallOK(c)'
<1> SUFFICES ASSUME Suspended(c)
             PROVE  CallOK(c)'
  BY DEF CallOK, Suspended
<1> DEFINE s == calls[c].session
<1>1. s \in Sessions /\ Unmoved(s) /\ Hashes(s)' = Hashes(s)
  BY UnmovedCapture, HashesKept DEF Unmoved
<1>2. SummaryOK(calls[c].summary, s)
  BY DEF CallOK
<1>3. /\ Agrees(calls[c].summary, s)' /\ Explains(calls[c].summary, s)'
      /\ PathHolds(calls[c].summary, s)'
  BY <1>1, <1>2 DEF SummaryOK, Agrees, Explains, PathHolds, Unmoved, SameStore, SameHistory
<1> QED BY <1>1, <1>3 DEF CallOK, Suspended, SummaryOK, Unmoved, SamePhase, SameOut

\* A step moves at most one session; if end_session has not begun for it, no
\* call notices.
Touches(s) == \A t \in Sessions \ {s} : Unmoved(t)

LEMMA SessionsStep ==
    ASSUME \A t \in Sessions : SessionOK(t), NEW s \in Sessions, Touches(s), SessionOK(s)'
    PROVE  \A t \in Sessions : SessionOK(t)'
BY FrameSession DEF Touches

LEMMA CallsStep ==
    ASSUME IInv, NEW s \in Sessions, Touches(s), phase[s] # "ended", UNCHANGED calls
    PROVE  (\A c \in Calls : CallOK(c)') /\ OneCallInv'
<1>1. ASSUME NEW c \in Calls
      PROVE  CallOK(c)'
  <2>1. CallOK(c) /\ calls'[c] = calls[c]
    BY DEF IInv
  <2>2. Suspended(c) => calls[c].session \in Sessions /\ calls[c].session # s
    BY <2>1, CallTypes DEF IInv, CallOK
  <2> QED BY <2>1, <2>2, FrameCall DEF Touches
<1>2. OneCallInv'
  BY DEF IInv, OneCallInv, Suspended
<1> QED BY <1>1, <1>2

\* Such a step leaves sessions findable if a server still lists this one while
\* it is open.
LEMMA FindableStep ==
    ASSUME IInv, NEW s \in Sessions, Touches(s), UNCHANGED <<calls, results, wiring>>,
           phase'[s] = "open" => s \in active' \/ ~wiring.hosted,
           phase'[s] = "ended" => phase[s] = "ended" /\ (s \in active' <=> s \in active)
    PROVE  SessionIsFindable'
<1> SUFFICES ASSUME wiring.hosted, NEW t \in Sessions
             PROVE  /\ phase'[t] = "open" => StatusOf(t)' = "active"
                    /\ phase'[t] = "ended" =>
                         \/ StatusOf(t)' = "completed"
                         \/ \E c \in Calls : calls[c].stage # "free" /\ calls[c].session = t
  BY DEF SessionIsFindable
<1>1. CASE t = s
  BY <1>1 DEF IInv, SessionIsFindable, StatusOf
<1>2. CASE t # s
  <2>1. phase'[t] = phase[t] /\ (t \in active' <=> t \in active)
    BY <1>2 DEF Touches, Unmoved, SamePhase
  <2> QED BY <2>1 DEF IInv, SessionIsFindable, StatusOf
<1> QED BY <1>1, <1>2

-----------------------------------------------------------------------------
(***************************************************************************)
(* Recording.                                                              *)
(***************************************************************************)
LEMMA StartStep ==
    ASSUME IInv, TypeInv', NEW s \in Sessions, Start(s)
    PROVE  IInv'
<1> USE DEF captureVars, storeVars, outVars, history
<1>1. /\ phase \in [Sessions -> {"new", "open", "ended", "gone"}] /\ phase[s] = "new"
      /\ phase' = [phase EXCEPT ![s] = "open"]
      /\ active' = IF wiring.hosted THEN active \cup {s} ELSE active
      /\ UNCHANGED <<wiring, records, tally, calls, writer, files, transcript,
                     batchRecords, stream, results, uncounted, late>>
  BY DEF Start, IInv, TypeInv, TypeOK
<1>2. Touches(s)
  BY <1>1 DEF Touches, Unmoved, SamePhase, SameStore, SameOut, SameHistory
<1>3. SessionOK(s)'
  <2>1. SessionOK(s) /\ SameCapture(s)
    BY <1>1, UnmovedCapture DEF IInv
  <2>2. /\ Hashes(s)' = Hashes(s) /\ \A k \in Numbers : Feeding(s, k)' = Feeding(s, k)
    BY <2>1, HashesKept, FeedsKept
  <2>3. UntouchedOK(s)' /\ ~results'[s].given /\ WriterOK(s)'
    BY <2>1, <1>1 DEF SessionOK, UntouchedOK, WriterOK, Ended
  <2>4. SentOK(s)' /\ TallyOK(s)' /\ CanonOK(s)'
    BY <2>1, <2>2, <1>1 DEF SessionOK, SentOK, EventOf, TallyOK, CanonOK, Unverifiable
  <2> QED BY <2>3, <2>4, <1>1 DEF SessionOK
<1>4. \A t \in Sessions : SessionOK(t)'
  BY <1>2, <1>3, SessionsStep DEF IInv
<1>5. (\A c \in Calls : CallOK(c)') /\ OneCallInv'
  BY <1>1, <1>2, CallsStep
<1>6. SessionIsFindable'
  BY <1>1, <1>2, FindableStep
<1> QED BY <1>4, <1>5, <1>6 DEF IInv

\* Appending a record counts it, in the records and in its counter.
LEMMA RecordCounts ==
    ASSUME TypeInv, NEW s \in Sessions, NEW feeds \in SUBSET Numbers, NEW content \in Contents,
           Record(s, feeds, content), NEW k \in Numbers
    PROVE  /\ Cardinality(Feeding(s, k)') =
                Cardinality(Feeding(s, k)) + IF k \in feeds THEN 1 ELSE 0
           /\ tally'[s][k] = tally[s][k] + IF k \in feeds THEN 1 ELSE 0
           /\ Cardinality(Feeding(s, k)) \in Nat
<1> DEFINE e == [feeds |-> feeds, hash |-> content, data |-> content]
           n == Len(records[s])
<1>1. /\ n \in Nat /\ DOMAIN records[s] = 1..n /\ e \in RecordSet /\ records[s] \in Seq(RecordSet)
      /\ tally[s] \in [Numbers -> Nat]
  BY SessionTypes DEF RecordSet
<1>2. records'[s] = Append(records[s], e)
  BY DEF Record, AppendRecord, TypeInv, TypeOK
<1>3. /\ DOMAIN records'[s] = 1..(n + 1) /\ records'[s][n + 1] = e
      /\ \A i \in 1..n : records'[s][i] = records[s][i]
  <2>1. /\ Append(records[s], e) \in Seq(RecordSet) /\ Len(Append(records[s], e)) = n + 1
        /\ Append(records[s], e)[n + 1] = e
        /\ \A i \in 1..n : Append(records[s], e)[i] = records[s][i]
    BY <1>1, AppendProperties
  <2> QED BY <2>1, <1>2, LenProperties
<1> HIDE DEF n
<1>4. Feeding(s, k) \subseteq 1..n /\ n + 1 \notin Feeding(s, k) /\ IsFiniteSet(Feeding(s, k))
  <2>1. Feeding(s, k) \subseteq 1..n
    BY <1>1 DEF Feeding
  <2>2. IsFiniteSet(1..n)
    BY <1>1, FS_Interval
  <2> QED BY <2>1, <2>2, <1>1, FS_Subset
<1>5. Feeding(s, k)' = IF k \in feeds THEN Feeding(s, k) \cup {n + 1} ELSE Feeding(s, k)
  <2>1. \A i \in 1..(n + 1) : i \in 1..n \/ i = n + 1
    BY <1>1
  <2>2. 1..n \subseteq 1..(n + 1) /\ n + 1 \in 1..(n + 1)
    BY <1>1
  <2> QED BY <2>1, <2>2, <1>1, <1>3, <1>4 DEF Feeding
<1>6. Cardinality(Feeding(s, k)') = Cardinality(Feeding(s, k)) + IF k \in feeds THEN 1 ELSE 0
  <2>1. Cardinality(Feeding(s, k) \cup {n + 1}) = Cardinality(Feeding(s, k)) + 1
    BY <1>4, FS_AddElement
  <2>2. Cardinality(Feeding(s, k)) \in Nat
    BY <1>4, FS_CardinalityType
  <2> QED BY <2>1, <2>2, <1>5
<1>7. tally'[s][k] = tally[s][k] + IF k \in feeds THEN 1 ELSE 0
  <2>1. tally'[s] = [j \in Numbers |-> IF j \in feeds THEN tally[s][j] + 1 ELSE tally[s][j]]
    BY DEF Record, CountedFirst, TypeInv, TypeOK
  <2>2. tally[s][k] \in Nat
    BY <1>1
  <2> QED BY <2>1, <2>2
<1>8. Cardinality(Feeding(s, k)) \in Nat
  BY <1>4, FS_CardinalityType
<1> QED BY <1>6, <1>7, <1>8

\* What is appended could be sorted.
LEMMA AppendedSortable ==
    ASSUME TypeInv, NEW s \in Sessions, NEW feeds \in SUBSET Numbers, NEW content \in Contents,
           Record(s, feeds, content), ~Unverifiable(s)
    PROVE  ~Unverifiable(s)'
<1> DEFINE e == [feeds |-> feeds, hash |-> content, data |-> content]
           n == Len(records[s])
<1>1. /\ n \in Nat /\ DOMAIN records[s] = 1..n /\ e \in RecordSet /\ records[s] \in Seq(RecordSet)
  BY SessionTypes DEF RecordSet
<1>2. records'[s] = Append(records[s], e) /\ content \notin Unsortable
  BY DEF Record, AppendRecord, TypeInv, TypeOK
<1>3. /\ Append(records[s], e) \in Seq(RecordSet) /\ Len(Append(records[s], e)) = n + 1
      /\ Append(records[s], e)[n + 1] = e
      /\ \A i \in 1..n : Append(records[s], e)[i] = records[s][i]
  BY <1>1, AppendProperties
<1>4. \A i \in DOMAIN records'[s] : i = n + 1 \/ i \in 1..n
  BY <1>1, <1>2, <1>3, LenProperties
<1> QED BY <1>1, <1>2, <1>3, <1>4 DEF Unverifiable

LEMMA RecordStepInv ==
    ASSUME IInv, TypeInv', NEW s \in Sessions, NEW feeds \in SUBSET Numbers, NEW content \in Contents,
           Record(s, feeds, content)
    PROVE  IInv'
<1> USE DEF captureVars, storeVars, outVars, history
<1>1. /\ phase[s] = "open"
      /\ \A t \in Sessions \ {s} : records'[t] = records[t] /\ tally'[t] = tally[t]
      /\ UNCHANGED <<wiring, phase, active, calls, writer, files, transcript,
                     batchRecords, stream, results, uncounted, late>>
  BY DEF Record, Recordable, NotEnded, CountedFirst, AppendRecord, IInv, TypeInv, TypeOK
<1>2. Touches(s)
  BY <1>1 DEF Touches, Unmoved, SamePhase, SameStore, SameOut, SameHistory
<1>3. SessionOK(s)'
  <2>1. SessionOK(s)
    BY DEF IInv
  <2>2. UntouchedOK(s)' /\ ~results'[s].given /\ WriterOK(s)' /\ SentOK(s)'
    BY <2>1, <1>1 DEF SessionOK, UntouchedOK, WriterOK, SentOK, Ended
  <2>3. TallyOK(s)'
    <3>1. TallyOK(s) /\ (s \in uncounted' <=> s \in uncounted)
      BY <2>1, <1>1 DEF SessionOK
    <3>2. TypeInv
      BY DEF IInv
    <3>3. \A k \in Numbers :
            /\ tally'[s][k] = tally[s][k] + (IF k \in feeds THEN 1 ELSE 0)
            /\ Cardinality(Feeding(s, k)') =
                 Cardinality(Feeding(s, k)) + (IF k \in feeds THEN 1 ELSE 0)
      BY <3>2, RecordCounts
    <3> QED BY <3>1, <3>3 DEF TallyOK
  <2>4. CanonOK(s)'
    BY <2>1, <1>1, AppendedSortable DEF IInv, SessionOK, CanonOK
  <2> QED BY <2>1, <2>2, <2>3, <2>4, <1>1 DEF SessionOK
<1>4. \A t \in Sessions : SessionOK(t)'
  BY <1>2, <1>3, SessionsStep DEF IInv
<1>5. (\A c \in Calls : CallOK(c)') /\ OneCallInv'
  BY <1>1, <1>2, CallsStep
<1>6. SessionIsFindable'
  <2>1. wiring.hosted => s \in active
    BY DEF Record, Recordable
  <2> QED BY <2>1, <1>1, <1>2, FindableStep
<1> QED BY <1>4, <1>5, <1>6 DEF IInv

LEMMA RaisesStep ==
    ASSUME IInv, TypeInv', NEW s \in Sessions, RecordRaises(s)
    PROVE  IInv'
<1> USE DEF captureVars, storeVars, outVars, history
<1>1. /\ phase[s] = "open" /\ ~wiring.hosted /\ uncounted' = uncounted \cup {s}
      /\ \A t \in Sessions \ {s} : tally'[t] = tally[t]
      /\ UNCHANGED <<wiring, phase, active, records, calls, writer, files, transcript,
                     batchRecords, stream, results, late>>
  BY DEF RecordRaises, Recordable, NotEnded, CountedFirst, IInv, TypeInv, TypeOK
<1>2. Touches(s)
  BY <1>1 DEF Touches, Unmoved, SamePhase, SameStore, SameOut, SameHistory
<1>3. SessionOK(s)'
  <2>1. SessionOK(s)
    BY DEF IInv
  <2>2. UntouchedOK(s)' /\ ~results'[s].given /\ WriterOK(s)' /\ SentOK(s)'
    BY <2>1, <1>1 DEF SessionOK, UntouchedOK, WriterOK, SentOK, Ended
  <2>3. TallyOK(s)' /\ CanonOK(s)'
    BY <1>1 DEF TallyOK, CanonOK
  <2> QED BY <2>1, <2>2, <2>3, <1>1 DEF SessionOK
<1>4. \A t \in Sessions : SessionOK(t)'
  BY <1>2, <1>3, SessionsStep DEF IInv
<1>5. (\A c \in Calls : CallOK(c)') /\ OneCallInv'
  BY <1>1, <1>2, CallsStep
<1>6. SessionIsFindable'
  BY <1>1, <1>2, FindableStep
<1> QED BY <1>4, <1>5, <1>6 DEF IInv

\* A recorded dict is changed: if end_session has begun, the change is late.
LEMMA MutateStep ==
    ASSUME IInv, TypeInv', NEW s \in Sessions, NEW i \in DOMAIN records[s],
           NEW content \in Contents, Mutate(s, i, content)
    PROVE  IInv'
<1> USE DEF captureVars, storeVars, outVars, history
<1>1. /\ phase[s] \in {"open", "ended"} /\ ~wiring.hosted
      /\ records' = [records EXCEPT ![s][i].data = content]
      /\ UNCHANGED <<wiring, phase, active, tally, calls, writer, files, transcript,
                     batchRecords, stream, results, uncounted>>
  BY DEF Mutate, Reachable
<1>2. /\ \A t \in Sessions \ {s} : records'[t] = records[t]
      /\ SameCapture(s)
      /\ \A j \in DOMAIN records[s] : j # i => records'[s][j] = records[s][j]
  <2>1. TypeInv
    BY DEF IInv
  <2> QED BY <2>1, <1>1, MutatedTypes DEF SameCapture
<1>3. /\ \A t \in Sessions \ {s} : late'[t] = late[t]
      /\ phase[s] = "open" => late'[s] = late[s]
      /\ phase[s] = "ended" => late'[s] = late[s] \cup {i}
  BY DEF Mutate, IInv, TypeInv, TypeOK
<1>4. Touches(s)
  BY <1>1, <1>2, <1>3 DEF Touches, Unmoved, SamePhase, SameStore, SameOut, SameHistory
<1>5. Hashes(s)' = Hashes(s) /\ \A k \in Numbers : Feeding(s, k)' = Feeding(s, k)
  BY <1>2, HashesKept, FeedsKept
<1>6. SessionOK(s)'
  <2>1. SessionOK(s)
    BY DEF IInv
  <2>2. UntouchedOK(s)' /\ WriterOK(s)' /\ SentOK(s)'
    BY <2>1, <1>1, <1>2, <1>5 DEF SessionOK, UntouchedOK, WriterOK, SentOK, EventOf, Ended, SameCapture
  <2>3. TallyOK(s)' /\ CanonOK(s)'
    BY <2>1, <1>1, <1>5 DEF SessionOK, TallyOK, CanonOK
  <2>4. results[s].given => SummaryOK(results[s], s)'
    <3> SUFFICES ASSUME results[s].given
                 PROVE  SummaryOK(results[s], s)'
      OBVIOUS
    <3>1. SummaryOK(results[s], s) /\ phase[s] = "ended"
      BY <2>1, <1>1 DEF SessionOK, UntouchedOK, Ended
    <3> QED BY <3>1, <1>1, <1>2, <1>3, <1>5
            DEF SummaryOK, Agrees, Explains, PathHolds, SameCapture
  <2> QED BY <2>1, <2>2, <2>3, <2>4, <1>1 DEF SessionOK
<1>7. \A t \in Sessions : SessionOK(t)'
  BY <1>4, <1>6, SessionsStep DEF IInv
<1>8. ASSUME NEW c \in Calls
      PROVE  CallOK(c)'
  <2>1. CallOK(c) /\ calls'[c] = calls[c]
    BY <1>1 DEF IInv
  <2>2. CASE Suspended(c) /\ calls[c].session = s
    <3>1. SummaryOK(calls[c].summary, s) /\ phase[s] = "ended"
      BY <2>1, <2>2 DEF CallOK
    <3>2. SummaryOK(calls[c].summary, s)'
      BY <3>1, <1>1, <1>2, <1>3, <1>5
      DEF SummaryOK, Agrees, Explains, PathHolds, SameCapture
    <3> QED BY <3>2, <2>1, <2>2, <1>1 DEF CallOK, Suspended
  <2>3. CASE ~(Suspended(c) /\ calls[c].session = s)
    <3>1. Suspended(c) => calls[c].session \in Sessions
      BY CallTypes DEF IInv
    <3> QED BY <3>1, <2>1, <2>3, <1>4, FrameCall DEF Touches
  <2> QED BY <2>2, <2>3
<1>9. OneCallInv'
  BY <1>1 DEF IInv, OneCallInv, Suspended
<1>10. SessionIsFindable'
  BY <1>1 DEF SessionIsFindable
<1> QED BY <1>7, <1>8, <1>9, <1>10 DEF IInv

-----------------------------------------------------------------------------
(***************************************************************************)
(* end_session.                                                            *)
(***************************************************************************)
\* The summary end_session starts from agrees with the capture and explains
\* whatever has changed in it; filling in what became of it changes neither.
LEMMA FreshSummary ==
    ASSUME IInv, NEW s \in Sessions, ~Ended(s)
    PROVE  LET sm == SessionSummary(s)
           IN  Agrees(sm, s) /\ Explains(sm, s) /\ ~sm.path
<1>1. transcript[s] = <<>>
  BY DEF IInv, SessionOK, UntouchedOK
<1> QED BY <1>1 DEF SessionSummary, Agrees, Explains, Mismatches

\* A step of one call of end_session on s: it returns the summary sm, or is
\* suspended with it, or was cancelled, and the rest of the invariant follows
\* from what it did to the summary, to what was sent and to the files.
Answered(c, s, sm) == calls'[c] = NoCall /\ results'[s] = sm

Waiting(c, s, sm) ==
    /\ \E stage \in {"storing", "batch", "feedback"} :
         /\ calls'[c] = [stage |-> stage, session |-> s, summary |-> sm]
         /\ stage # "feedback" => batchRecords'[s] = <<>>
    /\ results'[s] = results[s] /\ ~results[s].given
    /\ stream'[s] = <<>>

Cancelled(c, s) ==
    calls'[c] = NoCall /\ results'[s] = results[s] /\ ~results[s].given /\ ~wiring.hosted

OwnCall(c, s) ==
    /\ Suspended(c) => calls[c].session = s
    /\ \A d \in Calls \ {c} : calls'[d] = calls[d] /\ (Suspended(d) => calls[d].session # s)

LEMMA AnswerStep ==
    ASSUME IInv, TypeInv', NEW c \in Calls, NEW s \in Sessions, NEW sm \in Summaries,
           Touches(s), OwnCall(c, s),
           wiring' = wiring, phase'[s] = "ended", s \notin active',
           SameCapture(s), records'[s] = records[s], s \in uncounted' <=> s \in uncounted,
           SummaryOK(sm, s)', SentOK(s)', WriterOK(s)',
           Answered(c, s, sm) \/ Waiting(c, s, sm) \/ Cancelled(c, s)
    PROVE  IInv'
<1>1. SessionOK(s)'
  <2>1. TallyOK(s)' /\ CanonOK(s)'
    <3>1. TallyOK(s) /\ CanonOK(s) /\ \A k \in Numbers : Feeding(s, k)' = Feeding(s, k)
      BY FeedsKept DEF IInv, SessionOK
    <3> QED BY <3>1 DEF TallyOK, CanonOK, Unverifiable, SameCapture
  <2>2. results'[s].given => results'[s] = sm
    BY DEF Answered, Waiting, Cancelled
  <2>3. results'[s].given => SummaryOK(results[s], s)'
    BY <2>2 DEF SummaryOK, Agrees, Explains, PathHolds
  <2> QED BY <2>1, <2>3 DEF SessionOK, UntouchedOK, Ended
<1>2. \A t \in Sessions : SessionOK(t)'
  BY <1>1, SessionsStep DEF IInv
<1>3. ASSUME NEW d \in Calls
      PROVE  CallOK(d)'
  <2>1. CASE d = c
    <3>1. calls'[c].stage # "free" => Waiting(c, s, sm)
      BY DEF Answered, Cancelled, NoCall
    <3>2. ASSUME Waiting(c, s, sm)
          PROVE  CallOK(c)'
      <4>1. PICK stage \in {"storing", "batch", "feedback"} :
              /\ calls'[c] = [stage |-> stage, session |-> s, summary |-> sm]
              /\ stage # "feedback" => batchRecords'[s] = <<>>
        BY <3>2 DEF Waiting
      <4>2. /\ calls'[c].stage = stage /\ calls'[c].session = s /\ calls'[c].summary = sm
        BY <4>1
      <4>3. SummaryOK(calls[c].summary, s)'
        BY <4>2 DEF SummaryOK, Agrees, Explains, PathHolds
      <4>4. SummaryOK(calls[c].summary, calls[c].session)'
        BY <4>2, <4>3 DEF SummaryOK, Agrees, Explains, PathHolds
      <4> QED BY <3>2, <4>1, <4>2, <4>4 DEF Waiting, CallOK
    <3> QED BY <2>1, <3>1, <3>2 DEF CallOK, Suspended
  <2>2. CASE d # c
    <3>1. CallOK(d) /\ calls'[d] = calls[d] /\ (Suspended(d) => calls[d].session # s)
      BY <2>2 DEF IInv, OwnCall
    <3>2. Suspended(d) => calls[d].session \in Sessions
      BY CallTypes DEF IInv
    <3> QED BY <3>1, <3>2, FrameCall DEF Touches
  <2> QED BY <2>1, <2>2
<1>4. OneCallInv'
  <2> SUFFICES ASSUME NEW d \in Calls, NEW e \in Calls, Suspended(d)', Suspended(e)',
                      calls'[d].session = calls'[e].session
               PROVE  d = e
    BY DEF OneCallInv
  <2>1. calls'[c].stage # "free" => calls'[c].session = s
    BY DEF Answered, Waiting, Cancelled, NoCall
  <2>2. \A f \in Calls \ {c} : Suspended(f)' => Suspended(f) /\ calls'[f].session # s
    BY DEF OwnCall, Suspended
  <2>3. CASE d # c /\ e # c
    BY <2>2, <2>3 DEF OwnCall, IInv, OneCallInv
  <2> QED BY <2>1, <2>2, <2>3 DEF Suspended
<1>5. SessionIsFindable'
  <2> SUFFICES ASSUME wiring.hosted, NEW t \in Sessions
               PROVE  /\ phase'[t] = "open" => StatusOf(t)' = "active"
                      /\ phase'[t] = "ended" =>
                           \/ StatusOf(t)' = "completed"
                           \/ \E d \in Calls : calls'[d].stage # "free" /\ calls'[d].session = t
    BY DEF SessionIsFindable
  <2>1. CASE t = s
    <3>1. CASE Answered(c, s, sm)
      BY <2>1, <3>1 DEF Answered, StatusOf, Summaries
    <3>2. CASE Waiting(c, s, sm)
      BY <2>1, <3>2 DEF Waiting
    <3> QED BY <3>1, <3>2 DEF Cancelled
  <2>2. CASE t # s
    <3>1. /\ phase'[t] = phase[t] /\ (t \in active' <=> t \in active)
          /\ results'[t] = results[t]
      BY <2>2 DEF Touches, Unmoved, SamePhase
    <3>2. \A d \in Calls : Suspended(d) /\ calls[d].session = t => calls'[d] = calls[d]
      BY <2>2 DEF OwnCall
    <3> QED BY <3>1, <3>2 DEF IInv, SessionIsFindable, StatusOf, Suspended
  <2> QED BY <2>1, <2>2
<1> QED BY <1>2, <1>3, <1>4, <1>5 DEF IInv

\* Filling in the path, the batch id or the feedback keeps a summary true, if
\* the step leaves the records, the transcript and what explains them alone.
SameStory(sm, filled) ==
    filled.root = sm.root /\ filled.counts = sm.counts /\ filled.errors = sm.errors

LEMMA SummaryKept ==
    ASSUME NEW s \in Sessions, NEW sm, NEW filled, SameStory(sm, filled),
           Agrees(sm, s), Explains(sm, s),
           records'[s] = records[s], tally'[s] = tally[s],
           transcript'[s] = transcript[s], late'[s] = late[s],
           PathHolds(filled, s)'
    PROVE  SummaryOK(filled, s)'
<1>1. Hashes(s)' = Hashes(s)
  BY UnmovedCapture, HashesKept
<1>2. Agrees(filled, s)'
  BY <1>1 DEF Agrees, SameStory
<1>3. Explains(filled, s)'
  BY DEF Explains, SameStory
<1> QED BY <1>2, <1>3 DEF SummaryOK

LEMMA FilledSame ==
    ASSUME NEW sm \in Summaries, NEW b \in BOOLEAN
    PROVE  /\ SameStory(sm, [sm EXCEPT !.path = b]) /\ [sm EXCEPT !.path = b].path = b
           /\ SameStory(sm, [sm EXCEPT !.batchId = b]) /\ [sm EXCEPT !.batchId = b].path = sm.path
           /\ SameStory(sm, [sm EXCEPT !.feedback = b]) /\ [sm EXCEPT !.feedback = b].path = sm.path
BY DEF Summaries, SameStory

\* end_session up to its first await: no other call can be about this session,
\* which was open until now.
LEMMA EndSessionStep ==
    ASSUME IInv, TypeInv', NEW c \in Calls, NEW s \in Sessions, EndSession(c, s)
    PROVE  IInv'
<1> USE DEF captureVars, storeVars, outVars, history
<1>t. TypeInv
  BY DEF IInv
<1>1. /\ calls[c].stage = "free" /\ phase[s] = "open"
      /\ phase' = [phase EXCEPT ![s] = "ended"] /\ active' = active \ {s}
      /\ UNCHANGED <<wiring, records, tally, files, transcript, batchRecords, stream,
                     uncounted, late>>
  BY DEF EndSession, Recordable, NotEnded, Pop
<1>2. /\ writer[s] = "none" /\ files[s] = 0 /\ transcript[s] = <<>>
      /\ batchRecords[s] = <<>> /\ stream[s] = <<>> /\ ~results[s].given /\ SentOK(s)
  BY <1>1 DEF IInv, SessionOK, UntouchedOK, Ended
<1>3. \A d \in Calls : Suspended(d) => calls[d].session # s
  BY <1>1 DEF IInv, CallOK
<1>4. PICK base : base = SessionSummary(s)
  OBVIOUS
<1>5. base \in Summaries /\ Agrees(base, s) /\ Explains(base, s) /\ ~base.path
  BY <1>1, <1>4, <1>t, SummaryType, FreshSummary DEF Ended
<1>6. phase'[s] = "ended" /\ s \notin active' /\ SameCapture(s) /\ SentOK(s)'
  <2>1. SameCapture(s) /\ Hashes(s)' = Hashes(s)
    BY <1>1, UnmovedCapture, HashesKept
  <2>2. phase'[s] = "ended"
    BY <1>1, <1>t DEF TypeInv, TypeOK
  <2> QED BY <2>1, <2>2, <1>1, <1>2 DEF SentOK, EventOf
<1>7. \A t \in Sessions \ {s} : SamePhase(t)
  BY <1>1, <1>t DEF SamePhase, TypeInv, TypeOK
<1>8. CASE wiring.storage = "none"
  <2>1. Return(c, s, base) /\ writer' = writer
    BY <1>8, <1>4 DEF EndSession
  <2>2. Touches(s) /\ OwnCall(c, s) /\ Answered(c, s, base)
    BY <2>1, <1>1, <1>3, <1>7, <1>t
    DEF Touches, Unmoved, SameStore, SameOut, SameHistory, Return, OwnCall, Answered,
        Suspended, TypeInv, TypeOK
  <2>3. SummaryOK(base, s)' /\ WriterOK(s)'
    <3>1. PathHolds(base, s)'
      BY <1>5 DEF PathHolds
    <3> QED BY <3>1, <2>1, <1>1, <1>2, <1>5, SummaryKept DEF WriterOK, SameStory
  <2> QED BY <2>2, <2>3, <1>1, <1>5, <1>6, AnswerStep
<1>9. CASE wiring.storage = "s3"
  <2>1. PICK sm : sm = [base EXCEPT !.path = TRUE]
    OBVIOUS
  <2>2. PICK numbered : numbered = [sm EXCEPT !.batchId = TRUE]
    OBVIOUS
  <2>3. numbered \in Summaries /\ SameStory(base, numbered)
    <3>1. sm \in Summaries /\ SameStory(base, sm)
      BY <2>1, <1>5, SummaryFilled, FilledSame
    <3>2. numbered \in Summaries /\ SameStory(sm, numbered)
      BY <2>2, <3>1, SummaryFilled, FilledSame
    <3> QED BY <3>1, <3>2 DEF SameStory
  <2>4. AfterStorage(c, s, sm) /\ writer' = writer
    BY <1>9, <1>4, <2>1 DEF EndSession
  <2>5. Suspend(c, s, "batch", numbered) \/ Return(c, s, numbered)
    BY <2>2, <2>4 DEF AfterStorage
  <2>6. Touches(s) /\ OwnCall(c, s) /\ (Answered(c, s, numbered) \/ Waiting(c, s, numbered))
    BY <2>4, <2>5, <1>1, <1>2, <1>3, <1>7, <1>t
    DEF Touches, Unmoved, SameStore, SameOut, SameHistory, Return, Suspend, OwnCall, Answered,
        Waiting, Suspended, TypeInv, TypeOK
  <2>7. SummaryOK(numbered, s)' /\ WriterOK(s)'
    <3>1. PathHolds(numbered, s)'
      BY <1>1, <1>9 DEF PathHolds
    <3> QED BY <3>1, <2>3, <2>4, <1>1, <1>2, <1>5, SummaryKept DEF WriterOK
  <2> QED BY <2>3, <2>6, <2>7, <1>1, <1>6, AnswerStep
<1>10. CASE wiring.storage = "local"
  <2>1. Suspend(c, s, "storing", base) /\ writer' = [writer EXCEPT ![s] = "running"]
    BY <1>10, <1>4 DEF EndSession
  <2>2. writer'[s] = "running" /\ \A t \in Sessions \ {s} : writer'[t] = writer[t]
    BY <2>1, <1>t DEF TypeInv, TypeOK
  <2>3. Touches(s) /\ OwnCall(c, s) /\ Waiting(c, s, base)
    BY <2>1, <2>2, <1>1, <1>2, <1>3, <1>7, <1>t
    DEF Touches, Unmoved, SameStore, SameOut, SameHistory, Suspend, OwnCall, Waiting,
        Suspended, TypeInv, TypeOK
  <2>4. SummaryOK(base, s)' /\ WriterOK(s)'
    <3>1. PathHolds(base, s)'
      BY <1>5 DEF PathHolds
    <3>2. WriterOK(s)'
      BY <2>2, <1>1, <1>2 DEF WriterOK
    <3> QED BY <3>1, <3>2, <1>1, <1>5, SummaryKept DEF SameStory
  <2> QED BY <2>3, <2>4, <1>1, <1>5, <1>6, AnswerStep
<1> QED
  <2>1. wiring.storage \in {"none", "local", "s3"}
    BY <1>t, SessionBounds DEF TypeInv, TypeOK
  <2> QED BY <2>1, <1>8, <1>9, <1>10

\* An end_session that raises leaves an ended session without a call; that is
\* no server's session.
LEMMA EndRaisesStep ==
    ASSUME IInv, TypeInv', NEW s \in Sessions, EndRaises(s)
    PROVE  IInv'
<1> USE DEF captureVars, storeVars, outVars
<1>1. /\ phase[s] = "open" /\ Unverifiable(s)
      /\ phase' = [phase EXCEPT ![s] = "ended"] /\ active' = active \ {s}
      /\ UNCHANGED <<wiring, records, tally, calls, writer, files, transcript,
                     batchRecords, stream, results, uncounted, late>>
  BY DEF EndRaises, Recordable, NotEnded, Pop
<1>2. ~wiring.hosted /\ phase'[s] = "ended" /\ ~results[s].given
  BY <1>1 DEF IInv, SessionOK, CanonOK, UntouchedOK, Ended, TypeInv, TypeOK
<1>3. Touches(s)
  BY <1>1 DEF Touches, Unmoved, SamePhase, SameStore, SameOut, SameHistory, IInv, TypeInv, TypeOK
<1>4. SessionOK(s)'
  <2>1. SessionOK(s) /\ Hashes(s)' = Hashes(s) /\ \A k \in Numbers : Feeding(s, k)' = Feeding(s, k)
    BY <1>1, UnmovedCapture, HashesKept, FeedsKept DEF IInv
  <2>2. UntouchedOK(s)' /\ WriterOK(s)' /\ SentOK(s)' /\ TallyOK(s)' /\ CanonOK(s)'
    BY <2>1, <1>1, <1>2
    DEF SessionOK, UntouchedOK, Ended, WriterOK, SentOK, EventOf, TallyOK, CanonOK
  <2> QED BY <2>2, <1>1, <1>2 DEF SessionOK
<1>5. \A t \in Sessions : SessionOK(t)'
  BY <1>3, <1>4, SessionsStep DEF IInv
<1>6. (\A c \in Calls : CallOK(c)') /\ OneCallInv'
  BY <1>1, <1>3, CallsStep
<1>7. SessionIsFindable'
  BY <1>1, <1>2 DEF SessionIsFindable
<1> QED BY <1>5, <1>6, <1>7 DEF IInv

\* A call that is suspended is the only one about its session; what its step
\* leaves alone.
LEMMA OnlyCall ==
    ASSUME IInv, NEW c \in Calls, Suspended(c),
           \A d \in Calls \ {c} : calls'[d] = calls[d]
    PROVE  /\ OwnCall(c, calls[c].session)
           /\ calls[c].session \in Sessions /\ calls[c].summary \in Summaries
           /\ phase[calls[c].session] = "ended" /\ calls[c].session \notin active
           /\ ~results[calls[c].session].given
           /\ Agrees(calls[c].summary, calls[c].session)
           /\ Explains(calls[c].summary, calls[c].session)
           /\ PathHolds(calls[c].summary, calls[c].session)
           /\ stream[calls[c].session] = <<>>
           /\ calls[c].stage # "feedback" => batchRecords[calls[c].session] = <<>>
<1>1. calls[c].session \in Sessions /\ calls[c].summary \in Summaries
  BY CallTypes DEF IInv
<1>2. OwnCall(c, calls[c].session)
  BY DEF OwnCall, IInv, OneCallInv
<1>3. phase[calls[c].session] = "ended" /\ calls[c].session \notin active
  BY <1>1 DEF IInv, CallOK, SessionOK
<1> QED BY <1>1, <1>2, <1>3 DEF IInv, CallOK, SummaryOK

\* What all the later steps of end_session leave alone.
SameElsewhere ==
    UNCHANGED <<wiring, phase, active, records, tally, writer, files, transcript,
                uncounted, late>>

\* Such a step sends nothing but the root, or nothing but the event, of its
\* session, and answers only for that session.
OutStep(s) ==
    \A t \in Sessions \ {s} : SameOut(t) /\ results'[t] = results[t]

LEMMA LaterStep ==
    ASSUME IInv, TypeInv', NEW c \in Calls, Suspended(c), NEW s \in Sessions,
           s = calls[c].session, NEW filled \in Summaries, SameStory(calls[c].summary, filled),
           SameElsewhere, OutStep(s), \A d \in Calls \ {c} : calls'[d] = calls[d],
           wiring.storage = "local" /\ filled.path => writer[s] = "done",
           SentOK(s)',
           Answered(c, s, filled) \/ Waiting(c, s, filled) \/ Cancelled(c, s)
    PROVE  IInv'
<1>1. PICK sm : sm = calls[c].summary
  OBVIOUS
<1>2. /\ OwnCall(c, s) /\ phase[s] = "ended" /\ s \notin active
      /\ Agrees(sm, s) /\ Explains(sm, s)
  BY <1>1, OnlyCall
<1>3. SummaryOK(filled, s)'
  <2>1. PathHolds(filled, s)'
    BY DEF PathHolds, SameElsewhere
  <2> QED BY <2>1, <1>1, <1>2, SummaryKept DEF SameElsewhere
<1>4. SameCapture(s) /\ WriterOK(s)'
  BY UnmovedCapture DEF SameElsewhere, IInv, SessionOK, WriterOK
<1>5. Touches(s)
  BY DEF SameElsewhere, OutStep, Touches, Unmoved, SamePhase, SameStore, SameHistory
<1> QED BY <1>2, <1>3, <1>4, <1>5, AnswerStep DEF SameElsewhere

LEMMA StorageReturnsStep ==
    ASSUME IInv, TypeInv', NEW c \in Calls, StorageReturns(c)
    PROVE  IInv'
<1> USE DEF captureVars, storeVars, outVars, history
<1>1. Suspended(c) /\ calls[c].stage = "storing"
  BY DEF StorageReturns, Suspended
<1>2. PICK s : s = calls[c].session
  OBVIOUS
<1>3. PICK sm : sm = calls[c].summary
  OBVIOUS
<1>4. PICK done : done = WrittenInFull(s)
  OBVIOUS
<1>5. PICK stored : stored = [sm EXCEPT !.path = done]
  OBVIOUS
<1>6. PICK numbered : numbered = [stored EXCEPT !.batchId = TRUE]
  OBVIOUS
<1>7. AfterStorage(c, s, stored) /\ SameElsewhere /\ UNCHANGED <<batchRecords, stream>>
  BY <1>2, <1>3, <1>4, <1>5 DEF StorageReturns, SameElsewhere
<1>8. Suspend(c, s, "batch", numbered) \/ Return(c, s, numbered)
  BY <1>6, <1>7 DEF AfterStorage
<1>9. \A d \in Calls \ {c} : calls'[d] = calls[d]
  BY <1>8 DEF Suspend, Return, IInv, TypeInv, TypeOK
<1>10. /\ s \in Sessions /\ sm \in Summaries /\ ~results[s].given
       /\ stream[s] = <<>> /\ batchRecords[s] = <<>>
  BY <1>1, <1>2, <1>3, <1>9, OnlyCall
<1>11. numbered \in Summaries /\ SameStory(sm, numbered) /\ numbered.path = done
  <2>1. done \in BOOLEAN
    BY <1>4 DEF WrittenInFull
  <2>2. stored \in Summaries /\ SameStory(sm, stored) /\ stored.path = done
    BY <2>1, <1>5, <1>10, SummaryFilled, FilledSame
  <2>3. numbered \in Summaries /\ SameStory(stored, numbered) /\ numbered.path = stored.path
    BY <2>2, <1>6, SummaryFilled, FilledSame
  <2> QED BY <2>2, <2>3 DEF SameStory
<1>12. SentOK(s)'
  BY <1>7, <1>10 DEF SentOK
<1>13. OutStep(s) /\ (Answered(c, s, numbered) \/ Waiting(c, s, numbered))
  BY <1>7, <1>8, <1>10 DEF OutStep, SameOut, Suspend, Return, Answered, Waiting, IInv, TypeInv, TypeOK
<1>14. numbered.path => writer[s] = "done"
  BY <1>4, <1>11 DEF WrittenInFull
<1> QED BY <1>1, <1>2, <1>3, <1>7, <1>9, <1>10, <1>11, <1>12, <1>13, <1>14, LaterStep

LEMMA FirstOne ==
    ASSUME NEW S, NEW e \in S
    PROVE  Append(<<>>, e) = <<e>>
OBVIOUS

\* The root that is pushed is that of the capture.
LEMMA PushStep ==
    ASSUME IInv, NEW c \in Calls, calls[c].stage = "batch", NEW s \in Sessions,
           s = calls[c].session, \A d \in Calls \ {c} : calls'[d] = calls[d],
           records' = records, tally' = tally, stream' = stream,
           PushRoot(c) \/ UNCHANGED batchRecords
    PROVE  SentOK(s)' /\ stream'[s] = <<>> /\ \A t \in Sessions \ {s} : SameOut(t)
<1>1. /\ stream[s] = <<>> /\ batchRecords[s] = <<>> /\ calls[c].summary.root = Hashes(s)
  BY OnlyCall DEF Suspended, Agrees
<1>2. Hashes(s)' = Hashes(s)
  BY UnmovedCapture, HashesKept
<1>3. batchRecords'[s] \in {<<>>, <<Hashes(s)>>} /\ \A t \in Sessions \ {s} : batchRecords'[t] = batchRecords[t]
  <2>1. PICK root : root = Hashes(s)
    OBVIOUS
  <2>2. Append(<<>>, root) = <<root>>
    BY FirstOne
  <2>3. PushRoot(c) => batchRecords' = [batchRecords EXCEPT ![s] = <<root>>]
    BY <2>1, <2>2, <1>1 DEF PushRoot
  <2> QED BY <2>1, <2>3, <1>1 DEF IInv, TypeInv, TypeOK
<1> QED BY <1>1, <1>2, <1>3 DEF SentOK, SameOut

LEMMA EventStep ==
    ASSUME IInv, NEW c \in Calls, calls[c].stage = "feedback", NEW s \in Sessions,
           s = calls[c].session, \A d \in Calls \ {c} : calls'[d] = calls[d],
           records' = records, tally' = tally, batchRecords' = batchRecords,
           AddEvent(c) \/ UNCHANGED stream
    PROVE  SentOK(s)' /\ \A t \in Sessions \ {s} : SameOut(t)
<1>1. stream[s] = <<>> /\ \A k \in Reported : calls[c].summary.counts[k] = tally[s][k]
  BY OnlyCall DEF Suspended, Agrees
<1>2. Hashes(s)' = Hashes(s) /\ batchRecords[s] \in {<<>>, <<Hashes(s)>>}
  BY UnmovedCapture, HashesKept DEF IInv, SessionOK, SentOK
<1>3. stream'[s] \in {<<>>, <<EventOf(s)>>} /\ \A t \in Sessions \ {s} : stream'[t] = stream[t]
  <2>1. PICK event : event = EventOf(s)
    OBVIOUS
  <2>2. Append(<<>>, event) = <<event>>
    BY FirstOne
  <2>3. event = [k \in Numbers |-> IF k \in {"tools", "accesses"} THEN tally[s][k]
                                   ELSE calls[c].summary.counts[k]]
    BY <2>1, <1>1 DEF EventOf, Numbers, Reported
  <2>4. AddEvent(c) => stream' = [stream EXCEPT ![s] = <<event>>]
    BY <2>2, <2>3, <1>1 DEF AddEvent
  <2> QED BY <2>1, <2>4, <1>1 DEF IInv, TypeInv, TypeOK
<1>4. EventOf(s)' = EventOf(s)
  BY DEF EventOf
<1> QED BY <1>2, <1>3, <1>4 DEF SentOK, SameOut

LEMMA EnqueueStep ==
    ASSUME IInv, TypeInv', NEW c \in Calls, Enqueue(c) \/ EnqueueFails(c)
    PROVE  IInv'
<1> USE DEF captureVars, storeVars, outVars, history
<1>1. PICK s : s = calls[c].session
  OBVIOUS
<1>2. PICK sm : sm = calls[c].summary
  OBVIOUS
<1>3. /\ calls[c].stage = "batch" /\ Suspended(c) /\ Suspend(c, s, "feedback", sm)
      /\ SameElsewhere /\ UNCHANGED stream
      /\ PushRoot(c) \/ UNCHANGED batchRecords
  BY <1>1, <1>2 DEF Enqueue, EnqueueFails, SameElsewhere, Suspended
<1>4. \A d \in Calls \ {c} : calls'[d] = calls[d]
  BY <1>3 DEF Suspend, IInv, TypeInv, TypeOK
<1>5. /\ s \in Sessions /\ sm \in Summaries /\ ~results[s].given
      /\ PathHolds(sm, s)
  BY <1>1, <1>2, <1>3, <1>4, OnlyCall
<1>6. SentOK(s)' /\ stream'[s] = <<>> /\ \A t \in Sessions \ {s} : SameOut(t)
  BY <1>1, <1>3, <1>4, <1>5, PushStep DEF SameElsewhere
<1>7. OutStep(s) /\ Waiting(c, s, sm)
  BY <1>3, <1>5, <1>6 DEF OutStep, Suspend, Waiting, IInv, TypeInv, TypeOK
<1>8. SameStory(sm, sm)
  BY DEF SameStory
<1> QED BY <1>1, <1>2, <1>3, <1>4, <1>5, <1>6, <1>7, <1>8, LaterStep DEF PathHolds

LEMMA EmitStep ==
    ASSUME IInv, TypeInv', NEW c \in Calls, Emit(c) \/ EmitFails(c)
    PROVE  IInv'
<1> USE DEF captureVars, storeVars, outVars, history
<1>1. PICK s : s = calls[c].session
  OBVIOUS
<1>2. PICK sm : sm = calls[c].summary
  OBVIOUS
<1>3. PICK sent : sent = [sm EXCEPT !.feedback = TRUE]
  OBVIOUS
<1>4. /\ calls[c].stage = "feedback" /\ Suspended(c)
      /\ Return(c, s, sm) \/ Return(c, s, sent)
      /\ SameElsewhere /\ UNCHANGED batchRecords
      /\ AddEvent(c) \/ UNCHANGED stream
  BY <1>1, <1>2, <1>3 DEF Emit, EmitFails, SameElsewhere, Suspended
<1>5. \A d \in Calls \ {c} : calls'[d] = calls[d]
  BY <1>4 DEF Return, IInv, TypeInv, TypeOK
<1>6. s \in Sessions /\ sm \in Summaries /\ PathHolds(sm, s)
  BY <1>1, <1>2, <1>4, <1>5, OnlyCall
<1>7. sent \in Summaries /\ SameStory(sm, sent) /\ sent.path = sm.path
  BY <1>3, <1>6, SummaryFilled, FilledSame
<1>8. SentOK(s)' /\ \A t \in Sessions \ {s} : SameOut(t)
  BY <1>1, <1>4, <1>5, <1>6, EventStep DEF SameElsewhere
<1>9. OutStep(s) /\ (Answered(c, s, sm) \/ Answered(c, s, sent))
  BY <1>4, <1>6, <1>8 DEF OutStep, Return, Answered, IInv, TypeInv, TypeOK
<1>10. SameStory(sm, sm)
  BY DEF SameStory
<1>11. CASE Answered(c, s, sm)
  BY <1>11, <1>1, <1>2, <1>4, <1>5, <1>6, <1>8, <1>9, <1>10, LaterStep DEF PathHolds
<1>12. CASE Answered(c, s, sent)
  BY <1>12, <1>1, <1>2, <1>4, <1>5, <1>6, <1>7, <1>8, <1>9, LaterStep DEF PathHolds
<1> QED BY <1>9, <1>11, <1>12

LEMMA CancelStep ==
    ASSUME IInv, TypeInv', NEW c \in Calls, Cancel(c)
    PROVE  IInv'
<1> USE DEF captureVars, storeVars, outVars, history
<1>1. PICK s : s = calls[c].session
  OBVIOUS
<1>2. PICK sm : sm = calls[c].summary
  OBVIOUS
<1>3. /\ Suspended(c) /\ ~wiring.hosted /\ calls' = [calls EXCEPT ![c] = NoCall]
      /\ SameElsewhere /\ UNCHANGED results
      /\ \/ UNCHANGED <<batchRecords, stream>>
         \/ calls[c].stage = "batch" /\ PushRoot(c) /\ UNCHANGED stream
         \/ calls[c].stage = "feedback" /\ AddEvent(c) /\ UNCHANGED batchRecords
  BY DEF Cancel, SameElsewhere, Suspended
<1>4. \A d \in Calls \ {c} : calls'[d] = calls[d]
  BY <1>3
<1>5. /\ s \in Sessions /\ sm \in Summaries /\ ~results[s].given
      /\ PathHolds(sm, s)
  BY <1>1, <1>2, <1>3, <1>4, OnlyCall
<1>6. SentOK(s)' /\ \A t \in Sessions \ {s} : SameOut(t)
  <2>1. CASE UNCHANGED <<batchRecords, stream>>
    <3>1. Hashes(s)' = Hashes(s) /\ EventOf(s)' = EventOf(s)
      BY <1>3, <1>5, UnmovedCapture, HashesKept DEF SameElsewhere, EventOf
    <3> QED BY <2>1, <3>1, <1>5 DEF SameOut, SentOK, IInv, SessionOK
  <2>2. CASE calls[c].stage = "batch" /\ PushRoot(c) /\ UNCHANGED stream
    BY <2>2, <1>1, <1>3, <1>4, <1>5, PushStep DEF SameElsewhere
  <2>3. CASE calls[c].stage = "feedback" /\ AddEvent(c) /\ UNCHANGED batchRecords
    BY <2>3, <1>1, <1>3, <1>4, <1>5, EventStep DEF SameElsewhere
  <2> QED BY <2>1, <2>2, <2>3, <1>3
<1>7. OutStep(s) /\ Cancelled(c, s)
  BY <1>3, <1>5, <1>6 DEF OutStep, Cancelled, IInv, TypeInv, TypeOK
<1>8. SameStory(sm, sm)
  BY DEF SameStory
<1> QED BY <1>1, <1>2, <1>3, <1>4, <1>5, <1>6, <1>7, <1>8, LaterStep DEF PathHolds

-----------------------------------------------------------------------------
(***************************************************************************)
(* The storage thread, and the death of the process.                       *)
(***************************************************************************)
\* What the thread writes is what the records hold then, and a difference from
\* the hashes is explained already.
LEMMA ThreadStep ==
    ASSUME IInv, TypeInv', NEW s \in Sessions, writer[s] = "running", Touches(s),
           UNCHANGED <<wiring, phase, active, records, tally, calls, batchRecords,
                       stream, results, uncounted, late>>,
           WriterOK(s)',
           \A i \in DOMAIN transcript'[s] :
               \/ i \in DOMAIN transcript[s] /\ transcript'[s][i] = transcript[s][i]
               \/ i \in DOMAIN records[s] /\ transcript'[s][i] = records[s][i].data
    PROVE  IInv'
<1>1. SameCapture(s) /\ Hashes(s)' = Hashes(s) /\ \A k \in Numbers : Feeding(s, k)' = Feeding(s, k)
  BY UnmovedCapture, HashesKept, FeedsKept
<1>2. ASSUME NEW sm, SummaryOK(sm, s)
      PROVE  SummaryOK(sm, s)'
  <2>1. Agrees(sm, s)' /\ PathHolds(sm, s)'
    BY <1>1, <1>2 DEF SummaryOK, Agrees, PathHolds
  <2>2. Explains(sm, s)'
    BY <1>2 DEF SummaryOK, Explains
  <2> QED BY <2>1, <2>2 DEF SummaryOK
<1>3. SessionOK(s)'
  <2>1. SessionOK(s) /\ Ended(s)
    BY DEF IInv, SessionOK, UntouchedOK
  <2>2. SentOK(s)' /\ TallyOK(s)' /\ CanonOK(s)'
    BY <2>1, <1>1 DEF SessionOK, SentOK, EventOf, TallyOK, CanonOK, Unverifiable
  <2>3. results'[s].given => SummaryOK(results[s], s)'
    <3>1. PICK sm : sm = results[s]
      OBVIOUS
    <3>2. results[s].given => SummaryOK(sm, s)'
      BY <3>1, <2>1, <1>2 DEF SessionOK
    <3> QED BY <3>1, <3>2 DEF SummaryOK, Agrees, Explains, PathHolds
  <2> QED BY <2>1, <2>2, <2>3 DEF SessionOK, UntouchedOK, Ended
<1>4. \A t \in Sessions : SessionOK(t)'
  BY <1>3, SessionsStep DEF IInv
<1>5. ASSUME NEW c \in Calls
      PROVE  CallOK(c)'
  <2>1. CallOK(c) /\ calls'[c] = calls[c]
    BY DEF IInv
  <2>2. CASE Suspended(c) /\ calls[c].session = s
    <3>1. PICK sm : sm = calls[c].summary
      OBVIOUS
    <3>2. SummaryOK(sm, s)'
      BY <3>1, <2>1, <2>2, <1>2 DEF CallOK
    <3>3. SummaryOK(calls[c].summary, calls[c].session)'
      BY <3>1, <3>2, <2>2 DEF SummaryOK, Agrees, Explains, PathHolds
    <3> QED BY <3>3, <2>1, <2>2 DEF CallOK, Suspended
  <2>3. CASE ~(Suspended(c) /\ calls[c].session = s)
    <3>1. Suspended(c) => calls[c].session \in Sessions
      BY CallTypes DEF IInv
    <3> QED BY <3>1, <2>1, <2>3, FrameCall DEF Touches
  <2> QED BY <2>2, <2>3
<1>6. OneCallInv' /\ SessionIsFindable'
  BY DEF IInv, OneCallInv, Suspended, SessionIsFindable, StatusOf
<1> QED BY <1>4, <1>5, <1>6 DEF IInv

LEMMA WriteArtifactStep ==
    ASSUME IInv, TypeInv', NEW s \in Sessions, WriteArtifact(s)
    PROVE  IInv'
<1> USE DEF captureVars, storeVars, outVars, history
<1>t. TypeInv /\ WriterOK(s) /\ Len(Artifacts) = 5
  BY DEF IInv, SessionOK, Artifacts
<1>1. /\ writer[s] = "running" /\ files[s] \in 0..5 /\ files[s] < 5
      /\ files' = [files EXCEPT ![s] = files[s] + 1]
      /\ writer' = [writer EXCEPT ![s] = IF files[s] + 1 = 5 THEN "done" ELSE writer[s]]
      /\ UNCHANGED <<wiring, phase, active, records, tally, calls, batchRecords,
                     stream, results, uncounted, late>>
  BY <1>t, SessionTypes DEF WriteArtifact, WriterOK, TypeInv, TypeOK
<1>2. /\ files'[s] = files[s] + 1
      /\ writer'[s] = IF files[s] + 1 = 5 THEN "done" ELSE "running"
      /\ \A t \in Sessions \ {s} : files'[t] = files[t] /\ writer'[t] = writer[t]
  BY <1>1, <1>t DEF TypeInv, TypeOK
<1>3. /\ \A t \in Sessions \ {s} : transcript'[t] = transcript[t]
      /\ files[s] = 2 => transcript'[s] = [i \in DOMAIN records[s] |-> records[s][i].data]
      /\ files[s] # 2 => transcript'[s] = transcript[s]
  <2>1. NextFile(s) = "transcript.jsonl" <=> files[s] = 2
    <3>1. files[s] \in {0, 1, 2, 3, 4}
      BY <1>1
    <3> QED BY <3>1 DEF NextFile, Artifacts
  <2> QED BY <2>1, <1>t DEF WriteArtifact, TypeInv, TypeOK
<1>4. Touches(s)
  BY <1>1, <1>2, <1>3 DEF Touches, Unmoved, SamePhase, SameStore, SameOut, SameHistory
<1>5. WriterOK(s)'
  <2>1. CASE files[s] = 2
    BY <2>1, <1>1, <1>2, <1>3 DEF WriterOK
  <2>2. CASE files[s] # 2
    <3>1. transcript'[s] = transcript[s] /\ records'[s] = records[s]
      BY <2>2, <1>1, <1>3
    <3>2. (files[s] < 3 => files'[s] < 3) /\ (files[s] >= 3 => files'[s] >= 3)
      BY <2>2, <1>1, <1>2
    <3>3. (writer'[s] = "running" => files'[s] < 5) /\ (writer'[s] = "done" => files'[s] = 5)
      BY <1>1, <1>2
    <3> QED BY <3>1, <3>2, <3>3, <1>t DEF WriterOK
  <2> QED BY <2>1, <2>2
<1>6. \A i \in DOMAIN transcript'[s] :
        \/ i \in DOMAIN transcript[s] /\ transcript'[s][i] = transcript[s][i]
        \/ i \in DOMAIN records[s] /\ transcript'[s][i] = records[s][i].data
  BY <1>3
<1> QED BY <1>1, <1>4, <1>5, <1>6, ThreadStep

LEMMA WriteRaisesStep ==
    ASSUME IInv, TypeInv', NEW s \in Sessions, WriteRaises(s)
    PROVE  IInv'
<1> USE DEF captureVars, storeVars, outVars, history
<1>1. /\ writer[s] = "running" /\ writer'[s] = "failed"
      /\ \A t \in Sessions \ {s} : writer'[t] = writer[t]
      /\ UNCHANGED <<wiring, phase, active, records, tally, calls, files, transcript,
                     batchRecords, stream, results, uncounted, late>>
  BY DEF WriteRaises, IInv, TypeInv, TypeOK
<1>2. Touches(s)
  BY <1>1 DEF Touches, Unmoved, SamePhase, SameStore, SameOut, SameHistory
<1>3. WriterOK(s)'
  BY <1>1 DEF IInv, SessionOK, WriterOK
<1> QED BY <1>1, <1>2, <1>3, ThreadStep

\* No call survives the process, and no thread goes on.
LEMMA CrashStep ==
    ASSUME IInv, TypeInv', Crash
    PROVE  IInv'
<1> USE DEF captureVars, storeVars, outVars, history
<1>1. /\ calls' = [c \in Calls |-> NoCall] /\ active' = {}
      /\ UNCHANGED <<wiring, records, tally, files, transcript, batchRecords, stream,
                     results, uncounted, late>>
      /\ \A s \in Sessions :
           /\ phase'[s] = IF phase[s] \in {"open", "ended"} THEN "gone" ELSE phase[s]
           /\ writer'[s] = IF writer[s] = "running" THEN "failed" ELSE writer[s]
  BY DEF Crash, Reachable
<1>2. ASSUME NEW s \in Sessions
      PROVE  SessionOK(s)'
  <2>1. SessionOK(s) /\ phase[s] \in {"new", "open", "ended", "gone"}
    BY DEF IInv, TypeInv, TypeOK
  <2>2. Hashes(s)' = Hashes(s) /\ \A k \in Numbers : Feeding(s, k)' = Feeding(s, k)
    BY <1>1, UnmovedCapture, HashesKept, FeedsKept
  <2>3. UntouchedOK(s)' /\ SentOK(s)' /\ WriterOK(s)' /\ TallyOK(s)' /\ CanonOK(s)'
    BY <2>1, <2>2, <1>1
    DEF SessionOK, UntouchedOK, Ended, SentOK, EventOf, WriterOK, TallyOK, CanonOK, Unverifiable
  <2>4. results'[s].given => SummaryOK(results[s], s)'
    BY <2>1, <2>2, <1>1 DEF SessionOK, SummaryOK, Agrees, Explains, PathHolds
  <2> QED BY <2>3, <2>4, <1>1 DEF SessionOK
<1>3. (\A c \in Calls : CallOK(c)') /\ OneCallInv'
  BY <1>1 DEF CallOK, OneCallInv, Suspended, NoCall
<1>4. SessionIsFindable'
  <2>1. \A s \in Sessions : phase'[s] \notin {"open", "ended"}
    BY <1>1
  <2> QED BY <2>1 DEF SessionIsFindable
<1> QED BY <1>2, <1>3, <1>4 DEF IInv

-----------------------------------------------------------------------------
(***************************************************************************)
(* The theorems.                                                           *)
(***************************************************************************)
LEMMA InitInv == Init => IInv
<1> SUFFICES ASSUME Init
             PROVE  IInv
  OBVIOUS
<1>1. TypeInv
  BY TypeInit
<1>2. ASSUME NEW s \in Sessions
      PROVE  SessionOK(s)
  <2>1. /\ records[s] = <<>> /\ transcript[s] = <<>> /\ batchRecords[s] = <<>>
        /\ stream[s] = <<>> /\ files[s] = 0 /\ writer[s] = "none" /\ phase[s] = "new"
        /\ ~results[s].given /\ s \notin active
        /\ \A k \in Numbers : tally[s][k] = 0
    BY <1>2 DEF Init, NoResult
  <2>2. \A k \in Numbers : Feeding(s, k) = {}
    BY <2>1 DEF Feeding
  <2>3. TallyOK(s) /\ CanonOK(s)
    <3>1. \A k \in Numbers : tally[s][k] = 0 /\ Cardinality(Feeding(s, k)) = 0
      BY <2>1, <2>2, FS_EmptySet
    <3>2. ~Unverifiable(s)
      BY <2>1 DEF Unverifiable
    <3> QED BY <3>1, <3>2 DEF TallyOK, CanonOK
  <2> QED BY <2>1, <2>3 DEF SessionOK, UntouchedOK, SentOK, WriterOK, Ended
<1>3. \A c \in Calls : ~Suspended(c)
  BY DEF Init, Suspended, NoCall
<1>4. SessionIsFindable
  BY DEF Init, SessionIsFindable
<1> QED BY <1>1, <1>2, <1>3, <1>4 DEF IInv, CallOK, OneCallInv

LEMMA NextInv == IInv /\ [Next]_vars => IInv'
<1> SUFFICES ASSUME IInv, [Next]_vars
             PROVE  IInv'
  OBVIOUS
<1>1. TypeInv'
  BY TypeStep DEF IInv
<1>2. CASE UNCHANGED vars
  <2>1. \A s \in Sessions : Unmoved(s)
    BY <1>2 DEF vars, Unmoved, SamePhase, SameStore, SameOut, SameHistory
  <2>2. \A s \in Sessions : SessionOK(s)'
    BY <2>1, FrameSession DEF IInv
  <2>3. \A c \in Calls : CallOK(c)'
    BY <2>1, <1>2, CallTypes, FrameCall DEF IInv, vars
  <2>4. OneCallInv' /\ SessionIsFindable'
    BY <1>2 DEF IInv, OneCallInv, Suspended, SessionIsFindable, StatusOf, vars
  <2> QED BY <1>1, <2>2, <2>3, <2>4 DEF IInv
<1>3. ASSUME NEW s \in Sessions, NEW content \in Contents, Recording(s, content)
      PROVE  IInv'
  BY <1>1, <1>3, RecordingFeeds, RecordStepInv
<1>4. ASSUME NEW c \in Calls, Resume(c) \/ EnqueueFails(c) \/ EmitFails(c) \/ Cancel(c)
      PROVE  IInv'
  BY <1>1, <1>4, StorageReturnsStep, EnqueueStep, EmitStep, CancelStep DEF Resume
<1>5. ASSUME NEW s \in Sessions, RunThread(s)
      PROVE  IInv'
  BY <1>1, <1>5, WriteArtifactStep, WriteRaisesStep DEF RunThread
<1> QED BY <1>1, <1>2, <1>3, <1>4, <1>5, StartStep, RaisesStep, MutateStep, EndSessionStep,
           EndRaisesStep, CrashStep DEF Next, Recording

\* Whatever calls of end_session overlap, fail or are cancelled, and whenever
\* the process dies, IInv holds.
THEOREM Invariance == Spec => []IInv
BY InitInv, NextInv, PTL DEF Spec

\* The variables keep their types, for any number of sessions and of calls.
THEOREM TypeCorrect == Spec => []TypeOK
<1>1. IInv => TypeOK
  BY DEF IInv, TypeInv
<1> QED BY <1>1, Invariance, PTL

\* The path in a summary is that of a complete directory, whatever was
\* cancelled, failed or overlapped (_run_pipeline, step 3).
THEOREM PathMeansComplete == Spec => []PathMeansStored
<1>1. ASSUME IInv
      PROVE  PathMeansStored
  <2> SUFFICES ASSUME NEW s \in Sessions, results[s].given, wiring.storage = "local",
                      results[s].path
               PROVE  files[s] = Len(Artifacts) /\ Len(transcript[s]) = Len(results[s].root)
    BY DEF PathMeansStored
  <2>1. writer[s] = "done" /\ results[s].root = Hashes(s)
    BY <1>1 DEF IInv, SessionOK, SummaryOK, Agrees, PathHolds
  <2>2. files[s] = 5 /\ DOMAIN transcript[s] = DOMAIN records[s]
    BY <1>1, <2>1 DEF IInv, SessionOK, WriterOK
  <2>3. transcript[s] \in Seq(Contents) /\ Hashes(s) \in Seq(Contents)
    BY <1>1, HashesType DEF IInv, TypeInv, TypeOK
  <2>4. DOMAIN Hashes(s) = DOMAIN transcript[s]
    BY <2>2 DEF Hashes
  <2>5. Len(transcript[s]) = Len(Hashes(s))
    BY <2>3, <2>4, LenProperties
  <2> QED BY <2>1, <2>2, <2>5 DEF Artifacts
<1> QED BY <1>1, Invariance, PTL

\* A stored line that is not what the root covers was reported by
\* verify_integrity, or written while end_session was running.
THEOREM TamperingIsReported == Spec => []TamperingReported
<1>1. ASSUME IInv
      PROVE  TamperingReported
  <2> SUFFICES ASSUME NEW s \in Sessions, results[s].given, NEW i \in DOMAIN transcript[s],
                      transcript[s][i] # results[s].root[i]
               PROVE  i \in results[s].errors \cup late[s]
    BY DEF TamperingReported
  <2>1. results[s].root = Hashes(s) /\ Explains(results[s], s)
    BY <1>1 DEF IInv, SessionOK, SummaryOK, Agrees
  <2>2. i \in DOMAIN records[s]
    BY <1>1 DEF IInv, SessionOK, WriterOK
  <2> QED BY <2>1, <2>2 DEF Explains, Hashes
<1> QED BY <1>1, Invariance, PTL

\* The behavioral consumer gets at most one event of a session, and its tool
\* invocations, dead ends, costed calls and data sources are those of the
\* records under the root (emit_session_feedback).
THEOREM FeedbackIsOfRecords == Spec => []FeedbackMatchesRecords
<1>1. ASSUME IInv
      PROVE  FeedbackMatchesRecords
  <2> SUFFICES ASSUME NEW s \in Sessions
               PROVE  /\ Len(stream[s]) <= 1
                      /\ s \notin uncounted =>
                           \A n \in DOMAIN stream[s], k \in Numbers :
                              stream[s][n][k] = Cardinality(Feeding(s, k))
    BY DEF FeedbackMatchesRecords
  <2>1. stream[s] \in {<<>>, <<EventOf(s)>>} /\ TallyOK(s)
    BY <1>1 DEF IInv, SessionOK, SentOK
  <2>2. CASE stream[s] = <<>>
    BY <2>2
  <2>3. CASE stream[s] = <<EventOf(s)>>
    <3>1. PICK event : event = EventOf(s)
      OBVIOUS
    <3>2. Len(stream[s]) = 1 /\ DOMAIN stream[s] = {1} /\ stream[s][1] = event
      BY <2>3, <3>1
    <3>3. \A k \in Numbers : event[k] = tally[s][k]
      BY <3>1 DEF EventOf
    <3> QED BY <3>2, <3>3, <2>1 DEF TallyOK
  <2> QED BY <2>1, <2>2, <2>3
<1> QED BY <1>1, Invariance, PTL

\* GET finds every session of a living server, but for those whose end_session
\* is awaiting something (SessionService).
THEOREM SessionsAreFindable == Spec => []SessionIsFindable
<1>1. IInv => SessionIsFindable
  BY DEF IInv
<1> QED BY <1>1, Invariance, PTL

-----------------------------------------------------------------------------
(***************************************************************************)
(* Sessions are sealed logs.                                               *)
(***************************************************************************)
Grows(s) ==
    /\ ~Ended(s) /\ ~Ended(s)' /\ batchRecords'[s] = batchRecords[s]
    /\ \E content \in Contents : Hashes(s)' = Append(Hashes(s), content)

Closes(s) ==
    ~Ended(s) /\ Ended(s)' /\ Hashes(s)' = Hashes(s) /\ batchRecords'[s] = batchRecords[s]

Commits(s) ==
    /\ Ended(s) /\ Ended(s)' /\ Hashes(s)' = Hashes(s)
    /\ batchRecords[s] = <<>> /\ batchRecords'[s] = <<Hashes(s)>>

Stays(s) ==
    Hashes(s)' = Hashes(s) /\ (Ended(s)' <=> Ended(s)) /\ batchRecords'[s] = batchRecords[s]

LEMMA LogMoves ==
    ASSUME \A s \in Sessions : Grows(s) \/ Closes(s) \/ Commits(s) \/ Stays(s)
    PROVE  Log!Next
<1> SUFFICES ASSUME NEW s \in Sessions
             PROVE  Log!Record(s) \/ Log!Seal(s) \/ Log!Publish(s) \/ Log!Stay(s)
  BY DEF Log!Next
<1>1. CASE Grows(s)
  BY <1>1 DEF Grows, Ended, Log!Record
<1>2. CASE Closes(s)
  BY <1>2 DEF Closes, Ended, Log!Seal
<1>3. CASE Commits(s)
  BY <1>3 DEF Commits, Ended, Log!Publish
<1>4. CASE Stays(s)
  BY <1>4 DEF Stays, Ended, Log!Stay
<1> QED BY <1>1, <1>2, <1>3, <1>4

\* The hash of the record that is appended is appended to the log.
LEMMA RecordGrows ==
    ASSUME TypeInv, NEW s \in Sessions, NEW feeds \in SUBSET Numbers, NEW content \in Contents,
           Record(s, feeds, content)
    PROVE  Hashes(s)' = Append(Hashes(s), content)
<1> DEFINE e == [feeds |-> feeds, hash |-> content, data |-> content]
           n == Len(records[s])
<1>1. /\ n \in Nat /\ DOMAIN records[s] = 1..n /\ e \in RecordSet /\ records[s] \in Seq(RecordSet)
  BY SessionTypes DEF RecordSet
<1>2. records'[s] = Append(records[s], e)
  BY DEF Record, AppendRecord, TypeInv, TypeOK
<1>3. /\ DOMAIN records'[s] = 1..(n + 1) /\ records'[s][n + 1] = e
      /\ \A i \in 1..n : records'[s][i] = records[s][i]
  <2>1. /\ Append(records[s], e) \in Seq(RecordSet) /\ Len(Append(records[s], e)) = n + 1
        /\ Append(records[s], e)[n + 1] = e
        /\ \A i \in 1..n : Append(records[s], e)[i] = records[s][i]
    BY <1>1, AppendProperties
  <2> QED BY <2>1, <1>2, LenProperties
<1>4. /\ Hashes(s) \in Seq(Contents) /\ Len(Hashes(s)) = n
      /\ \A i \in 1..n : Hashes(s)[i] = records[s][i].hash
  <2>1. Hashes(s) \in Seq(Contents) /\ DOMAIN Hashes(s) = 1..n
    BY <1>1, HashesType DEF Hashes
  <2> QED BY <2>1, <1>1, LenProperties DEF Hashes
<1> HIDE DEF n
<1>5. /\ Append(Hashes(s), content) \in Seq(Contents)
      /\ Len(Append(Hashes(s), content)) = n + 1
      /\ Append(Hashes(s), content)[n + 1] = content
      /\ \A i \in 1..n : Append(Hashes(s), content)[i] = Hashes(s)[i]
  BY <1>4, AppendProperties
<1>6. Append(Hashes(s), content) = [i \in 1..(n + 1) |-> Append(Hashes(s), content)[i]]
  BY <1>5, LenProperties
<1>7. \A i \in 1..(n + 1) : records'[s][i].hash = Append(Hashes(s), content)[i]
  <2> SUFFICES ASSUME NEW i \in 1..(n + 1)
               PROVE  records'[s][i].hash = Append(Hashes(s), content)[i]
    OBVIOUS
  <2>1. CASE i = n + 1
    BY <2>1, <1>3, <1>5
  <2>2. CASE i \in 1..n
    <3>1. records'[s][i] = records[s][i]
      BY <2>2, <1>3
    <3>2. Append(Hashes(s), content)[i] = Hashes(s)[i] /\ Hashes(s)[i] = records[s][i].hash
      BY <2>2, <1>4, <1>5
    <3> QED BY <3>1, <3>2
  <2>3. i = n + 1 \/ i \in 1..n
    <3>1. n \in Nat
      BY <1>1
    <3> QED BY <3>1
  <2> QED BY <2>1, <2>2, <2>3
<1>8. Hashes(s)' = [i \in 1..(n + 1) |-> records'[s][i].hash]
  BY <1>3 DEF Hashes
<1> QED BY <1>6, <1>7, <1>8

LEMMA LogStep ==
    ASSUME IInv, [Next]_vars
    PROVE  [Log!Next]_(Log!logVars)
<1> USE DEF captureVars, storeVars, outVars, history
<1> SUFFICES ASSUME NEW s \in Sessions
             PROVE  Grows(s) \/ Closes(s) \/ Commits(s) \/ Stays(s)
  BY LogMoves
<1>1. TypeInv
  BY DEF IInv
<1>2. records'[s] = records[s] => Hashes(s)' = Hashes(s)
  BY DEF Hashes
<1>3. ASSUME NEW t \in Sessions, Start(t)
      PROVE  Stays(s)
  BY <1>1, <1>2, <1>3 DEF Start, Stays, Ended, TypeInv, TypeOK
<1>4. ASSUME NEW t \in Sessions, NEW feeds \in SUBSET Numbers, NEW content \in Contents,
             Record(t, feeds, content)
      PROVE  Grows(s) \/ Stays(s)
  <2>1. CASE s = t
    BY <2>1, <1>1, <1>4, RecordGrows DEF Record, Recordable, NotEnded, Grows, Ended
  <2>2. CASE s # t
    BY <2>2, <1>1, <1>2, <1>4 DEF Record, AppendRecord, Stays, Ended, TypeInv, TypeOK
  <2> QED BY <2>1, <2>2
<1>5. ASSUME NEW t \in Sessions, RecordRaises(t)
      PROVE  Stays(s)
  BY <1>2, <1>5 DEF RecordRaises, Stays, Ended
<1>6. ASSUME NEW t \in Sessions, NEW i \in DOMAIN records[t], NEW content \in Contents,
             Mutate(t, i, content)
      PROVE  Stays(s)
  <2>1. records' = [records EXCEPT ![t][i].data = content]
    BY <1>6 DEF Mutate
  <2>2. Hashes(s)' = Hashes(s)
    <3>1. CASE s = t
      BY <3>1, <2>1, <1>1, MutatedTypes, HashesKept, UnmovedCapture DEF Hashes
    <3>2. CASE s # t
      BY <3>2, <2>1, <1>1, <1>2, MutatedTypes
    <3> QED BY <3>1, <3>2
  <2> QED BY <2>2, <1>6 DEF Mutate, Stays, Ended
<1>7. ASSUME NEW c \in Calls, NEW t \in Sessions, EndSession(c, t)
      PROVE  Closes(s) \/ Stays(s)
  <2>1. /\ phase[t] = "open" /\ phase' = [phase EXCEPT ![t] = "ended"]
        /\ UNCHANGED <<records, batchRecords>>
    BY <1>7 DEF EndSession, Recordable, NotEnded, Pop
  <2> QED BY <2>1, <1>1, <1>2 DEF Closes, Stays, Ended, TypeInv, TypeOK
<1>8. ASSUME NEW c \in Calls, StorageReturns(c) \/ Emit(c) \/ EmitFails(c)
      PROVE  Stays(s)
  BY <1>2, <1>8 DEF StorageReturns, Emit, EmitFails, Stays, Ended
<1>9. ASSUME NEW c \in Calls, calls[c].stage = "batch", PushRoot(c), UNCHANGED <<records, phase>>
      PROVE  Commits(s) \/ Stays(s)
  <2>1. /\ calls[c].session \in Sessions /\ phase[calls[c].session] = "ended"
        /\ batchRecords[calls[c].session] = <<>>
        /\ calls[c].summary.root = Hashes(calls[c].session)
    BY <1>9, CallTypes DEF IInv, CallOK, Suspended, SummaryOK, Agrees
  <2>2. PICK root : root = Hashes(calls[c].session)
    OBVIOUS
  <2>3. batchRecords' = [batchRecords EXCEPT ![calls[c].session] = <<root>>]
    BY <2>1, <2>2, <1>9, FirstOne DEF PushRoot
  <2>4. batchRecords \in [Sessions -> Seq(Seq(Contents))]
    BY <1>1 DEF TypeInv, TypeOK
  <2>5. CASE s = calls[c].session
    BY <2>1, <2>2, <2>3, <2>4, <2>5, <1>2, <1>9 DEF Commits, Ended
  <2>6. CASE s # calls[c].session
    BY <2>1, <2>3, <2>4, <2>6, <1>2, <1>9 DEF Stays, Ended
  <2> QED BY <2>5, <2>6
<1>10. ASSUME NEW c \in Calls, Enqueue(c) \/ EnqueueFails(c) \/ Cancel(c)
       PROVE  Commits(s) \/ Stays(s)
  <2>1. CASE calls[c].stage = "batch" /\ PushRoot(c) /\ UNCHANGED <<records, phase>>
    BY <2>1, <1>9
  <2>2. CASE UNCHANGED <<records, phase, batchRecords>>
    BY <2>2, <1>2 DEF Stays, Ended
  <2> QED BY <2>1, <2>2, <1>10 DEF Enqueue, EnqueueFails, Cancel
<1>11. ASSUME NEW t \in Sessions, RunThread(t)
       PROVE  Stays(s)
  BY <1>2, <1>11 DEF RunThread, WriteArtifact, WriteRaises, Stays, Ended
<1>12. ASSUME Crash
       PROVE  Closes(s) \/ Stays(s)
  BY <1>2, <1>12 DEF Crash, Reachable, Closes, Stays, Ended
<1>13. CASE UNCHANGED vars
  BY <1>2, <1>13 DEF vars, Stays, Ended
<1>14. ASSUME NEW t \in Sessions, EndRaises(t)
       PROVE  Closes(s) \/ Stays(s)
  <2>1. /\ phase[t] = "open" /\ phase' = [phase EXCEPT ![t] = "ended"]
        /\ UNCHANGED <<records, batchRecords>>
    BY <1>14 DEF EndRaises, Recordable, NotEnded, Pop
  <2> QED BY <2>1, <1>1, <1>2 DEF Closes, Stays, Ended, TypeInv, TypeOK
<1> QED
  BY <1>3, <1>4, <1>5, <1>6, <1>7, <1>8, <1>10, <1>11, <1>12, <1>13, <1>14, RecordingFeeds
  DEF Next, Resume, Recording

LEMMA LogInit ==
    ASSUME Init
    PROVE  Log!Init
<1>1. \A s \in Sessions : Hashes(s) = <<>>
  BY DEF Init, Hashes
<1>2. [s \in Sessions |-> Hashes(s)] = [s \in Sessions |-> <<>>]
  BY <1>1
<1>3. [s \in Sessions |-> phase[s] \in {"ended", "gone"}] = [s \in Sessions |-> FALSE]
  <2>1. \A s \in Sessions : (phase[s] \in {"ended", "gone"}) = FALSE
    BY DEF Init
  <2> QED BY <2>1, Zenon
<1> QED BY <1>2, <1>3 DEF Init, Log!Init

\* Every session is an append-only log that is closed once and of which at most
\* one root is published, over everything recorded (SessionManager.end_session).
THEOREM SessionsAreSealedLogs == Spec => SealedLogSpec
<1>1. Init => Log!Init
  BY LogInit
<1>2. IInv /\ [Next]_vars => [Log!Next]_(Log!logVars)
  BY LogStep
<1> QED BY <1>1, <1>2, Invariance, PTL DEF Spec, SealedLogSpec, Log!Spec
=============================================================================
