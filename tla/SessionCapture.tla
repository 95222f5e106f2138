--------------------------- MODULE SessionCapture ---------------------------
(***************************************************************************)
(* Reasoning sessions of layer 3: ProvenanceCapture (layer3/sdk/capture),  *)
(* SessionManager (session), SessionService and its router (service), the  *)
(* storage thread (storage) and the feedback emitter (feedback/emitter).   *)
(*                                                                         *)
(* A process either serves sessions over HTTP, through SessionService, or  *)
(* is an agent with a SessionManager of its own, as the README shows it;   *)
(* its sessions are then hosted, or embedded.  Everything between two      *)
(* awaits is one action; the storage thread runs beside the event loop.    *)
(*                                                                         *)
(* A content hash is represented by the content hashed.  A content stands  *)
(* for the "data" of a record, whose nested values (metadata, inputs,      *)
(* outputs) remain shared with the code that passed them in.               *)
(***************************************************************************)
EXTENDS Integers, Sequences, FiniteSets

CONSTANTS
    Sessions,
    Calls,           \* concurrent calls of end_session
    Contents,
    Unserializable,  \* contents json.dumps refuses without default=str
    Unsortable,      \* contents with keys that _canonical_json cannot sort
    ToolExtras,      \* bound: what else a tool invocation may feed
    Wirings,         \* configurations the process may be started in
    MaxRecords,      \* bound: records of a session
    MaxFaults        \* bound: failures of each kind

\* What the feedback event counts: tool invocations, dead ends, calls with a
\* cost (of one unit each), and data sources accessed.
Numbers == {"tools", "dead_ends", "cost", "accesses"}

FaultKinds == {"unsortable", "mutate", "write", "publish", "cancel", "crash"}

ASSUME SessionBounds ==
    /\ MaxRecords \in Nat
    /\ MaxFaults \in [FaultKinds -> Nat]
    /\ Unserializable \subseteq Contents
    /\ Unsortable \subseteq Contents
    /\ ToolExtras \subseteq SUBSET {"cost", "accesses"}
    /\ Wirings \subseteq
         [hosted : BOOLEAN, redis : BOOLEAN, storage : {"none", "local", "s3"}]

VARIABLES
    wiring,        \* kind of process; Redis reachable; settings and ENVIRONMENT
    phase,         \* of the SessionManager: new, open, ended (_ended), gone
    active,        \* keys of SessionService._active_sessions
    records,       \* ProvenanceCapture._records
    tally,         \* its counters, updated before the record is hashed
    calls,         \* the suspended end_session coroutines
    writer,        \* the storage thread: none, running, done, failed
    files,         \* artifacts written in full, in the order of the dict
    transcript,    \* the contents transcript.jsonl was written with
    batchRecords,  \* roots pushed to anchor:pending_records
    stream,        \* events added to stream:behavioral_session
    results,       \* the summary the caller got (_completed_summaries)
    \* history, read by no action
    uncounted,     \* sessions where an append raised
    late,          \* records changed by the agent after end_session began
    raised,        \* sessions whose end_session raised in verify_integrity
    faults

captureVars == <<records, tally>>
storeVars == <<writer, files, transcript>>
outVars == <<batchRecords, stream>>
history == <<uncounted, late, raised>>
vars == <<wiring, phase, active, records, tally, calls, writer, files,
          transcript, batchRecords, stream, results, uncounted, late, raised, faults>>

Artifacts == <<"manifest.json", "intent.md", "transcript.jsonl",
               "operations.json", "lineage.json">>

NoCall == [stage |-> "free"]

NoResult == [given |-> FALSE]

Fault(kind) ==
    /\ faults[kind] < MaxFaults[kind]
    /\ faults' = [faults EXCEPT ![kind] = @ + 1]

Init ==
    /\ wiring \in Wirings
    /\ phase = [s \in Sessions |-> "new"]
    /\ active = {}
    /\ records = [s \in Sessions |-> <<>>]
    /\ tally = [s \in Sessions |-> [k \in Numbers |-> 0]]
    /\ calls = [c \in Calls |-> NoCall]
    /\ writer = [s \in Sessions |-> "none"]
    /\ files = [s \in Sessions |-> 0]
    /\ transcript = [s \in Sessions |-> <<>>]
    /\ batchRecords = [s \in Sessions |-> <<>>]
    /\ stream = [s \in Sessions |-> <<>>]
    /\ results = [s \in Sessions |-> NoResult]
    /\ uncounted = {}
    /\ late = [s \in Sessions |-> {}]
    /\ raised = {}
    /\ faults = [k \in FaultKinds |-> 0]

-----------------------------------------------------------------------------
(***************************************************************************)
(* Recording.                                                              *)
(***************************************************************************)
Start(s) ==
    /\ phase[s] = "new"
    /\ phase' = [phase EXCEPT ![s] = "open"]
    /\ active' = IF wiring.hosted THEN active \cup {s} ELSE active
    /\ UNCHANGED <<wiring, captureVars, calls, storeVars, outVars, results,
                   history, faults>>

Reachable(s) == phase[s] \in {"open", "ended"}

\* _check_active
NotEnded(s) == phase[s] = "open"

\* In a server, get_session finds the session first.
Recordable(s) ==
    /\ NotEnded(s)
    /\ wiring.hosted => s \in active

\* A tool invocation adds no cost of its own.
OnlyLlmCosts(s, feeds) ==
    tally' = [tally EXCEPT ![s] =
        [k \in Numbers |->
            IF k \in feeds /\ ~(k = "cost" /\ "tools" \in feeds) THEN @[k] + 1 ELSE @[k]]]

CountedFirst(s, feeds) ==
    tally' = [tally EXCEPT ![s] =
        [k \in Numbers |-> IF k \in feeds THEN @[k] + 1 ELSE @[k]]]

\* _append
AppendRecord(s, feeds, content) ==
    records' = [records EXCEPT ![s] =
        Append(@, [feeds |-> feeds, hash |-> content, data |-> content])]

\* A record_ method that feeds these numbers.  HTTP bodies are plain JSON.
Record(s, feeds, content) ==
    /\ Recordable(s)
    /\ Len(records[s]) < MaxRecords
    /\ content \notin Unsortable
    /\ wiring.hosted => content \notin Unserializable
    /\ CountedFirst(s, feeds)
    /\ AppendRecord(s, feeds, content)
    /\ UNCHANGED <<wiring, phase, active, calls, storeVars, outVars, results,
                   history, faults>>

\* The seven methods that feed no number of the event, an observation that
\* names no data source, and an LLM call that cost nothing.
RecordStep(s, content) == Record(s, {}, content)

\* Strings, and a list of them.  The router has no endpoint for it.
RecordObservation(s, content) ==
    /\ ~wiring.hosted
    /\ content \notin Unserializable
    /\ Record(s, {"accesses"}, content)

\* It may have cost something, and its inputs may name a data source.
RecordToolInvocation(s, content) ==
    \E extra \in ToolExtras : Record(s, {"tools"} \cup extra, content)

\* Strings and numbers.  The router has no endpoint for it.
RecordLlmCall(s, content) ==
    /\ ~wiring.hosted
    /\ content \notin Unserializable
    /\ Record(s, {"cost"}, content)

\* Two strings and an index.
RecordDeadEnd(s, content) ==
    content \notin Unserializable /\ Record(s, {"dead_ends"}, content)

\* Inputs with keys that cannot be sorted: _canonical_json raises after the
\* invocation was counted, and no record is appended.
RecordRaises(s) ==
    /\ Fault("unsortable")
    /\ ~wiring.hosted
    /\ Recordable(s)
    /\ \E extra \in ToolExtras : CountedFirst(s, {"tools"} \cup extra)
    /\ uncounted' = uncounted \cup {s}
    /\ UNCHANGED <<wiring, phase, active, records, calls, storeVars, outVars,
                   results, late, raised>>

\* Dead ends and LLM calls hold strings and numbers only.
Frozen(record) == record.feeds \in {{"dead_ends"}, {"cost"}}

\* The agent goes on using a dict or a list it recorded.
Mutate(s, i, content) ==
    /\ Fault("mutate")
    /\ ~wiring.hosted
    /\ Reachable(s)
    /\ ~Frozen(records[s][i])
    /\ records[s][i].data # content
    /\ records' = [records EXCEPT ![s][i].data = content]
    /\ late' = IF phase[s] = "ended" THEN [late EXCEPT ![s] = @ \cup {i}] ELSE late
    /\ UNCHANGED <<wiring, phase, active, tally, calls, storeVars, outVars,
                   results, uncounted, raised>>

-----------------------------------------------------------------------------
(***************************************************************************)
(* end_session.                                                            *)
(***************************************************************************)
NoMismatch(s) == {}

ZeroBased(s) ==
    {i - 1 : i \in {j \in DOMAIN records[s] : records[s][j].hash # records[s][j].data}}

\* verify_integrity hashes every record again, and raises where it cannot.
Unverifiable(s) == \E i \in DOMAIN records[s] : records[s][i].data \in Unsortable

Mismatches(s) == {i \in DOMAIN records[s] : records[s][i].hash # records[s][i].data}

Hashes(s) == [i \in DOMAIN records[s] |-> records[s][i].hash]

\* The numbers of a summary; its counts are taken when it is made.
Reported == {"tools", "dead_ends", "cost"}

SessionSummary(s) ==
    [given |-> TRUE, root |-> Hashes(s), counts |-> [k \in Reported |-> tally[s][k]],
     errors |-> Mismatches(s), path |-> FALSE, batchId |-> FALSE, feedback |-> FALSE]

ReturnsOnly(c, s, summary) ==
    /\ calls' = [calls EXCEPT ![c] = NoCall]
    /\ UNCHANGED results

\* The service keeps what it returns.
Return(c, s, summary) ==
    /\ calls' = [calls EXCEPT ![c] = NoCall]
    /\ results' = [results EXCEPT ![s] = summary]

Suspend(c, s, stage, summary) ==
    /\ calls' = [calls EXCEPT ![c] = [stage |-> stage, session |-> s, summary |-> summary]]
    /\ UNCHANGED results

StopUnlessStored(c, s, summary) ==
    IF wiring.redis /\ summary.path
    THEN Suspend(c, s, "batch", summary)
    ELSE Return(c, s, summary)

\* The batch record gets its id before it is pushed, and also when it is not.
AfterStorage(c, s, summary) ==
    LET numbered == [summary EXCEPT !.batchId = TRUE] IN
    IF wiring.redis THEN Suspend(c, s, "batch", numbered) ELSE Return(c, s, numbered)

Pop(s) ==
    /\ phase' = [phase EXCEPT ![s] = "ended"]
    /\ active' = active \ {s}

\* Up to the first await: take the session out of the dict, finalize, verify,
\* compute the root and the summary, and hand the artifacts to a thread.  The
\* S3 writer is a placeholder: it writes nothing and reports a path.
EndSession(c, s) ==
    /\ calls[c].stage = "free"
    /\ Recordable(s)
    /\ ~Unverifiable(s)
    /\ Pop(s)
    /\ CASE wiring.storage = "none" -> Return(c, s, SessionSummary(s)) /\ UNCHANGED writer
         [] wiring.storage = "s3" ->
                /\ AfterStorage(c, s, [SessionSummary(s) EXCEPT !.path = TRUE])
                /\ UNCHANGED writer
         [] wiring.storage = "local" ->
                /\ Suspend(c, s, "storing", SessionSummary(s))
                /\ writer' = [writer EXCEPT ![s] = "running"]
    /\ UNCHANGED <<wiring, captureVars, files, transcript, outVars, history, faults>>

\* The agent gave a recorded dict keys that cannot be sorted: verify_integrity
\* raises, outside any try, when the session has ended; nothing comes after it.
EndRaises(s) ==
    /\ Recordable(s)
    /\ Unverifiable(s)
    /\ Pop(s)
    /\ raised' = raised \cup {s}
    /\ UNCHANGED <<wiring, captureVars, calls, storeVars, outVars, results,
                   uncounted, late, faults>>

WroteEverything(s) == files[s] = Len(Artifacts)

ThreadFinished(s) == writer[s] \in {"done", "failed"}

WrittenInFull(s) == writer[s] = "done"

\* A failure of the thread is logged, and the pipeline goes on without a path.
StorageReturns(c) ==
    /\ calls[c].stage = "storing"
    /\ ThreadFinished(calls[c].session)
    /\ AfterStorage(c, calls[c].session,
           [calls[c].summary EXCEPT !.path = WrittenInFull(calls[c].session)])
    /\ UNCHANGED <<wiring, phase, active, captureVars, storeVars, outVars, history, faults>>

PushRoot(c) ==
    batchRecords' = [batchRecords EXCEPT ![calls[c].session] =
        Append(@, calls[c].summary.root)]

\* Tool names and data sources come from the capture, as it is now, dead ends
\* and cost from the summary.
AddEvent(c) ==
    stream' = [stream EXCEPT ![calls[c].session] =
        Append(@, [k \in Numbers |->
            IF k \in {"tools", "accesses"} THEN tally[calls[c].session][k]
            ELSE calls[c].summary.counts[k]])]

\* A data source that is no string, in the inputs of a tool: xadd cannot dump
\* the event.
CannotEmit(s) ==
    \E i \in DOMAIN records[s] :
        "accesses" \in records[s][i].feeds /\ records[s][i].hash \in Unserializable

Enqueue(c) ==
    /\ calls[c].stage = "batch"
    /\ PushRoot(c)
    /\ Suspend(c, calls[c].session, "feedback", calls[c].summary)
    /\ UNCHANGED <<wiring, phase, active, captureVars, storeVars, stream, history, faults>>

\* RPUSH raises, applied or not: logged, and the feedback is sent all the same.
EnqueueFails(c) ==
    /\ Fault("publish")
    /\ calls[c].stage = "batch"
    /\ PushRoot(c) \/ UNCHANGED batchRecords
    /\ Suspend(c, calls[c].session, "feedback", calls[c].summary)
    /\ UNCHANGED <<wiring, phase, active, captureVars, storeVars, stream, history>>

Emit(c) ==
    /\ calls[c].stage = "feedback"
    /\ AddEvent(c)
    /\ Return(c, calls[c].session, [calls[c].summary EXCEPT !.feedback = TRUE])
    /\ UNCHANGED <<wiring, phase, active, captureVars, storeVars, batchRecords,
                   history, faults>>

EmitFails(c) ==
    /\ calls[c].stage = "feedback"
    /\ \/ Fault("publish") /\ (AddEvent(c) \/ UNCHANGED stream)
       \/ CannotEmit(calls[c].session) /\ UNCHANGED <<stream, faults>>
    /\ Return(c, calls[c].session, calls[c].summary)
    /\ UNCHANGED <<wiring, phase, active, captureVars, storeVars, batchRecords, history>>

\* The agent's task is cancelled while it awaits: the request to Redis that was
\* under way may have been applied; the storage thread goes on by itself.
Cancel(c) ==
    /\ Fault("cancel")
    /\ calls[c].stage # "free"
    /\ ~wiring.hosted
    /\ calls' = [calls EXCEPT ![c] = NoCall]
    /\ \/ UNCHANGED outVars
       \/ calls[c].stage = "batch" /\ PushRoot(c) /\ UNCHANGED stream
       \/ calls[c].stage = "feedback" /\ AddEvent(c) /\ UNCHANGED batchRecords
    /\ UNCHANGED <<wiring, phase, active, captureVars, storeVars, results, history>>

-----------------------------------------------------------------------------
(***************************************************************************)
(* The storage thread, and the death of the process.                       *)
(***************************************************************************)
NextFile(s) == Artifacts[files[s] + 1]

\* json.dumps without default, after two artifacts have been written.
CannotWrite(s) ==
    /\ NextFile(s) = "transcript.jsonl"
    /\ \E i \in DOMAIN records[s] : records[s][i].data \in Unserializable

WriteArtifact(s) ==
    /\ writer[s] = "running"
    /\ ~CannotWrite(s)
    /\ files' = [files EXCEPT ![s] = @ + 1]
    /\ writer' = [writer EXCEPT ![s] = IF files'[s] = Len(Artifacts) THEN "done" ELSE @]
    /\ transcript' = IF NextFile(s) = "transcript.jsonl"
                     THEN [transcript EXCEPT ![s] =
                              [i \in DOMAIN records[s] |-> records[s][i].data]]
                     ELSE transcript
    /\ UNCHANGED <<wiring, phase, active, captureVars, calls, outVars, results,
                   history, faults>>

WriteRaises(s) ==
    /\ writer[s] = "running"
    /\ IF CannotWrite(s) THEN UNCHANGED faults ELSE Fault("write")
    /\ writer' = [writer EXCEPT ![s] = "failed"]
    /\ UNCHANGED <<wiring, phase, active, captureVars, calls, files, transcript,
                   outVars, results, history>>

Crash ==
    /\ Fault("crash")
    /\ phase' = [s \in Sessions |-> IF Reachable(s) THEN "gone" ELSE phase[s]]
    /\ active' = {}
    /\ calls' = [c \in Calls |-> NoCall]
    /\ writer' = [s \in Sessions |-> IF writer[s] = "running" THEN "failed" ELSE writer[s]]
    /\ UNCHANGED <<wiring, captureVars, files, transcript, outVars, results, history>>

-----------------------------------------------------------------------------
Resume(c) == StorageReturns(c) \/ Enqueue(c) \/ Emit(c)

RunThread(s) == WriteArtifact(s) \/ WriteRaises(s)

Next ==
    \/ \E s \in Sessions :
         \/ Start(s) \/ RecordRaises(s) \/ EndRaises(s) \/ RunThread(s)
         \/ \E content \in Contents :
              \/ RecordStep(s, content) \/ RecordObservation(s, content)
              \/ RecordToolInvocation(s, content) \/ RecordLlmCall(s, content)
              \/ RecordDeadEnd(s, content)
         \/ \E i \in DOMAIN records[s], content \in Contents : Mutate(s, i, content)
    \/ \E c \in Calls :
         \/ Resume(c) \/ EnqueueFails(c) \/ EmitFails(c) \/ Cancel(c)
         \/ \E s \in Sessions : EndSession(c, s)
    \/ Crash

Spec == Init /\ [][Next]_vars

\* The event loop resumes a coroutine whose await is over, Redis answers, and
\* the thread pool runs the thread.
Fairness ==
    /\ \A c \in Calls : WF_vars(Resume(c))
    /\ \A s \in Sessions : WF_vars(RunThread(s))

FairSpec == Spec /\ Fairness

-----------------------------------------------------------------------------
(***************************************************************************)
(* Properties.                                                             *)
(***************************************************************************)
Summaries ==
    [given : {TRUE}, root : Seq(Contents), counts : [Reported -> Nat],
     errors : SUBSET (1..MaxRecords), path : BOOLEAN, batchId : BOOLEAN,
     feedback : BOOLEAN]

TypeOK ==
    /\ wiring \in Wirings
    /\ phase \in [Sessions -> {"new", "open", "ended", "gone"}]
    /\ active \subseteq Sessions
    /\ records \in [Sessions -> Seq([feeds : SUBSET Numbers, hash : Contents, data : Contents])]
    /\ tally \in [Sessions -> [Numbers -> Nat]]
    /\ calls \in [Calls -> {NoCall} \cup
                    [stage : {"storing", "batch", "feedback"},
                     session : Sessions, summary : Summaries]]
    /\ writer \in [Sessions -> {"none", "running", "done", "failed"}]
    /\ files \in [Sessions -> 0..Len(Artifacts)]
    /\ transcript \in [Sessions -> Seq(Contents)]
    /\ batchRecords \in [Sessions -> Seq(Seq(Contents))]
    /\ stream \in [Sessions -> Seq([Numbers -> Nat])]
    /\ results \in [Sessions -> {NoResult} \cup Summaries]
    /\ uncounted \subseteq Sessions
    /\ late \in [Sessions -> SUBSET (1..MaxRecords)]
    /\ raised \subseteq Sessions
    /\ faults \in [FaultKinds -> Nat]

\* Every session is a sealed log: no record is accepted once end_session has
\* computed the root, at most one batch record is ever pushed, and its root
\* covers every record that was accepted, in order, whatever calls of
\* end_session overlap, fail or are cancelled (SessionManager.end_session).
Log == INSTANCE SealedLogs WITH
    Logs <- Sessions,
    Entries <- Contents,
    log <- [s \in Sessions |-> Hashes(s)],
    sealed <- [s \in Sessions |-> phase[s] \in {"ended", "gone"}],
    published <- batchRecords

SealedLogSpec == Log!Spec

\* A storage path that was reported for the local backend means that all five
\* artifacts were written and that the transcript has every record under the
\* root (_run_pipeline, step 3).
PathMeansStored ==
    \A s \in Sessions :
        results[s].given /\ wiring.storage = "local" =>
            (results[s].path =>
                /\ files[s] = Len(Artifacts)
                /\ Len(transcript[s]) = Len(results[s].root))

\* A line of a stored transcript that does not match the hash under the root
\* is in the integrity errors of the summary, unless the agent changed it while
\* end_session was running (verify_integrity runs once, before the thread).
TamperingReported ==
    \A s \in Sessions :
        results[s].given =>
            \A i \in DOMAIN transcript[s] :
                transcript[s][i] # results[s].root[i]
                    => i \in results[s].errors \cup late[s]

Feeding(s, k) == {i \in DOMAIN records[s] : k \in records[s][i].feeds}

\* A session emits one feedback event at most, and the tool invocations, the
\* dead ends, the costed calls and the data sources in it are those of the
\* records under the root, although two are read from the summary and two from
\* the capture, later; unless an append raised after counting
\* (emit_session_feedback, record_tool_invocation).
FeedbackMatchesRecords ==
    \A s \in Sessions :
        /\ Len(stream[s]) <= 1
        /\ s \notin uncounted =>
             \A n \in DOMAIN stream[s], k \in Numbers :
                stream[s][n][k] = Cardinality(Feeding(s, k))

\* What GET /sessions/{id} answers: active, completed, or 404.
StatusOf(s) ==
    IF s \in active THEN "active"
    ELSE IF results[s].given THEN "completed" ELSE "not found"

\* A server never loses sight of a session: as long as the process lives, a
\* session that was started is found by GET, except while its end_session is
\* awaiting something; then a second POST end is told 404 as well, not that
\* the session was ended (SessionService.end_session: the session is popped
\* first, and its summary is kept when the pipeline is through).
SessionIsFindable ==
    wiring.hosted =>
        \A s \in Sessions :
            /\ phase[s] = "open" => StatusOf(s) = "active"
            /\ phase[s] = "ended" =>
                 \/ StatusOf(s) = "completed"
                 \/ \E c \in Calls : calls[c].stage # "free" /\ calls[c].session = s

\* end_session returns, or is cancelled, whatever fails in its pipeline.
EndReturns == \A c \in Calls : calls[c].stage # "free" ~> calls[c].stage = "free"

\* With Redis and settings, the root of an ended session reaches the queue
\* even when its artifacts could not be stored.  What loses it: a failed push,
\* a cancellation, the death of the process, and an end_session that raises
\* where it verifies (_run_pipeline, step 4; end_session, step 1, where the
\* session is ended for good, although its docstring names no such error).
Published(s) == batchRecords[s] # <<>>

Excused(s) ==
    \/ ~wiring.redis
    \/ wiring.storage = "none"
    \/ phase[s] = "gone"
    \/ s \in raised
    \/ faults["publish"] + faults["cancel"] > 0

RootReachesQueue ==
    \A s \in Sessions : phase[s] = "ended" ~> Published(s) \/ Excused(s)

\* README.md:349, "Frozen records ... immutable after creation", and
\* capture.py:17, "Once appended, records cannot be modified or deleted".
RecordsFrozen ==
    \A s \in Sessions : \A i \in DOMAIN records[s] : records[s][i].data = records[s][i].hash
=============================================================================
