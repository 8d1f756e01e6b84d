------------------------------ MODULE Pipeline ------------------------------
(***************************************************************************)
(* The life of a session across the goroutines that touch it:              *)
(*                                                                         *)
(*   pipeline   pipeline.Run: one event at a time through the tracker, the *)
(*              gates, the context manager, the decision engine, the audit *)
(*              monitor and the trace manager                              *)
(*   janitor    StartJanitor and the close-out callback that Run gives it  *)
(*   flusher    the audit monitor's periodic flush                         *)
(*   main       the shutdown sequence of cmd/main.go                       *)
(*                                                                         *)
(* Each component locks only for the length of one call, so the pipeline's *)
(* handling of one event and the janitor's close-out of one session are    *)
(* chains of calls that interleave freely.  The components are the modules *)
(* SessionTracker, DecisionEngine, AuditMonitor and TraceManager; this     *)
(* module is the order in which their operations are called.  The context  *)
(* manager is reduced to what the close-out needs: the number of events    *)
(* folded into a session and whether it was closed.  Which events the      *)
(* process-tree gate and the noise filters drop is arbitrary here.         *)
(***************************************************************************)
EXTENDS Integers, FiniteSets, Sequences, Functions, SequencesExt

CONSTANTS
    Pids, Grace, MaxTime, MaxLag, MaxSkew, MaxSessions, BootTimeKnown,
    Rules, RuleName, Configs,
    Enabled, WritesMayFail,
    MaxEvents,   \* bound: events the pipeline receives
    MaxFlushes   \* bound: periodic flushes

ASSUME SessionsAssumption == MaxSessions \in Nat

SessionIDs == 1 .. MaxSessions
MaxFolded == MaxEvents
MaxRecords == MaxEvents + MaxFlushes

VARIABLES
    sessions, activeSessionID, nextSessionID, clock, endLog, handed,
    joinedClosing,
    config, states, matching, results,
    monitored, rawSessions, writerErr, closed, flusher, closer,
    eventLog, auditLog, alertLog, sessionLog, latest,
    spans, ended, analysed,
    contexts,      \* context.Manager.sessions: id -> [folded, closed]
    pipeline,      \* where Run is, and the locals it carries there
    janitor,       \* where the close-out callback is, and its locals
    main,          \* "running", "closing", "exited"
    cancelled,     \* ctx.Done() is closed
    received,      \* events received so far
    late,          \* id -> events folded in after the session had ended
    scored         \* <<id, rule>> -> results of the session that scored it

Tracker == INSTANCE SessionTracker
Decision == INSTANCE DecisionEngine
Monitor == INSTANCE AuditMonitor
Traces == INSTANCE TraceManager

trackerVars == <<sessions, activeSessionID, nextSessionID, clock, endLog, handed,
                 joinedClosing>>
decisionVars == <<config, states, matching, results>>
monitorVars == <<monitored, rawSessions, writerErr, closed, flusher, closer,
                 eventLog, auditLog, alertLog, sessionLog, latest>>
traceVars == <<spans, ended, analysed>>
ghosts == <<late, scored>>
vars == <<trackerVars, decisionVars, monitorVars, traceVars, contexts, pipeline,
          janitor, main, cancelled, received, ghosts>>

NoRaw == [folded |-> 0, closed |-> FALSE]
Receiving == [at |-> "receive", time |-> 0, id |-> 0, raw |-> NoRaw,
              score |-> 0, action |-> "IGNORE", audit |-> FALSE, alert |-> FALSE]
Sweeping == [at |-> "sweep", ids |-> {}, raw |-> NoRaw]

(* The loop of StartJanitor over what Expire returned. *)
ClosingNext(ids) ==
    IF ids = {} THEN Sweeping ELSE [Sweeping EXCEPT !.at = "trace", !.ids = ids]

ClosingIn(j) == CHOOSE id \in j.ids : TRUE   \* at most one session at a time

Init ==
    /\ Tracker!Init /\ Decision!Init /\ Monitor!Init /\ Traces!Init
    /\ contexts = << >>
    /\ pipeline = Receiving
    /\ janitor = Sweeping
    /\ main = "running"
    /\ cancelled = FALSE
    /\ received = 0
    /\ late = [id \in SessionIDs |-> 0]
    /\ scored = [p \in SessionIDs \X Rules |-> 0]

-----------------------------------------------------------------------------
(* The pipeline goroutine. *)

(* for e := range events, up to the lifecycle call for execve and exit. *)
Receive ==
    /\ main = "running" /\ pipeline.at = "receive"
    /\ received < MaxEvents
    /\ clock <= MaxTime
    /\ \E t \in Tracker!EventTimes :
          /\ pipeline' = [pipeline EXCEPT !.at = "lookup", !.time = t]
          /\ \/ \E pid \in Pids, isCLI \in BOOLEAN :
                   Tracker!ObserveExecve(pid, isCLI, t)
             \/ \E pid \in Pids, isLeader \in BOOLEAN :
                   Tracker!ObserveExit(pid, isLeader, t)
             \/ UNCHANGED trackerVars        \* openat and connect
    /\ received' = received + 1
    /\ UNCHANGED <<decisionVars, monitorVars, traceVars, contexts, janitor, main,
                   cancelled, ghosts>>

(* The process-tree gate drops the event before any session is looked up. *)
OutOfTree ==
    /\ pipeline.at = "lookup"
    /\ pipeline' = Receiving
    /\ UNCHANGED <<trackerVars, decisionVars, monitorVars, traceVars, contexts,
                   janitor, main, cancelled, received, ghosts>>

(* Mutant: the event goes to the session that started last. *)
LookupLastStarted ==
    /\ pipeline.at = "lookup"
    /\ Tracker!ActiveSession(pipeline.time)
    /\ \/ pipeline' = Receiving
       \/ /\ nextSessionID > 1
          /\ pipeline' = [pipeline EXCEPT !.at = "observe", !.id = nextSessionID - 1]
    /\ UNCHANGED <<decisionVars, monitorVars, traceVars, contexts, janitor, main,
                   cancelled, received, ghosts>>

(* The session gate, and the filters behind it.  From here on Run holds the
   session's id and never asks the tracker again.                           *)
Lookup ==
    /\ pipeline.at = "lookup"
    /\ Tracker!ActiveSession(pipeline.time)
    /\ \/ pipeline' = Receiving              \* no session, or filtered out
       \/ /\ Tracker!activeSession(pipeline.time) # 0
          /\ pipeline' = [pipeline EXCEPT
                            !.at = "observe",
                            !.id = Tracker!activeSession(pipeline.time)]
    /\ UNCHANGED <<decisionVars, monitorVars, traceVars, contexts, janitor, main,
                   cancelled, received, ghosts>>

(* contextManager.Observe; a session it does not know is created open. *)
Observe ==
    /\ pipeline.at = "observe"
    /\ LET id == pipeline.id
           known == IF id \in DOMAIN contexts THEN contexts[id] ELSE NoRaw
       IN  /\ contexts' = Decision!Put(contexts, id, [known EXCEPT !.folded = @ + 1])
           /\ late' = IF id \in DOMAIN endLog THEN [late EXCEPT ![id] = @ + 1]
                                              ELSE late
    /\ pipeline' = [pipeline EXCEPT !.at = "snapshot"]
    /\ UNCHANGED <<trackerVars, decisionVars, monitorVars, traceVars, janitor, main,
                   cancelled, received, scored>>

(* ApplyEvent, then SnapshotSessionByID: the raw view the monitor is given. *)
Snapshot ==
    /\ pipeline.at = "snapshot"
    /\ pipeline' = [pipeline EXCEPT !.at = "match", !.raw = contexts[pipeline.id]]
    /\ UNCHANGED <<trackerVars, decisionVars, monitorVars, traceVars, contexts,
                   janitor, main, cancelled, received, ghosts>>

Match ==
    /\ pipeline.at = "match"
    /\ \E matched \in SUBSET DOMAIN config.weight :
          Decision!MatchRules(pipeline.id, matched)
    /\ pipeline' = [pipeline EXCEPT !.at = "score"]
    /\ UNCHANGED <<trackerVars, monitorVars, traceVars, contexts, janitor, main,
                   cancelled, received, ghosts>>

Score ==
    /\ pipeline.at = "score"
    /\ Decision!ScoreMatched
    /\ LET id == pipeline.id
           result == Last(results'[id])
       IN  /\ pipeline' = [pipeline EXCEPT
                             !.at = "record", !.score = result.score,
                             !.action = result.action,
                             !.audit = Decision!GoesToAuditLog(result),
                             !.alert = Decision!CrossesAlertThreshold(result)]
           /\ scored' = [p \in SessionIDs \X Rules |->
                 scored[p] + (IF p[1] = id /\ p[2] \in DOMAIN result.triggered
                              THEN 1 ELSE 0)]
    /\ UNCHANGED <<trackerVars, monitorVars, traceVars, contexts, janitor, main,
                   cancelled, received, late>>

(* auditMonitor.Record; an error is only logged, and the outcome handed to
   the tracer says what did get written.                                    *)
Record ==
    /\ pipeline.at = "record"
    /\ \/ \E fails \in Monitor!FailurePoints :
             /\ Monitor!Record(pipeline.id, pipeline.raw, pipeline.audit,
                               pipeline.alert, fails)
             /\ pipeline' = [pipeline EXCEPT
                               !.at = "trace",
                               !.audit = @ /\ Monitor!Wrote("audit", fails),
                               !.alert = @ /\ Monitor!Wrote("alert", fails)]
       \/ /\ Monitor!RefusedCall
          /\ pipeline' = [pipeline EXCEPT !.at = "trace", !.audit = FALSE,
                                          !.alert = FALSE]
    /\ UNCHANGED <<trackerVars, decisionVars, traceVars, contexts, janitor, main,
                   cancelled, received, ghosts>>

Trace ==
    /\ pipeline.at = "trace"
    /\ Traces!RecordAnalysis(pipeline.id, [score |-> pipeline.score,
                                           action |-> pipeline.action,
                                           audit |-> pipeline.audit,
                                           alert |-> pipeline.alert])
    /\ pipeline' = Receiving
    /\ UNCHANGED <<trackerVars, decisionVars, monitorVars, contexts, janitor, main,
                   cancelled, received, ghosts>>

-----------------------------------------------------------------------------
(* The janitor goroutine: a sweep on the wall clock, then for every expired
   session the close-out callback (pipeline.go:33-46), call by call.        *)
Alive == main # "exited"

Sweep ==
    /\ Alive /\ janitor.at = "sweep"
    /\ Tracker!Expire(clock)
    /\ janitor' = ClosingNext(Tracker!ExpiredIds(clock))
    /\ UNCHANGED <<decisionVars, monitorVars, traceVars, contexts, pipeline, main,
                   cancelled, received, ghosts>>

(* ctx.Done() wins the select; when the ticker wins, the janitor sweeps on. *)
JanitorStops ==
    /\ Alive /\ cancelled /\ janitor.at = "sweep"
    /\ janitor' = [janitor EXCEPT !.at = "stopped"]
    /\ UNCHANGED <<trackerVars, decisionVars, monitorVars, traceVars, contexts,
                   pipeline, main, cancelled, received, ghosts>>

CloseTrace ==
    /\ Alive /\ janitor.at = "trace"
    /\ Traces!CloseSession(ClosingIn(janitor))
    /\ janitor' = [janitor EXCEPT !.at = "context"]
    /\ UNCHANGED <<trackerVars, decisionVars, monitorVars, contexts, pipeline, main,
                   cancelled, received, ghosts>>

(* contextManager.CloseSession marks the session, it never deletes it. *)
CloseContext ==
    /\ Alive /\ janitor.at = "context"
    /\ LET id == ClosingIn(janitor)
       IN  contexts' = IF id \in DOMAIN contexts
                       THEN [contexts EXCEPT ![id].closed = TRUE] ELSE contexts
    /\ janitor' = [janitor EXCEPT !.at = "snapshot"]
    /\ UNCHANGED <<trackerVars, decisionVars, monitorVars, traceVars, pipeline, main,
                   cancelled, received, ghosts>>

(* Mutant: a session the monitor has not heard of yet is skipped. *)
CloseSnapshotIfMonitored ==
    /\ Alive /\ janitor.at = "snapshot"
    /\ LET id == ClosingIn(janitor)
       IN  janitor' = IF id \in monitored
                      THEN [janitor EXCEPT !.at = "record", !.raw = contexts[id]]
                      ELSE [janitor EXCEPT !.at = "engine"]
    /\ UNCHANGED <<trackerVars, decisionVars, monitorVars, traceVars, contexts,
                   pipeline, main, cancelled, received, ghosts>>

(* A session with no accepted event has no snapshot and leaves no record. *)
CloseSnapshot ==
    /\ Alive /\ janitor.at = "snapshot"
    /\ LET id == ClosingIn(janitor)
       IN  janitor' = IF id \in DOMAIN contexts
                      THEN [janitor EXCEPT !.at = "record", !.raw = contexts[id]]
                      ELSE [janitor EXCEPT !.at = "engine"]
    /\ UNCHANGED <<trackerVars, decisionVars, monitorVars, traceVars, contexts,
                   pipeline, main, cancelled, received, ghosts>>

CloseRecord ==
    /\ Alive /\ janitor.at = "record"
    /\ \/ \E fails \in BOOLEAN :
             /\ fails => WritesMayFail
             /\ Monitor!RecordSessionSnapshot(ClosingIn(janitor), janitor.raw, fails)
       \/ Monitor!RefusedCall
    /\ janitor' = [janitor EXCEPT !.at = "engine"]
    /\ UNCHANGED <<trackerVars, decisionVars, traceVars, contexts, pipeline, main,
                   cancelled, received, ghosts>>

CloseEngine ==
    /\ Alive /\ janitor.at = "engine"
    /\ Decision!CloseSession(ClosingIn(janitor))
    /\ janitor' = ClosingNext(janitor.ids \ {ClosingIn(janitor)})
    /\ UNCHANGED <<trackerVars, monitorVars, traceVars, contexts, pipeline, main,
                   cancelled, received, ghosts>>

-----------------------------------------------------------------------------
(* The audit monitor's flush goroutine. *)
FlushesOf(id) == SelectSeq(Monitor!RecordsOf(id),
                           LAMBDA r : r.reason = "periodic_flush")

Flush ==
    /\ Alive
    /\ \A id \in monitored : Len(FlushesOf(id)) < MaxFlushes
    /\ \E written \in SUBSET monitored : Monitor!FlushTick(written)
    /\ UNCHANGED <<trackerVars, decisionVars, traceVars, contexts, pipeline, janitor,
                   main, cancelled, received, ghosts>>

FlusherStops ==
    /\ Alive
    /\ Monitor!FlusherStops
    /\ UNCHANGED <<trackerVars, decisionVars, traceVars, contexts, pipeline, janitor,
                   main, cancelled, received, ghosts>>

-----------------------------------------------------------------------------
(* The main goroutine, and the passage of time. *)
Signal ==
    /\ main = "running" /\ ~cancelled
    /\ cancelled' = TRUE
    /\ UNCHANGED <<trackerVars, decisionVars, monitorVars, traceVars, contexts,
                   pipeline, janitor, main, received, ghosts>>

(* The events channel is closed and drained, so Run has returned: after a
   signal, or because the ring buffer reader failed.  The deferred Close of
   the audit monitor begins; nobody waits for the janitor.                  *)
CloseBegins ==
    /\ main = "running" /\ pipeline.at = "receive"
    /\ main' = "closing"
    /\ Monitor!CloseBegins
    /\ UNCHANGED <<trackerVars, decisionVars, traceVars, contexts, pipeline, janitor,
                   cancelled, received, ghosts>>

CloseFinishes ==
    /\ main = "closing"
    /\ \E written \in SUBSET monitored : Monitor!CloseFinishes(written)
    /\ UNCHANGED <<trackerVars, decisionVars, traceVars, contexts, pipeline, janitor,
                   main, cancelled, received, ghosts>>

(* traceManager.Shutdown, after which the process exits, wherever the
   janitor is.                                                              *)
ShutdownTraces ==
    /\ main = "closing" /\ closer = "returned"
    /\ Traces!Shutdown
    /\ main' = "exited"
    /\ UNCHANGED <<trackerVars, decisionVars, monitorVars, contexts, pipeline,
                   janitor, cancelled, received, ghosts>>

Tick ==
    /\ Alive
    /\ Tracker!Tick
    /\ UNCHANGED <<decisionVars, monitorVars, traceVars, contexts, pipeline, janitor,
                   main, cancelled, received, ghosts>>

Exited == main = "exited" /\ UNCHANGED vars

PipelineStep ==
    \/ Receive \/ OutOfTree \/ Lookup \/ Observe \/ Snapshot \/ Match \/ Score
    \/ Record \/ Trace
JanitorStep ==
    \/ Sweep \/ JanitorStops \/ CloseTrace \/ CloseContext \/ CloseSnapshot
    \/ CloseRecord \/ CloseEngine
MainStep == Signal \/ CloseBegins \/ CloseFinishes \/ ShutdownTraces

Next ==
    \/ PipelineStep \/ JanitorStep \/ Flush \/ FlusherStops \/ MainStep
    \/ Tick \/ Exited

Spec == Init /\ [][Next]_vars

(* Every goroutine is scheduled, but no event, signal or tick of the flush
   timer is owed.  After a signal the loader is closed, so that the events
   left are finitely many and the channel does run dry.                     *)
FairSpec ==
    /\ Spec
    /\ WF_vars(OutOfTree \/ Lookup \/ Observe \/ Snapshot \/ Match \/ Score
                  \/ Record \/ Trace)
    /\ WF_vars(FlusherStops)
    /\ WF_vars((cancelled /\ CloseBegins) \/ CloseFinishes \/ ShutdownTraces)

-----------------------------------------------------------------------------
ClosedRecords(id) == {i \in DOMAIN Monitor!RecordsOf(id) :
                        Monitor!RecordsOf(id)[i].reason = "session_closed"}

(* Where the goroutines are is consistent with what they hold. *)
TypeOK ==
    /\ pipeline.at \in {"receive", "lookup", "observe", "snapshot", "match", "score",
                        "record", "trace"}
    /\ pipeline.at \notin {"receive", "lookup"} => pipeline.id \in SessionIDs
    /\ (pipeline.at = "score") <=> (matching # {})
    /\ janitor.at \in {"sweep", "stopped", "trace", "context", "snapshot", "record",
                       "engine"}
    /\ janitor.at \notin {"sweep", "stopped"} => janitor.ids # {}
    /\ DOMAIN contexts \subseteq 1 .. (nextSessionID - 1)
    /\ main \in {"running", "closing", "exited"}

(* The janitor and the pipeline do not wait for each other, yet at most one
   event, the one in flight when the session ended, is folded into a session
   after its end.                                                           *)
AtMostOneLateEvent == \A id \in SessionIDs : late[id] <= 1

(* That one event is all that can reopen a span: a session has at most two,
   and a rule is scored at most twice.                                      *)
AtMostTwoAccounts ==
    /\ \A id \in SessionIDs : Cardinality(Traces!SpansOf(id)) <= 2
    /\ \A p \in DOMAIN scored : scored[p] <= 2

(* Every session the janitor was handed is closed out when it is idle again:
   if the session accepted an event before it ended, its session_closed record
   is there, whether or not a late one came after it, unless the monitor
   refused because it was shutting down or failed.  No session has a second
   one.  Only a session whose one event was late may go without: the callback
   can have looked for a snapshot before there was one.                     *)
HandedIsClosedOut ==
    /\ \A id \in SessionIDs : \A i, j \in ClosedRecords(id) : i = j
    /\ \A id \in handed \ janitor.ids :
        (id \in DOMAIN contexts /\ contexts[id].folded > late[id] /\ ~closed /\ ~writerErr)
            => ClosedRecords(id) # {}

(* At exit every session that accepted an event is in sessions.log, and its
   last record misses at most one event: the janitor's snapshot may be older
   than the record that the pipeline wrote first.                           *)
LastRecordLagsOneEvent ==
    (main = "exited" /\ ~writerErr) =>
        \A id \in DOMAIN contexts :
            /\ Monitor!RecordsOf(id) # << >>
            /\ Last(Monitor!RecordsOf(id)).raw.folded >= contexts[id].folded - 1

(* Every event whose analysis reached the tracer is in exactly one span of its
   session, while closes, reopenings and the shutdown fall between the events,
   and at exit every span was ended: neither the janitor nor the shutdown
   drops one or leaves one open.                                            *)
TracesComplete ==
    /\ Traces!EveryEventInOneSpan
    /\ (main = "exited" /\ Enabled) => spans = << >>

(* What a span shows is the last score and the worst of its own events, though
   the janitor may close it in the middle of one and the outcome of another
   depends on what the audit monitor still wrote (README.md:52).            *)
SpanShowsItsWorst == Traces!SpanShowsItsWorst

(* A signal leads to exit: no goroutine waits for one that waits for it. *)
ShutdownCompletes == cancelled ~> (main = "exited")

-----------------------------------------------------------------------------
(* What the documents say, and the code does not do. *)

(* README.md:42: "Each session produces one trace span covering its full
   lifetime".                                                               *)
OneSpanPerSession == \A id \in SessionIDs : Cardinality(Traces!SpansOf(id)) <= 1

(* decision_test.go:12: Evaluate only scores newly triggered rules per
   session.                                                                 *)
RuleScoredOncePerSession == \A p \in DOMAIN scored : scored[p] <= 1

(* README.md:82: sessions.log has the snapshots written on session_closed. A
   session that ended after its last accepted event has its record, once the
   pipeline and the janitor are idle.                                       *)
EndedHasClosedRecord ==
    (pipeline.at = "receive" /\ janitor.at = "sweep" /\ main = "running") =>
        \A id \in DOMAIN endLog \cap DOMAIN contexts :
            late[id] = 0 => ClosedRecords(id) # {}
=============================================================================
