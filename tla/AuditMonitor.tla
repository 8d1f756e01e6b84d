---------------------------- MODULE AuditMonitor ----------------------------
(***************************************************************************)
(* The log sinks of user/internal/audit/monitor.go: events.log, audit.log, *)
(* alert.log and, per session, sessions.log.                               *)
(*                                                                         *)
(* Four goroutines meet at m.mu: the pipeline (Record), the janitor's      *)
(* close-out callback (RecordSessionSnapshot), the flush goroutine and the *)
(* main goroutine (Close).  A write may fail at any point; the first       *)
(* failure is kept in writerErr and stops every later write.  A raw        *)
(* session snapshot is abstracted to the number of events folded into it   *)
(* and to whether ClosedAt is set; the monitor treats both as given.       *)
(***************************************************************************)
EXTENDS Integers, FiniteSets, Sequences, Functions, SequencesExt

CONSTANTS
    SessionIDs,
    MaxFolded,     \* bound: events folded into a session
    MaxRecords,    \* bound: records per session in sessions.log
    WritesMayFail  \* FALSE: the disk never refuses a write

ASSUME BoundsAssumption ==
    MaxFolded \in Nat /\ MaxRecords \in Nat /\ WritesMayFail \in BOOLEAN

VARIABLES
    monitored,     \* Monitor.sessions
    rawSessions,   \* Monitor.rawSessions: id -> snapshot
    writerErr,     \* Monitor.writerErr # nil
    closed,        \* Monitor.closed, and stopFlush closed with it
    flusher,       \* the flush goroutine: "running", or "done" (m.done closed)
    closer,        \* Close: "idle", "waiting" for m.done, "returned"
    eventLog, auditLog, alertLog,   \* sets of <<id, events folded>>
    sessionLog,    \* id -> its records [reason, raw], oldest first
    latest         \* id -> the last snapshot the monitor accepted

logs == <<eventLog, auditLog, alertLog, sessionLog>>
monitorVars == <<monitored, rawSessions, writerErr, closed, flusher, closer,
                 logs, latest>>

Raw == [folded : 1 .. MaxFolded, closed : BOOLEAN]
Reasons == {"periodic_flush", "session_closed", "shutdown"}

(* The order in which Record writes; the mutant swaps the last two.         *)
AlertBeforeAudit == <<"event", "latency", "alert", "audit">>
WriteOrder == <<"event", "latency", "audit", "alert">>

FailurePoints == {"none"} \cup (IF WritesMayFail THEN Range(WriteOrder) ELSE {})

(* Record got past this write when the disk refused the write `fails`.      *)
Wrote(write, fails) ==
    \/ fails = "none"
    \/ \E i, j \in DOMAIN WriteOrder :
          i < j /\ WriteOrder[i] = write /\ WriteOrder[j] = fails

RecordsOf(id) == IF id \in DOMAIN sessionLog THEN sessionLog[id] ELSE << >>

(* writeSessionRecordLocked for every id in `ids`, each with its snapshot.  *)
writeSessionRecords(ids, raws, reason) ==
    sessionLog' = [id \in DOMAIN sessionLog \cup ids |->
        IF id \in ids
        THEN Append(RecordsOf(id), [reason |-> reason, raw |-> raws[id]])
        ELSE sessionLog[id]]

-----------------------------------------------------------------------------
Init ==
    /\ monitored = {}
    /\ rawSessions = << >>
    /\ writerErr = FALSE
    /\ closed = FALSE
    /\ flusher = "running"
    /\ closer = "idle"
    /\ eventLog = {} /\ auditLog = {} /\ alertLog = {}
    /\ sessionLog = << >>
    /\ latest = << >>

(* The Go assignment m[id] = raw. *)
put(m, id, raw) ==
    [other \in DOMAIN m \cup {id} |-> IF other = id THEN raw ELSE m[other]]

(* Mutants: the first snapshot of a session is kept; a session leaves one map
   but not the other.                                                       *)
bufferFirst(id, raw) ==
    IF id \in DOMAIN rawSessions THEN rawSessions ELSE put(rawSessions, id, raw)
dropNone(ids) == rawSessions

(* Mutant: the callers do not look at m.closed. *)
RefusedAfterErrorOnly == writerErr

Refused == writerErr \/ closed
buffer(id, raw) == put(rawSessions, id, raw)
drop(ids) == Restrict(rawSessions, DOMAIN rawSessions \ ids)

(* Record(e, raw, result): the event line, the latency line, the buffered
   snapshot, then the audit and alert lines the result asks for.  `fails` is
   the write the disk refuses; what came before it stays.                   *)
Record(id, raw, audit, alert, fails) ==
    /\ ~Refused
    /\ fails = "audit" => audit
    /\ fails = "alert" => alert
    /\ LET line == {<<id, raw.folded>>}
           If(write, log) == IF write THEN log \cup line ELSE log
       IN  /\ eventLog' = If(Wrote("event", fails), eventLog)
           /\ auditLog' = If(audit /\ Wrote("audit", fails), auditLog)
           /\ alertLog' = If(alert /\ Wrote("alert", fails), alertLog)
    /\ IF Wrote("latency", fails)
       THEN /\ monitored' = monitored \cup {id}
            /\ rawSessions' = buffer(id, raw)
            /\ latest' = put(latest, id, raw)
       ELSE UNCHANGED <<monitored, rawSessions, latest>>
    /\ writerErr' = (fails # "none")
    /\ UNCHANGED <<closed, flusher, closer, sessionLog>>

(* RecordSessionSnapshot(raw, reason, ts), which the janitor calls with
   reason session_closed.                                                   *)
RecordSessionSnapshot(id, raw, fails) ==
    /\ ~Refused
    /\ IF fails THEN UNCHANGED sessionLog
       ELSE writeSessionRecords({id}, [only \in {id} |-> raw], "session_closed")
    /\ IF raw.closed /\ ~fails
       THEN /\ monitored' = monitored \ {id}
            /\ rawSessions' = drop({id})
       ELSE /\ monitored' = monitored \cup {id}
            /\ rawSessions' = buffer(id, raw)
    /\ latest' = put(latest, id, raw)
    /\ writerErr' = fails
    /\ UNCHANGED <<closed, flusher, closer, eventLog, auditLog, alertLog>>

(* Both calls return an error and change nothing once a write has failed or
   the monitor is closed.                                                   *)
RefusedCall == Refused /\ UNCHANGED monitorVars

(* Mutant: the final flush forgets only sessions that were closed. *)
forgottenIfClosed(written, clear) == {id \in written : rawSessions[id].closed}

forgotten(written, clear) == {id \in written : clear \/ rawSessions[id].closed}

(* flushSessionsLocked(reason, clear): in map order, stopping at the first
   write that fails; `written` are the sessions that came before it.        *)
flushSessions(reason, clear, written) ==
    LET due == monitored \cap DOMAIN rawSessions
        gone == forgotten(written, clear)
    IN  /\ written \subseteq due
        /\ written # due => WritesMayFail
        /\ writeSessionRecords(written, rawSessions, reason)
        /\ monitored' = monitored \ gone
        /\ rawSessions' = drop(gone)
        /\ writerErr' = (written # due)

(* runPeriodicFlush: one tick; nothing is flushed once closing started, even
   if the ticker wins the select over stopFlush.                            *)
FlushTick(written) ==
    /\ flusher = "running" /\ ~writerErr /\ ~closed
    /\ flushSessions("periodic_flush", FALSE, written)
    /\ UNCHANGED <<closed, flusher, closer, eventLog, auditLog, alertLog, latest>>

FlusherStops ==
    /\ flusher = "running" /\ closed
    /\ flusher' = "done"
    /\ UNCHANGED <<monitored, rawSessions, writerErr, closed, closer, logs, latest>>

(* Mutant: Close does not close stopFlush. *)
CloseBeginsSilently ==
    /\ closer = "idle"
    /\ closer' = "waiting"
    /\ UNCHANGED <<monitored, rawSessions, writerErr, closed, flusher, logs, latest>>

(* Close, first critical section; then it waits for m.done without m.mu.    *)
CloseBegins ==
    /\ closer = "idle"
    /\ closed' = TRUE
    /\ closer' = "waiting"
    /\ UNCHANGED <<monitored, rawSessions, writerErr, flusher, logs, latest>>

(* Close, second critical section: the last flush, unless a write failed.   *)
CloseFinishes(written) ==
    /\ closer = "waiting" /\ flusher = "done"
    /\ closer' = "returned"
    /\ IF writerErr
       THEN UNCHANGED <<monitored, rawSessions, writerErr, sessionLog>>
       ELSE flushSessions("shutdown", TRUE, written)
    /\ UNCHANGED <<closed, flusher, eventLog, auditLog, alertLog, latest>>

-----------------------------------------------------------------------------
(* The callers, with any snapshot: the pipeline and the janitor take theirs
   from the context manager before they get m.mu, in either order.  A result
   that reaches the alert threshold reaches the log threshold (Validate).   *)
PipelineRecords ==
    \E id \in SessionIDs, raw \in Raw, audit, alert \in BOOLEAN,
       fails \in FailurePoints :
          /\ alert => audit
          /\ Record(id, raw, audit, alert, fails)

JanitorRecords ==
    \E id \in SessionIDs, n \in 1 .. MaxFolded, fails \in BOOLEAN :
        /\ Len(RecordsOf(id)) < MaxRecords
        /\ fails => WritesMayFail
        /\ RecordSessionSnapshot(id, [folded |-> n, closed |-> TRUE], fails)

PeriodicFlush ==
    \E written \in SUBSET monitored :
        /\ \A id \in SessionIDs : Len(RecordsOf(id)) < MaxRecords
        /\ FlushTick(written)

Closing == \E written \in SUBSET monitored : CloseFinishes(written)

Next ==
    \/ PipelineRecords \/ JanitorRecords \/ RefusedCall
    \/ PeriodicFlush \/ FlusherStops \/ CloseBegins \/ Closing

Spec == Init /\ [][Next]_monitorVars

-----------------------------------------------------------------------------
(* The state is well formed; every monitored session has a snapshot. *)
TypeOK ==
    /\ monitored \subseteq SessionIDs
    /\ DOMAIN rawSessions = monitored
    /\ \A id \in monitored : rawSessions[id] \in Raw
    /\ writerErr \in BOOLEAN /\ closed \in BOOLEAN
    /\ flusher \in {"running", "done"}
    /\ closer \in {"idle", "waiting", "returned"}
    /\ eventLog \cup auditLog \cup alertLog \subseteq SessionIDs \X (1 .. MaxFolded)
    /\ DOMAIN sessionLog \subseteq SessionIDs
    /\ \A id \in DOMAIN sessionLog : sessionLog[id] \in Seq([reason : Reasons, raw : Raw])
    /\ DOMAIN latest \subseteq SessionIDs
    /\ \A id \in DOMAIN latest : latest[id] \in Raw

(* Nothing accepted is lost while the disk works: the last snapshot the
   monitor took of a session is the one it will flush, or the one its last
   line in sessions.log shows.                                              *)
LatestIsLoggedOrBuffered ==
    ~writerErr => \A id \in DOMAIN latest :
        \/ id \in monitored /\ rawSessions[id] = latest[id]
        \/ RecordsOf(id) # << >> /\ Last(RecordsOf(id)).raw = latest[id]

(* A Close that met no error leaves every session on disk with its last
   snapshot, whichever of the three reasons wrote it.                       *)
CloseLeavesNothingBehind ==
    (closer = "returned" /\ ~writerErr) =>
        /\ monitored = {}
        /\ \A id \in DOMAIN latest : Last(RecordsOf(id)).raw = latest[id]

(* alert.log is contained in audit.log and that in events.log, also when a
   write fails half-way through a Record.                                   *)
LogsNest == alertLog \subseteq auditLog /\ auditLog \subseteq eventLog

(* A step that writes nothing but the session records of the final flush. *)
FinalRecord(id) == [reason |-> "shutdown", raw |-> latest[id]]

FinalFlushOnly ==
    /\ UNCHANGED <<eventLog, auditLog, alertLog, latest>>
    /\ sessionLog' # sessionLog => closer = "waiting" /\ closer' = "returned"
    /\ DOMAIN sessionLog \subseteq DOMAIN sessionLog'
    /\ \A id \in DOMAIN sessionLog' :
          sessionLog'[id] \in {RecordsOf(id), Append(RecordsOf(id), FinalRecord(id))}

(* From the moment Close begins no record is accepted, no line is added to
   events.log, audit.log or alert.log, and no periodic flush writes.  Only the
   last step of Close touches a log: it adds at most one line per session to
   sessions.log, "shutdown" with the last snapshot the monitor accepted, and
   takes none away (the checks of m.closed in Record, RecordSessionSnapshot
   and runPeriodicFlush).                                                   *)
OnlyShutdownAfterClose == [][closed => FinalFlushOnly]_monitorVars
=============================================================================
