------------------------- MODULE AuditMonitorProofs -------------------------
(***************************************************************************)
(* Proofs about AuditMonitor, for every set of sessions and every bound,   *)
(* with and without failing writes.                                        *)
(*                                                                         *)
(* LatestIsLoggedOrBuffered is not inductive: a session could be buffered  *)
(* with an old snapshot while its last record shows the latest one, and    *)
(* the next flush would hide it.  Buffered excludes that, Logged is what   *)
(* remains to be said of the sessions that are not buffered.               *)
(***************************************************************************)
EXTENDS AuditMonitor, SequenceTheorems, TLAPS

SessionRecord == [reason : Reasons, raw : Raw]

(* What is buffered is the latest snapshot. *)
Buffered == \A id \in monitored : id \in DOMAIN latest /\ rawSessions[id] = latest[id]

(* What is not buffered is on disk, until a write fails. *)
Logged ==
    ~writerErr => \A id \in DOMAIN latest \ monitored :
        RecordsOf(id) # << >> /\ Last(RecordsOf(id)).raw = latest[id]

(* What the operations on the snapshots keep true. *)
SnapshotsOK ==
    /\ monitored \subseteq SessionIDs
    /\ DOMAIN rawSessions = monitored
    /\ \A id \in monitored : rawSessions[id] \in Raw
    /\ DOMAIN latest \subseteq SessionIDs
    /\ \A id \in DOMAIN latest : latest[id] \in Raw
    /\ Buffered

(* Close takes its steps in order, and leaves no session in the buffer. *)
CloseInOrder ==
    /\ closer # "idle" => closed
    /\ (closer = "returned" /\ ~writerErr) => monitored = {}

IInv == TypeOK /\ Buffered /\ Logged /\ CloseInOrder /\ LogsNest

-----------------------------------------------------------------------------
(* What a session's file holds after one more record. *)
LEMMA AppendRecord ==
    ASSUME NEW s \in Seq(SessionRecord), NEW r \in SessionRecord
    PROVE  /\ Append(s, r) \in Seq(SessionRecord)
           /\ Append(s, r) # << >>
           /\ Last(Append(s, r)) = r
<1>1. /\ Append(s, r) \in Seq(SessionRecord)
      /\ Append(s, r) # << >>
      /\ Len(Append(s, r)) = Len(s) + 1
      /\ Append(s, r)[Len(s) + 1] = r
  BY AppendProperties
<1> QED BY <1>1 DEF Last

LEMMA RecordsOfType == TypeOK => \A id : RecordsOf(id) \in Seq(SessionRecord)
<1>1. << >> \in Seq(SessionRecord)
  BY EmptySeq
<1> QED BY <1>1 DEF TypeOK, RecordsOf, SessionRecord

(* writeSessionRecordLocked for a set of sessions: each of them gets one
   record with its snapshot, the others keep theirs.                        *)
LEMMA WriteRecords ==
    ASSUME TypeOK, NEW ids \in SUBSET SessionIDs, NEW raws, NEW reason \in Reasons,
           \A id \in ids : raws[id] \in Raw,
           writeSessionRecords(ids, raws, reason)
    PROVE  /\ DOMAIN sessionLog' \subseteq SessionIDs
           /\ \A id \in DOMAIN sessionLog' : sessionLog'[id] \in Seq(SessionRecord)
           /\ \A id \in ids : /\ RecordsOf(id)' # << >>
                              /\ Last(RecordsOf(id)').raw = raws[id]
                              /\ Last(RecordsOf(id)').reason = reason
           /\ \A id : id \notin ids => RecordsOf(id)' = RecordsOf(id)
<1> DEFINE rec(id) == [reason |-> reason, raw |-> raws[id]]
<1>1. /\ DOMAIN sessionLog' = DOMAIN sessionLog \cup ids
      /\ \A id \in ids : sessionLog'[id] = Append(RecordsOf(id), rec(id))
      /\ \A id \in DOMAIN sessionLog \ ids : sessionLog'[id] = sessionLog[id]
  BY DEF writeSessionRecords
<1>2. \A id \in ids : /\ rec(id) \in SessionRecord
                    /\ rec(id).raw = raws[id] /\ rec(id).reason = reason
  BY DEF SessionRecord
<1> HIDE DEF rec
<1>3. ASSUME NEW id \in ids
      PROVE  /\ sessionLog'[id] \in Seq(SessionRecord) /\ sessionLog'[id] # << >>
             /\ Last(sessionLog'[id]).raw = raws[id]
             /\ Last(sessionLog'[id]).reason = reason
  <2>1. RecordsOf(id) \in Seq(SessionRecord) /\ rec(id) \in SessionRecord
    BY <1>2, RecordsOfType
  <2>2. /\ Append(RecordsOf(id), rec(id)) \in Seq(SessionRecord)
        /\ Append(RecordsOf(id), rec(id)) # << >>
        /\ Last(Append(RecordsOf(id), rec(id))) = rec(id)
    BY <2>1, AppendRecord
  <2> QED BY <1>1, <1>2, <2>2
<1>4. \A id \in ids : RecordsOf(id)' = sessionLog'[id]
  BY <1>1 DEF RecordsOf
<1>5. \A id : id \notin ids => RecordsOf(id)' = RecordsOf(id)
  BY <1>1 DEF RecordsOf
<1>6. \A id \in DOMAIN sessionLog' : sessionLog'[id] \in Seq(SessionRecord)
  BY <1>1, <1>3 DEF TypeOK, SessionRecord
<1>7. DOMAIN sessionLog' \subseteq SessionIDs
  BY <1>1 DEF TypeOK
<1> QED BY <1>3, <1>4, <1>5, <1>6, <1>7

(* drop as a function. *)
LEMMA DropLemma ==
    ASSUME NEW ids
    PROVE  /\ DOMAIN drop(ids) = DOMAIN rawSessions \ ids
           /\ \A other \in DOMAIN rawSessions \ ids : drop(ids)[other] = rawSessions[other]
  BY DEF drop, Restrict

(* What `latest` becomes when the monitor accepts a snapshot. *)
LEMMA LatestTaken ==
    ASSUME NEW id, NEW raw, latest' = put(latest, id, raw)
    PROVE  /\ DOMAIN latest' = DOMAIN latest \cup {id}
           /\ latest'[id] = raw
           /\ \A other \in DOMAIN latest \ {id} : latest'[other] = latest[other]
  BY DEF put

(* A snapshot that is taken and buffered; a snapshot that is taken and written;
   snapshots that leave the buffer.                                         *)
LEMMA TakeAndBuffer ==
    ASSUME IInv, NEW id \in SessionIDs, NEW raw \in Raw,
           monitored' = monitored \cup {id}, rawSessions' = buffer(id, raw),
           latest' = put(latest, id, raw)
    PROVE  SnapshotsOK'
<1>1. /\ DOMAIN rawSessions' = monitored' /\ rawSessions'[id] = raw
      /\ \A other \in monitored \ {id} : rawSessions'[other] = rawSessions[other]
  BY DEF buffer, put, IInv, TypeOK
<1>2. /\ DOMAIN latest' = DOMAIN latest \cup {id} /\ latest'[id] = raw
      /\ \A other \in DOMAIN latest \ {id} : latest'[other] = latest[other]
  BY LatestTaken
<1>3. \A other \in monitored' : rawSessions'[other] \in Raw
  BY <1>1 DEF IInv, TypeOK
<1>4. DOMAIN latest' \subseteq SessionIDs /\ \A other \in DOMAIN latest' : latest'[other] \in Raw
  BY <1>2 DEF IInv, TypeOK
<1>5. Buffered'
  BY <1>1, <1>2 DEF IInv, Buffered
<1>6. monitored' \subseteq SessionIDs
  BY DEF IInv, TypeOK
<1> QED BY <1>1, <1>3, <1>4, <1>5, <1>6 DEF SnapshotsOK

LEMMA Leave ==
    ASSUME IInv, NEW ids, monitored' = monitored \ ids, rawSessions' = drop(ids),
           UNCHANGED latest
    PROVE  SnapshotsOK'
<1>1. /\ DOMAIN rawSessions' = monitored'
      /\ \A other \in monitored' : rawSessions'[other] = rawSessions[other]
  BY DropLemma DEF IInv, TypeOK
<1> QED BY <1>1 DEF IInv, TypeOK, Buffered, SnapshotsOK

LEMMA TakeAndWrite ==
    ASSUME IInv, NEW id \in SessionIDs, NEW raw \in Raw,
           monitored' = monitored \ {id}, rawSessions' = drop({id}),
           latest' = put(latest, id, raw)
    PROVE  SnapshotsOK'
<1>1. /\ DOMAIN rawSessions' = monitored'
      /\ \A other \in monitored' : rawSessions'[other] = rawSessions[other]
  BY DropLemma DEF IInv, TypeOK
<1>2. /\ DOMAIN latest' = DOMAIN latest \cup {id} /\ latest'[id] = raw
      /\ \A other \in DOMAIN latest \ {id} : latest'[other] = latest[other]
  BY LatestTaken
<1>3. DOMAIN latest' \subseteq SessionIDs /\ \A other \in DOMAIN latest' : latest'[other] \in Raw
  BY <1>2 DEF IInv, TypeOK
<1>4. Buffered'
  BY <1>1, <1>2 DEF IInv, Buffered
<1> QED BY <1>1, <1>3, <1>4 DEF IInv, TypeOK, SnapshotsOK

(* The writes of Record happen in a fixed order. *)
LEMMA WroteInOrder ==
    ASSUME NEW fails
    PROVE  /\ Wrote("alert", fails) => Wrote("audit", fails)
           /\ Wrote("audit", fails) => Wrote("event", fails)
<1>1. /\ DOMAIN WriteOrder = 1 .. 4
      /\ WriteOrder[1] = "event" /\ WriteOrder[2] = "latency"
      /\ WriteOrder[3] = "audit" /\ WriteOrder[4] = "alert"
  BY DEF WriteOrder
<1>2. \A j \in 1 .. 4 : ~(4 < j) /\ (3 < j => 1 < j)
  OBVIOUS
<1>3. fails # "none" => ~Wrote("alert", fails)
  BY <1>1, <1>2 DEF Wrote
<1>4. Wrote("audit", fails) => Wrote("event", fails)
  BY <1>1, <1>2 DEF Wrote
<1>5. fails = "none" => Wrote("audit", fails)
  BY DEF Wrote
<1> QED BY <1>3, <1>4, <1>5

-----------------------------------------------------------------------------
LEMMA InitIInv == Init => IInv
<1> SUFFICES ASSUME Init PROVE IInv
  OBVIOUS
<1>1. DOMAIN rawSessions = {} /\ DOMAIN sessionLog = {} /\ DOMAIN latest = {}
  BY EmptySeq, LenProperties DEF Init
<1>2. TypeOK
  BY <1>1 DEF Init, TypeOK
<1> QED BY <1>1, <1>2 DEF Init, IInv, Buffered, Logged, CloseInOrder, LogsNest

LEMMA RecordIInv ==
    ASSUME IInv, NEW id \in SessionIDs, NEW raw \in Raw,
           NEW audit \in BOOLEAN, NEW alert \in BOOLEAN, alert => audit,
           NEW fails, Record(id, raw, audit, alert, fails)
    PROVE  IInv'
<1>1. LogsNest' /\ (eventLog' \cup auditLog' \cup alertLog' \subseteq SessionIDs \X (1 .. MaxFolded))
  <2>1. raw.folded \in 1 .. MaxFolded
    BY DEF Raw
  <2>2. <<id, raw.folded>> \in SessionIDs \X (1 .. MaxFolded)
    BY <2>1
  <2> DEFINE line == {<<id, raw.folded>>}
  <2>3. /\ eventLog' = IF Wrote("event", fails) THEN eventLog \cup line ELSE eventLog
        /\ auditLog' = IF audit /\ Wrote("audit", fails) THEN auditLog \cup line ELSE auditLog
        /\ alertLog' = IF alert /\ Wrote("alert", fails) THEN alertLog \cup line ELSE alertLog
    BY DEF Record
  <2>4. line \subseteq SessionIDs \X (1 .. MaxFolded)
    BY <2>2
  <2> HIDE DEF line
  <2>5. LogsNest'
    BY <2>3, WroteInOrder DEF IInv, LogsNest
  <2>6. /\ eventLog \subseteq SessionIDs \X (1 .. MaxFolded)
        /\ auditLog \subseteq SessionIDs \X (1 .. MaxFolded)
        /\ alertLog \subseteq SessionIDs \X (1 .. MaxFolded)
    BY DEF IInv, TypeOK
  <2> QED BY <2>3, <2>4, <2>5, <2>6
<1>2. /\ ~writerErr /\ ~closed /\ closer = "idle"
      /\ writerErr' \in BOOLEAN
      /\ UNCHANGED <<closed, flusher, closer, sessionLog>>
  BY DEF Record, Refused, IInv, CloseInOrder, TypeOK
<1>3. CASE ~Wrote("latency", fails)
  <2>1. UNCHANGED <<monitored, rawSessions, latest>> /\ writerErr'
    BY <1>3 DEF Record, Wrote
  <2> QED BY <1>1, <1>2, <2>1 DEF IInv, TypeOK, Buffered, Logged, CloseInOrder, RecordsOf
<1>4. CASE Wrote("latency", fails)
  <2>1. /\ monitored' = monitored \cup {id}
        /\ rawSessions' = buffer(id, raw)
        /\ latest' = put(latest, id, raw)
    BY <1>4 DEF Record
  <2>2. SnapshotsOK'
    BY <2>1, TakeAndBuffer
  <2>3. Logged'
    BY <1>2, <2>1, LatestTaken DEF IInv, Logged, RecordsOf
  <2> QED BY <1>1, <1>2, <2>2, <2>3 DEF IInv, TypeOK, SnapshotsOK, CloseInOrder
<1> QED BY <1>3, <1>4

LEMMA SnapshotIInv ==
    ASSUME IInv, NEW id \in SessionIDs, NEW raw \in Raw, NEW fails \in BOOLEAN,
           RecordSessionSnapshot(id, raw, fails)
    PROVE  IInv'
<1>1. /\ ~writerErr /\ ~closed /\ closer = "idle"
      /\ writerErr' = fails /\ latest' = put(latest, id, raw)
      /\ UNCHANGED <<closed, flusher, closer, eventLog, auditLog, alertLog>>
  BY DEF RecordSessionSnapshot, Refused, IInv, CloseInOrder, TypeOK
<1>2. /\ DOMAIN latest' = DOMAIN latest \cup {id} /\ latest'[id] = raw
      /\ \A other \in DOMAIN latest \ {id} : latest'[other] = latest[other]
  BY <1>1, LatestTaken
<1>3. SnapshotsOK'
  BY <1>1, TakeAndBuffer, TakeAndWrite DEF RecordSessionSnapshot
<1>4. CASE fails
  <2>1. UNCHANGED sessionLog
    BY <1>4 DEF RecordSessionSnapshot
  <2> QED BY <1>1, <1>3, <1>4, <2>1 DEF IInv, TypeOK, SnapshotsOK, Logged, CloseInOrder, LogsNest
<1>5. CASE ~fails
  <2> DEFINE raws == [only \in {id} |-> raw]
  <2>1. writeSessionRecords({id}, raws, "session_closed")
    BY <1>5 DEF RecordSessionSnapshot
  <2>2. raws[id] = raw /\ {id} \in SUBSET SessionIDs /\ "session_closed" \in Reasons
    BY DEF Reasons
  <2> HIDE DEF raws
  <2>3. /\ DOMAIN sessionLog' \subseteq SessionIDs
        /\ \A other \in DOMAIN sessionLog' : sessionLog'[other] \in Seq(SessionRecord)
        /\ RecordsOf(id)' # << >> /\ Last(RecordsOf(id)').raw = raw
        /\ \A other : other \notin {id} => RecordsOf(other)' = RecordsOf(other)
    BY <2>1, <2>2, WriteRecords DEF IInv
  <2>4. monitored \ {id} \subseteq monitored'
    BY DEF RecordSessionSnapshot
  <2>5. Logged'
    BY <1>1, <1>2, <2>3, <2>4 DEF IInv, Logged
  <2> QED BY <1>1, <1>3, <2>3, <2>5
          DEF IInv, TypeOK, SnapshotsOK, SessionRecord, CloseInOrder, LogsNest
<1> QED BY <1>4, <1>5

(* What a flush changes, for either reason. *)
LEMMA FlushLemma ==
    ASSUME IInv, NEW reason \in Reasons, NEW clear \in BOOLEAN, NEW written,
           flushSessions(reason, clear, written), UNCHANGED latest
    PROVE  /\ SnapshotsOK'
           /\ writerErr' \in BOOLEAN
           /\ DOMAIN sessionLog' \subseteq SessionIDs
           /\ \A id \in DOMAIN sessionLog' : sessionLog'[id] \in Seq(SessionRecord)
           /\ \A id \in written : /\ RecordsOf(id)' # << >>
                                  /\ Last(RecordsOf(id)').reason = reason
           /\ \A id : id \notin written => RecordsOf(id)' = RecordsOf(id)
           /\ ~writerErr => Logged'
           /\ clear /\ ~writerErr' => monitored' = {}
<1>1. /\ written \subseteq monitored
      /\ writeSessionRecords(written, rawSessions, reason)
      /\ monitored' = monitored \ forgotten(written, clear)
      /\ rawSessions' = drop(forgotten(written, clear))
      /\ writerErr' = (written # monitored)
  BY DEF flushSessions, IInv, TypeOK
<1>2. SnapshotsOK'
  BY <1>1, Leave
<1>3. /\ DOMAIN sessionLog' \subseteq SessionIDs
      /\ \A id \in DOMAIN sessionLog' : sessionLog'[id] \in Seq(SessionRecord)
      /\ \A id \in written : /\ RecordsOf(id)' # << >>
                             /\ Last(RecordsOf(id)').raw = rawSessions[id]
                             /\ Last(RecordsOf(id)').reason = reason
      /\ \A id : id \notin written => RecordsOf(id)' = RecordsOf(id)
  <2>1. written \in SUBSET SessionIDs /\ \A id \in written : rawSessions[id] \in Raw
    BY <1>1 DEF IInv, TypeOK
  <2> QED BY <1>1, <2>1, WriteRecords DEF IInv
<1>4. ~writerErr => Logged'
  BY <1>1, <1>3 DEF IInv, Logged, Buffered, forgotten
<1>5. clear /\ ~writerErr' => monitored' = {}
  BY <1>1 DEF forgotten
<1> QED BY <1>1, <1>2, <1>3, <1>4, <1>5

LEMMA FlushTickIInv ==
    ASSUME IInv, NEW written, FlushTick(written) PROVE IInv'
<1>1. /\ ~writerErr /\ ~closed /\ closer = "idle"
      /\ flushSessions("periodic_flush", FALSE, written)
      /\ UNCHANGED <<closed, flusher, closer, eventLog, auditLog, alertLog, latest>>
  BY DEF FlushTick, IInv, CloseInOrder, TypeOK
<1>2. "periodic_flush" \in Reasons
  BY DEF Reasons
<1> QED BY <1>1, <1>2, FlushLemma
        DEF IInv, TypeOK, SnapshotsOK, SessionRecord, CloseInOrder, LogsNest

LEMMA CloseFinishesIInv ==
    ASSUME IInv, NEW written, CloseFinishes(written) PROVE IInv'
<1>1. /\ closed /\ closer' = "returned"
      /\ UNCHANGED <<closed, flusher, eventLog, auditLog, alertLog, latest>>
  BY DEF CloseFinishes, IInv, CloseInOrder
<1>2. CASE writerErr
  <2>1. UNCHANGED <<monitored, rawSessions, writerErr, sessionLog>> /\ writerErr'
    BY <1>2 DEF CloseFinishes
  <2>2. TypeOK' /\ LogsNest'
    BY <1>1, <2>1 DEF IInv, TypeOK, LogsNest
  <2> QED BY <1>1, <2>1, <2>2 DEF IInv, Buffered, Logged, CloseInOrder
<1>3. CASE ~writerErr
  <2>1. flushSessions("shutdown", TRUE, written) /\ "shutdown" \in Reasons
    BY <1>3 DEF CloseFinishes, Reasons
  <2> QED BY <1>1, <1>3, <2>1, FlushLemma
          DEF IInv, TypeOK, SnapshotsOK, SessionRecord, CloseInOrder, LogsNest
<1> QED BY <1>2, <1>3

LEMMA NextIInv == IInv /\ [Next]_monitorVars => IInv'
<1> SUFFICES ASSUME IInv, [Next]_monitorVars PROVE IInv'
  OBVIOUS
<1>1. CASE PipelineRecords
  BY <1>1, RecordIInv DEF PipelineRecords
<1>2. CASE JanitorRecords
  <2>1. PICK id \in SessionIDs, n \in 1 .. MaxFolded, fails \in BOOLEAN :
          RecordSessionSnapshot(id, [folded |-> n, closed |-> TRUE], fails)
    BY <1>2 DEF JanitorRecords
  <2>2. [folded |-> n, closed |-> TRUE] \in Raw
    BY DEF Raw
  <2> QED BY <2>1, <2>2, SnapshotIInv
<1>3. CASE PeriodicFlush
  BY <1>3, FlushTickIInv DEF PeriodicFlush
<1>4. CASE Closing
  BY <1>4, CloseFinishesIInv DEF Closing
<1>5. CASE FlusherStops
  BY <1>5 DEF FlusherStops, logs, IInv, TypeOK, Buffered, Logged, CloseInOrder, LogsNest, RecordsOf
<1>6. CASE CloseBegins
  BY <1>6 DEF CloseBegins, logs, IInv, TypeOK, Buffered, Logged, CloseInOrder, LogsNest, RecordsOf
<1>7. CASE RefusedCall \/ UNCHANGED monitorVars
  BY <1>7 DEF RefusedCall, monitorVars, logs, IInv, TypeOK, Buffered, Logged, CloseInOrder,
              LogsNest, RecordsOf
<1> QED BY <1>1, <1>2, <1>3, <1>4, <1>5, <1>6, <1>7 DEF Next

-----------------------------------------------------------------------------
(* The monitor's state is well formed: every session it monitors has a
   snapshot (monitor.go, getOrCreateSessionLocked and rawSessions).          *)
THEOREM TypeCorrect == Spec => []TypeOK
<1>1. IInv => TypeOK
  BY DEF IInv
<1> QED BY <1>1, InitIInv, NextIInv, PTL DEF Spec

(* No snapshot the monitor accepted is lost while the disk works, whichever
   of Record, RecordSessionSnapshot and the two flushes took it last.        *)
THEOREM NothingAcceptedIsLost == Spec => []LatestIsLoggedOrBuffered
<1>1. IInv => LatestIsLoggedOrBuffered
  BY DEF IInv, Buffered, Logged, LatestIsLoggedOrBuffered
<1> QED BY <1>1, InitIInv, NextIInv, PTL DEF Spec

(* A Close that met no error leaves every session on disk (Monitor.Close).   *)
THEOREM CloseWritesAll == Spec => []CloseLeavesNothingBehind
<1>1. IInv => CloseLeavesNothingBehind
  BY DEF IInv, CloseInOrder, Logged, CloseLeavesNothingBehind
<1> QED BY <1>1, InitIInv, NextIInv, PTL DEF Spec

(* An alert is audited and an audited event is logged, also when a write
   fails half-way (Monitor.Record).                                         *)
THEOREM LogsAreNested == Spec => []LogsNest
<1>1. IInv => LogsNest
  BY DEF IInv
<1> QED BY <1>1, InitIInv, NextIInv, PTL DEF Spec

(* The last flush says of each session it writes what was last accepted. *)
LEMMA FinalFlushLemma ==
    ASSUME IInv, NEW written, CloseFinishes(written)
    PROVE  FinalFlushOnly
<1>1. /\ UNCHANGED <<eventLog, auditLog, alertLog, latest>>
      /\ closer = "waiting" /\ closer' = "returned"
  BY DEF CloseFinishes
<1>2. CASE writerErr
  <2>1. UNCHANGED sessionLog
    BY <1>2 DEF CloseFinishes
  <2> QED BY <1>1, <2>1 DEF FinalFlushOnly, RecordsOf
<1>3. CASE ~writerErr
  <2>1. /\ written \subseteq monitored
        /\ writeSessionRecords(written, rawSessions, "shutdown")
    BY <1>3 DEF CloseFinishes, flushSessions
  <2>2. \A id \in written : rawSessions[id] = latest[id]
    BY <2>1 DEF IInv, Buffered
  <2>3. /\ DOMAIN sessionLog' = DOMAIN sessionLog \cup written
        /\ \A id \in written :
              sessionLog'[id] = Append(RecordsOf(id), [reason |-> "shutdown", raw |-> rawSessions[id]])
        /\ \A id \in DOMAIN sessionLog \ written : sessionLog'[id] = RecordsOf(id)
    BY <2>1 DEF writeSessionRecords, RecordsOf
  <2>4. \A id \in written : sessionLog'[id] = Append(RecordsOf(id), FinalRecord(id))
    BY <2>2, <2>3 DEF FinalRecord
  <2> QED BY <1>1, <2>3, <2>4 DEF FinalFlushOnly
<1> QED BY <1>2, <1>3

(* Once Close began, every other step is refused or leaves the logs alone. *)
LEMMA ClosedStep ==
    ASSUME IInv, [Next]_monitorVars, closed
    PROVE  FinalFlushOnly
<1>1. CASE Closing
  BY <1>1, FinalFlushLemma DEF Closing
<1>2. ~PipelineRecords /\ ~JanitorRecords /\ ~PeriodicFlush
  BY DEF PipelineRecords, JanitorRecords, PeriodicFlush, Record, RecordSessionSnapshot,
         FlushTick, Refused
<1>3. CASE UNCHANGED <<eventLog, auditLog, alertLog, sessionLog, latest>>
  BY <1>3 DEF FinalFlushOnly, RecordsOf
<1>4. CASE RefusedCall \/ FlusherStops \/ CloseBegins \/ UNCHANGED monitorVars
  BY <1>3, <1>4 DEF RefusedCall, FlusherStops, CloseBegins, monitorVars, logs
<1> QED BY <1>1, <1>2, <1>4 DEF Next

(* From the moment Close begins no record is accepted and no log is touched but
   by its last step, which adds to sessions.log at most one line per session,
   "shutdown" with the last accepted snapshot: the flush goroutine and both
   callers check m.closed under m.mu.                                       *)
THEOREM ShutdownIsLast == Spec => OnlyShutdownAfterClose
<1>1. IInv /\ [Next]_monitorVars => [closed => FinalFlushOnly]_monitorVars
  BY ClosedStep
<1> QED BY <1>1, InitIInv, NextIInv, PTL DEF Spec, OnlyShutdownAfterClose
=============================================================================
