---------------------------- MODULE PipelineProofs ----------------------------
(***************************************************************************)
(* Proofs about Pipeline, for every number of pids, events, sessions and   *)
(* ticks, whatever the pipeline, the janitor, the flusher and the shutdown *)
(* do in between.                                                          *)
(*                                                                         *)
(* Late events: an id that the tracker gave to the pipeline was live, so   *)
(* no late event can have been counted for it before; the one in hand is   *)
(* counted, if the session ends meanwhile, and for the next one the ended  *)
(* session is not found any more.  What the tracker has to guarantee for   *)
(* this is that an id which has ended never becomes live again.            *)
(*                                                                         *)
(* Close-outs: an id is handed to the janitor once, so that each component *)
(* is told once to close it.  The sets Traced, Recorded and Done say how   *)
(* far the close-out of each id has come; the invariants say what each     *)
(* component holds of an id before and after it got its call.              *)
(***************************************************************************)
EXTENDS Pipeline, FiniteSetTheorems, SequenceTheorems, TLAPS

(* The janitor takes over what the sweeps end, no more than that. *)
TrackerInv ==
    /\ nextSessionID \in 1 .. (MaxSessions + 1)
    /\ DOMAIN sessions \cap DOMAIN endLog = {}
    /\ DOMAIN sessions \cup DOMAIN endLog \subseteq 1 .. (nextSessionID - 1)
    /\ handed \subseteq DOMAIN endLog

LateInv ==
    /\ late \in [SessionIDs -> 0 .. 1]
    /\ \A id \in SessionIDs \ DOMAIN endLog : late[id] = 0
    /\ (pipeline.at = "observe" /\ pipeline.id \in SessionIDs) => late[pipeline.id] = 0

RawType == [folded : Nat, closed : BOOLEAN]
Places == {"receive", "lookup", "observe", "snapshot", "match", "score", "record", "trace"}
JanitorPlaces == {"sweep", "stopped", "trace", "context", "snapshot", "record", "engine"}

(* Where the pipeline is, and what it holds there. *)
PlaceInv ==
    /\ pipeline \in [at : Places, time : Int, id : Nat, raw : RawType, score : {pipeline.score},
                    action : Decision!Actions, audit : BOOLEAN, alert : BOOLEAN]
    /\ pipeline.at \notin {"receive", "lookup"} => pipeline.id \in SessionIDs

(* Only ids that the tracker gave out get into the context manager. *)
GivenInv ==
    /\ pipeline.at \notin {"receive", "lookup"} => pipeline.id < nextSessionID
    /\ \A id \in DOMAIN contexts : id < nextSessionID

(* Close begins when the pipeline is done. *)
MainInv ==
    /\ main \in {"running", "closing", "exited"}
    /\ main # "running" => pipeline.at = "receive"
    /\ closer # "idle" => closed
    /\ closed => main # "running"
    /\ main = "exited" => closer = "returned"

(* The evaluation between the two locks of Evaluate is the pipeline's. *)
MatchInv ==
    /\ \A m \in matching : pipeline.at = "score" /\ m.id = pipeline.id
    /\ pipeline.at = "score" => matching # {}

JanitorInv ==
    /\ janitor \in [at : JanitorPlaces, ids : SUBSET SessionIDs, raw : RawType]
    /\ janitor.ids = {} <=> janitor.at \in {"sweep", "stopped"}
    /\ janitor.ids \subseteq handed

(* The sessions whose close-out is over, and those for which it got past the
   trace manager and past the audit monitor.                                *)
Done == handed \ janitor.ids
Traced == Done \cup (IF janitor.at \in {"context", "snapshot", "record", "engine"}
                     THEN {ClosingIn(janitor)} ELSE {})
Recorded == Done \cup (IF janitor.at = "engine" THEN {ClosingIn(janitor)} ELSE {})

(* A session_closed record is written when the close-out gets to it, and then
   only; what it may miss is a session whose one event was late.            *)
RecordInv ==
    \A id \in SessionIDs :
        /\ \A i, j \in ClosedRecords(id) : i = j
        /\ id \notin Recorded => ClosedRecords(id) = {}
        /\ (id \in Recorded /\ id \in DOMAIN contexts /\ contexts[id].folded > late[id]
               /\ ~closed /\ ~writerErr) => ClosedRecords(id) # {}

(* The janitor ends a span of a session once, the shutdown once more. *)
EndedOf(id) == {k \in DOMAIN ended : ended[k].id = id}
SpanInv ==
    /\ main = "exited" => DOMAIN spans = {}
    /\ main # "exited" =>
          \A id \in SessionIDs : /\ \A i, j \in EndedOf(id) : i = j
                                 /\ id \notin Traced => EndedOf(id) = {}
    /\ \A id \in SessionIDs : \E i, j \in Nat : EndedOf(id) \subseteq {i, j}

(* A rule that scored is remembered, until the close-out drops the account. *)
AccountInv ==
    /\ scored \in [SessionIDs \X Rules -> Nat]
    /\ \A id \in DOMAIN results : \E S : results[id] \in Seq(S)
    /\ \A id \in SessionIDs, r \in Rules :
          scored[<<id, r>>] <=
              (IF id \in Done THEN 1 ELSE 0)
              + (IF RuleName[r] \in Decision!StateOf(id).triggeredRuleNames THEN 1 ELSE 0)

(* What the monitor shows of a session now, in its buffer or in the log. *)
Line == [reason : Monitor!Reasons, raw : RawType]
Shown(id) == IF id \in monitored THEN rawSessions[id]
                                 ELSE Last(Monitor!RecordsOf(id)).raw
InHand(id) == pipeline.id = id /\ pipeline.at \in {"snapshot", "match", "score", "record"}

MonitorInv ==
    /\ contexts \in [DOMAIN contexts -> RawType]
    /\ DOMAIN contexts \subseteq SessionIDs
    /\ rawSessions \in [monitored -> RawType]
    /\ \A id \in DOMAIN sessionLog : sessionLog[id] \in Seq(Line)
    /\ (closer = "returned" /\ ~writerErr) => monitored = {}

(* ... and that it misses no event, but for a late one. *)
Covered(id) ==
    /\ id \in monitored \/ Monitor!RecordsOf(id) # << >>
    /\ Shown(id).folded >= contexts[id].folded - late[id]

LagInv ==
    /\ pipeline.at \in {"snapshot", "match", "score", "record"} => pipeline.id \in DOMAIN contexts
    /\ pipeline.at \in {"match", "score", "record"} =>
          pipeline.raw.folded = contexts[pipeline.id].folded
    /\ janitor.at = "record" =>
          LET id == ClosingIn(janitor)
          IN  id \in DOMAIN contexts /\ janitor.raw.folded >= contexts[id].folded - late[id]
    /\ ~writerErr => \A id \in DOMAIN contexts : InHand(id) \/ Covered(id)

(* What the tracer has seen and what its spans show.  The scores are whatever
   the weights of the rules add up to.                                       *)
TraceType(Scores) == [acceptedEvents : Nat, finalScore : Scores,
                      finalAction : DOMAIN Traces!Severity,
                      auditEmitted : BOOLEAN, alertEmitted : BOOLEAN]
Outcome(Scores) == [score : Scores, action : Decision!Actions,
                    audit : BOOLEAN, alert : BOOLEAN]

(* The events of the k-th span to end, if it is the session's, and those that
   no ended span has.                                                       *)
EndedEvents(id, k) ==
    {i \in DOMAIN analysed :
        /\ analysed[i].id = id /\ analysed[i].after < k
        /\ \A j \in EndedOf(id) : j < k => j <= analysed[i].after}
OpenEvents(id) ==
    {i \in DOMAIN analysed :
        analysed[i].id = id /\ \A j \in EndedOf(id) : j <= analysed[i].after}

Shows(trace, own) ==
    /\ trace.acceptedEvents = Cardinality(own)
    /\ \E i \in own : (\A j \in own : j <= i) /\ trace.finalScore = analysed[i].outcome.score
    /\ \E i \in own : trace.finalAction = analysed[i].outcome.action
    /\ \A i \in own : Traces!Severity[analysed[i].outcome.action]
                         <= Traces!Severity[trace.finalAction]
    /\ trace.auditEmitted <=> \E i \in own : analysed[i].outcome.audit
    /\ trace.alertEmitted <=> \E i \in own : analysed[i].outcome.alert

SpansShow(id) ==
    /\ \A k \in EndedOf(id) : Shows(ended[k].trace, EndedEvents(id, k))
    /\ IF id \in DOMAIN spans THEN Shows(spans[id], OpenEvents(id)) ELSE OpenEvents(id) = {}
    /\ \A i \in DOMAIN analysed : analysed[i].id = id =>
          i \in OpenEvents(id) \/ \E k \in EndedOf(id) : i \in EndedEvents(id, k)

TraceInvOf(Scores) ==
    /\ 0 \in Scores
    /\ DOMAIN spans \subseteq SessionIDs
    /\ spans \in [DOMAIN spans -> TraceType(Scores)]
    /\ ended \in Seq([id : SessionIDs, trace : TraceType(Scores)])
    /\ analysed \in Seq([id : SessionIDs, outcome : Outcome(Scores), after : Nat])
    /\ \A i \in DOMAIN analysed : analysed[i].after <= Len(ended)
    /\ ~Enabled => DOMAIN spans = {} /\ \A id \in SessionIDs : EndedOf(id) = {}
    /\ Enabled => \A id \in SessionIDs : SpansShow(id)

TraceInv == \E Scores : TraceInvOf(Scores)

IInv ==
    /\ TrackerInv /\ LateInv /\ PlaceInv /\ GivenInv /\ MainInv /\ MatchInv
    /\ JanitorInv /\ RecordInv /\ SpanInv /\ AccountInv /\ MonitorInv
    /\ LagInv /\ TraceInv

-----------------------------------------------------------------------------
(* What a step of the tracker may do to the ids: move live ones to the ended
   ones, and give out a new one.                                            *)
IdsStep ==
    /\ \/ nextSessionID' = nextSessionID
       \/ nextSessionID <= MaxSessions /\ nextSessionID' = nextSessionID + 1
    /\ \A id \in DOMAIN endLog : id \in DOMAIN endLog'
    /\ \A id \in DOMAIN endLog' : id \in DOMAIN endLog \/ id \in DOMAIN sessions \ DOMAIN sessions'
    /\ \A id \in DOMAIN sessions' :
          \/ id \in DOMAIN sessions
          \/ id = nextSessionID /\ nextSessionID' = nextSessionID + 1
    /\ \A id \in handed' : id \in handed \/ id \in DOMAIN endLog'

LEMMA SweepIds ==
    ASSUME NEW now, Tracker!expireSessionsLocked(now)
    PROVE  /\ DOMAIN endLog' = DOMAIN endLog \cup Tracker!ExpiredIds(now)
           /\ DOMAIN Tracker!SessionsAfterSweep(now) = DOMAIN sessions \ Tracker!ExpiredIds(now)
           /\ Tracker!ExpiredIds(now) \subseteq DOMAIN sessions
  BY DEF Tracker!expireSessionsLocked, Tracker!SessionsAfterSweep, Tracker!ExpiredIds,
         Tracker!Restrict

LEMMA SweepOnlyIds ==
    ASSUME NEW t, Tracker!SweepOnly(t)
    PROVE  IdsStep /\ UNCHANGED handed
  BY SweepIds DEF IdsStep, Tracker!SweepOnly

LEMMA ExecveIds ==
    ASSUME TrackerInv, NEW pid, NEW isCLI, NEW t, Tracker!ObserveExecve(pid, isCLI, t)
    PROVE  IdsStep /\ UNCHANGED handed
<1>1. CASE Tracker!StartSession(pid, t)
  <2>1. /\ Tracker!expireSessionsLocked(t) /\ UNCHANGED handed
        /\ nextSessionID <= MaxSessions /\ nextSessionID' = nextSessionID + 1
        /\ DOMAIN sessions' = DOMAIN Tracker!SessionsAfterSweep(t) \cup {nextSessionID}
    BY <1>1 DEF Tracker!StartSession
  <2>2. nextSessionID \notin DOMAIN sessions
    BY SessionsAssumption DEF TrackerInv
  <2> QED BY <2>1, <2>2, SweepIds DEF IdsStep
<1>2. CASE Tracker!JoinSession(pid, t)
  BY <1>2, SweepIds DEF Tracker!JoinSession, IdsStep
<1>3. CASE Tracker!SweepOnly(t)
  BY <1>3, SweepOnlyIds
<1> QED BY <1>1, <1>2, <1>3 DEF Tracker!ObserveExecve

LEMMA ExitIds ==
    ASSUME NEW pid, NEW isLeader, NEW t, Tracker!ObserveExit(pid, isLeader, t)
    PROVE  IdsStep /\ UNCHANGED handed
<1>1. CASE Tracker!SweepOnly(t)
  BY <1>1, SweepOnlyIds
<1>2. CASE ~Tracker!SweepOnly(t)
  <2>1. /\ Tracker!expireSessionsLocked(t) /\ nextSessionID' = nextSessionID
        /\ DOMAIN sessions' = DOMAIN Tracker!SessionsAfterSweep(t) /\ UNCHANGED handed
    BY <1>2 DEF Tracker!ObserveExit
  <2> QED BY <2>1, SweepIds DEF IdsStep
<1> QED BY <1>1, <1>2

(* What the janitor is handed has only just ended. *)
LEMMA ExpireIds ==
    ASSUME NEW now, Tracker!Expire(now)
    PROVE  /\ IdsStep
           /\ handed' = handed \cup Tracker!ExpiredIds(now)
           /\ Tracker!ExpiredIds(now) \subseteq DOMAIN sessions
  BY SweepIds DEF Tracker!Expire, IdsStep

LEMMA SameIds ==
    ASSUME UNCHANGED <<sessions, endLog, nextSessionID, handed>>
    PROVE  IdsStep
  BY DEF IdsStep

LEMMA TrackerKeeps == TrackerInv /\ IdsStep => TrackerInv'
<1> SUFFICES ASSUME TrackerInv, IdsStep PROVE TrackerInv'
  OBVIOUS
<1>1. nextSessionID' \in 1 .. (MaxSessions + 1) /\ nextSessionID <= nextSessionID'
  BY SessionsAssumption DEF TrackerInv, IdsStep
<1>2. DOMAIN sessions' \cap DOMAIN endLog' = {}
  BY SessionsAssumption DEF TrackerInv, IdsStep
<1>3. DOMAIN endLog' \subseteq 1 .. (nextSessionID' - 1)
  BY <1>1, SessionsAssumption DEF TrackerInv, IdsStep
<1>4. DOMAIN sessions' \subseteq 1 .. (nextSessionID' - 1)
  BY <1>1, SessionsAssumption DEF TrackerInv, IdsStep
<1>5. handed' \subseteq DOMAIN endLog'
  BY DEF TrackerInv, IdsStep
<1> QED BY <1>1, <1>2, <1>3, <1>4, <1>5 DEF TrackerInv

LEMMA EndedAreIds == TrackerInv => DOMAIN endLog \subseteq SessionIDs
  BY SessionsAssumption DEF TrackerInv, SessionIDs

(* The tracker in every step. *)
LEMMA StepIds == TrackerInv /\ [Next]_vars => IdsStep
<1> SUFFICES ASSUME TrackerInv, [Next]_vars PROVE IdsStep
  OBVIOUS
<1>1. CASE Receive
  <2>1. PICK t : \/ \E pid \in Pids, isCLI \in BOOLEAN : Tracker!ObserveExecve(pid, isCLI, t)
                 \/ \E pid \in Pids, isLeader \in BOOLEAN : Tracker!ObserveExit(pid, isLeader, t)
                 \/ UNCHANGED trackerVars
    BY <1>1 DEF Receive
  <2> QED BY <2>1, ExecveIds, ExitIds, SameIds DEF trackerVars
<1>2. CASE Lookup
  BY <1>2, SweepOnlyIds DEF Lookup, Tracker!ActiveSession
<1>3. CASE Sweep
  BY <1>3, ExpireIds DEF Sweep
<1>4. CASE ~Receive /\ ~Lookup /\ ~Sweep
  <2>1. UNCHANGED <<sessions, endLog, nextSessionID, handed>>
    BY <1>4 DEF Next, PipelineStep, JanitorStep, MainStep, OutOfTree, Observe, Snapshot, Match,
                Score, Record, Trace, JanitorStops, CloseTrace, CloseContext, CloseSnapshot,
                CloseRecord, CloseEngine, Flush, FlusherStops, Signal, CloseBegins,
                CloseFinishes, ShutdownTraces, Tick, Tracker!Tick, Exited, vars, trackerVars
  <2> QED BY <2>1, SameIds
<1> QED BY <1>1, <1>2, <1>3, <1>4

-----------------------------------------------------------------------------
(* Who writes what: the steps that leave a part of the state alone. *)
LEMMA HandedFrame ==
    ASSUME TrackerInv, [Next]_vars, ~Sweep
    PROVE  UNCHANGED handed
<1>1. CASE Receive
  <2>1. PICK t : \/ \E pid \in Pids, isCLI \in BOOLEAN : Tracker!ObserveExecve(pid, isCLI, t)
                 \/ \E pid \in Pids, isLeader \in BOOLEAN : Tracker!ObserveExit(pid, isLeader, t)
                 \/ UNCHANGED trackerVars
    BY <1>1 DEF Receive
  <2> QED BY <2>1, ExecveIds, ExitIds DEF trackerVars
<1>2. CASE Lookup
  BY <1>2, SweepOnlyIds DEF Lookup, Tracker!ActiveSession
<1>3. CASE ~Receive /\ ~Lookup
  BY <1>3 DEF Next, PipelineStep, JanitorStep, MainStep, OutOfTree, Observe, Snapshot, Match,
              Score, Record, Trace, JanitorStops, CloseTrace, CloseContext, CloseSnapshot,
              CloseRecord, CloseEngine, Flush, FlusherStops, Signal, CloseBegins,
              CloseFinishes, ShutdownTraces, Tick, Tracker!Tick, Exited, vars, trackerVars
<1> QED BY <1>1, <1>2, <1>3

LEMMA JanitorFrame ==
    ASSUME [Next]_vars, ~JanitorStep
    PROVE  UNCHANGED janitor
  BY DEF Next, PipelineStep, MainStep, Receive, OutOfTree, Lookup, Observe, Snapshot, Match,
         Score, Record, Trace, Flush, FlusherStops, Signal, CloseBegins, CloseFinishes,
         ShutdownTraces, Tick, Exited, vars

LEMMA PipelineFrame ==
    ASSUME [Next]_vars, ~PipelineStep
    PROVE  UNCHANGED <<pipeline, late, scored>>
  BY DEF Next, JanitorStep, MainStep, Sweep, JanitorStops, CloseTrace, CloseContext,
         CloseSnapshot, CloseRecord, CloseEngine, Flush, FlusherStops, Signal, CloseBegins,
         CloseFinishes, ShutdownTraces, Tick, Exited, vars, ghosts

LEMMA MainFrame ==
    ASSUME [Next]_vars, ~CloseBegins, ~ShutdownTraces
    PROVE  UNCHANGED main
  BY DEF Next, PipelineStep, JanitorStep, MainStep, Receive, OutOfTree, Lookup, Observe,
         Snapshot, Match, Score, Record, Trace, Sweep, JanitorStops, CloseTrace, CloseContext,
         CloseSnapshot, CloseRecord, CloseEngine, Flush, FlusherStops, Signal, CloseFinishes,
         Tick, Exited, vars

LEMMA DecisionFrame ==
    ASSUME [Next]_vars, ~Match, ~Score, ~CloseEngine
    PROVE  UNCHANGED decisionVars
  BY DEF Next, PipelineStep, JanitorStep, MainStep, Receive, OutOfTree, Lookup, Observe,
         Snapshot, Record, Trace, Sweep, JanitorStops, CloseTrace, CloseContext,
         CloseSnapshot, CloseRecord, Flush, FlusherStops, Signal, CloseBegins, CloseFinishes,
         ShutdownTraces, Tick, Exited, vars

LEMMA MonitorFrame ==
    ASSUME [Next]_vars, ~Record, ~CloseRecord, ~Flush, ~FlusherStops, ~CloseBegins,
           ~CloseFinishes
    PROVE  UNCHANGED monitorVars
  BY DEF Next, PipelineStep, JanitorStep, MainStep, Receive, OutOfTree, Lookup, Observe,
         Snapshot, Match, Score, Trace, Sweep, JanitorStops, CloseTrace, CloseContext,
         CloseSnapshot, CloseEngine, Signal, ShutdownTraces, Tick, Exited, vars

LEMMA TraceFrame ==
    ASSUME [Next]_vars, ~Trace, ~CloseTrace, ~ShutdownTraces
    PROVE  UNCHANGED traceVars
  BY DEF Next, PipelineStep, JanitorStep, MainStep, Receive, OutOfTree, Lookup, Observe,
         Snapshot, Match, Score, Record, Sweep, JanitorStops, CloseContext, CloseSnapshot,
         CloseRecord, CloseEngine, Flush, FlusherStops, Signal, CloseBegins, CloseFinishes,
         Tick, Exited, vars

LEMMA ContextFrame ==
    ASSUME [Next]_vars, ~Observe, ~CloseContext
    PROVE  UNCHANGED contexts
  BY DEF Next, PipelineStep, JanitorStep, MainStep, Receive, OutOfTree, Lookup, Snapshot,
         Match, Score, Record, Trace, Sweep, JanitorStops, CloseTrace, CloseSnapshot,
         CloseRecord, CloseEngine, Flush, FlusherStops, Signal, CloseBegins, CloseFinishes,
         ShutdownTraces, Tick, Exited, vars

LEMMA LateFrame ==
    ASSUME [Next]_vars, ~Observe
    PROVE  UNCHANGED late
  BY DEF Next, PipelineStep, JanitorStep, MainStep, Receive, OutOfTree, Lookup, Snapshot,
         Match, Score, Record, Trace, Sweep, JanitorStops, CloseTrace, CloseContext,
         CloseSnapshot, CloseRecord, CloseEngine, Flush, FlusherStops, Signal, CloseBegins,
         CloseFinishes, ShutdownTraces, Tick, Exited, vars, ghosts

-----------------------------------------------------------------------------
(* Where the goroutines are. *)

(* The id that the session gate hands out is live. *)
LEMMA LookedUpIsLive ==
    ASSUME NEW t, Tracker!activeSession(t) # 0
    PROVE  Tracker!activeSession(t) \in DOMAIN sessions
  BY DEF Tracker!activeSession, Tracker!NoSession, Tracker!SessionsAfterSweep, Tracker!Restrict

LEMMA LiveAreIds == TrackerInv => DOMAIN sessions \subseteq SessionIDs
  BY SessionsAssumption DEF TrackerInv, SessionIDs

(* The result that ScoreMatched appends is the last one of its session. *)
LEMMA LastResult ==
    ASSUME AccountInv, NEW m \in matching, NEW result,
           results' = Decision!Put(results, m.id, Append(Decision!ResultsOf(m.id), result))
    PROVE  /\ Last(results'[m.id]) = result
           /\ \A id \in DOMAIN results' : \E S : results'[id] \in Seq(S)
<1>1. PICK S : Decision!ResultsOf(m.id) \in Seq(S)
  BY EmptySeq DEF AccountInv, Decision!ResultsOf
<1> DEFINE T == S \cup {result}
           longer == Append(Decision!ResultsOf(m.id), result)
<1>2. Decision!ResultsOf(m.id) \in Seq(T) /\ result \in T
  BY <1>1, SeqMonotonic
<1> HIDE DEF T
<1>3. longer \in Seq(T) /\ Len(longer) = Len(Decision!ResultsOf(m.id)) + 1
      /\ longer[Len(longer)] = result
  BY <1>2, AppendProperties
<1> HIDE DEF longer
<1>4. results' = [y \in DOMAIN results \cup {m.id} |-> IF y = m.id THEN longer ELSE results[y]]
  BY DEF Decision!Put, longer
<1>5. \A id \in DOMAIN results' : \E U : results'[id] \in Seq(U)
  BY <1>3, <1>4 DEF AccountInv
<1> QED BY <1>3, <1>4, <1>5 DEF Last

(* What one evaluation does, in terms of what it found. *)
LEMMA ScoreResult ==
    ASSUME AccountInv, MatchInv, Score
    PROVE  \E m \in matching : \E result, triggered, score :
              /\ m.id = pipeline.id
              /\ triggered = Decision!newlyTriggeredRules(
                                m.matched, Decision!StateOf(m.id).triggeredRuleNames)
              /\ DOMAIN result.triggered = triggered
              /\ result.action \in Decision!Actions
              /\ results' = Decision!Put(results, m.id, Append(Decision!ResultsOf(m.id), result))
              /\ states' = Decision!Put(states, m.id,
                    [triggeredRuleNames |-> Decision!StateOf(m.id).triggeredRuleNames
                                               \cup {RuleName[r] : r \in triggered},
                     accumulatedScore |-> score])
              /\ Last(results'[pipeline.id]) = result
              /\ \A id \in DOMAIN results' : \E S : results'[id] \in Seq(S)
<1>1. PICK m \in matching :
       LET cfg == m.cfg
           state == Decision!StateOf(m.id)
           triggered == Decision!newlyTriggeredRules(m.matched, state.triggeredRuleNames)
           increment == Decision!scoreRules(triggered, cfg.weight)
           score == state.accumulatedScore + increment
           result == [score |-> score, increment |-> increment,
                      action |-> Decision!actionFor(triggered, score, cfg),
                      triggered |-> Decision!Restrict(cfg.weight, triggered),
                      logThreshold |-> cfg.log, alertThreshold |-> cfg.alert]
           names == state.triggeredRuleNames \cup {RuleName[r] : r \in triggered}
       IN  /\ states' = Decision!Put(states, m.id, [triggeredRuleNames |-> names,
                                                   accumulatedScore |-> score])
           /\ results' = Decision!Put(results, m.id, Append(Decision!ResultsOf(m.id), result))
  BY DEF Score, Decision!ScoreMatched
<1> DEFINE state == Decision!StateOf(m.id)
           triggered == Decision!newlyTriggeredRules(m.matched, state.triggeredRuleNames)
           increment == Decision!scoreRules(triggered, m.cfg.weight)
           score == state.accumulatedScore + increment
           action == Decision!actionFor(triggered, score, m.cfg)
           result == [score |-> score, increment |-> increment, action |-> action,
                      triggered |-> Decision!Restrict(m.cfg.weight, triggered),
                      logThreshold |-> m.cfg.log, alertThreshold |-> m.cfg.alert]
<1>2. m.id = pipeline.id
  BY DEF MatchInv
<1>3. action \in Decision!Actions
  BY DEF Decision!actionFor, Decision!Actions
<1>4. DOMAIN result.triggered = triggered /\ result.action = action
  BY DEF Decision!Restrict
<1>5. /\ results' = Decision!Put(results, m.id, Append(Decision!ResultsOf(m.id), result))
      /\ states' = Decision!Put(states, m.id,
                    [triggeredRuleNames |-> state.triggeredRuleNames
                                               \cup {RuleName[r] : r \in triggered},
                     accumulatedScore |-> score])
  BY <1>1
<1> HIDE DEF result, action, score
<1>6. /\ Last(results'[m.id]) = result
      /\ \A id \in DOMAIN results' : \E S : results'[id] \in Seq(S)
  BY <1>5, LastResult
<1> HIDE DEF state, triggered
<1>7. /\ triggered = Decision!newlyTriggeredRules(
                        m.matched, Decision!StateOf(m.id).triggeredRuleNames)
      /\ state = Decision!StateOf(m.id)
  BY DEF triggered, state
<1>8. /\ m.id = pipeline.id
      /\ triggered = Decision!newlyTriggeredRules(
                        m.matched, Decision!StateOf(m.id).triggeredRuleNames)
      /\ DOMAIN result.triggered = triggered
      /\ result.action \in Decision!Actions
      /\ results' = Decision!Put(results, m.id, Append(Decision!ResultsOf(m.id), result))
      /\ states' = Decision!Put(states, m.id,
            [triggeredRuleNames |-> Decision!StateOf(m.id).triggeredRuleNames
                                       \cup {RuleName[r] : r \in triggered},
             accumulatedScore |-> score])
      /\ Last(results'[pipeline.id]) = result
      /\ \A id \in DOMAIN results' : \E S : results'[id] \in Seq(S)
  BY <1>2, <1>3, <1>4, <1>5, <1>6, <1>7
<1> QED BY <1>8, Zenon

(* What the pipeline holds after the session gate and after the monitor. *)
LEMMA LookupMoves ==
    ASSUME Lookup
    PROVE  \/ pipeline' = Receiving
           \/ \E id \in DOMAIN sessions :
                  pipeline' = [pipeline EXCEPT !.at = "observe", !.id = id]
  BY LookedUpIsLive DEF Lookup

LEMMA LookupFinds ==
    ASSUME PlaceInv, Lookup
    PROVE  /\ pipeline.at = "lookup"
           /\ pipeline'.at \in {"receive", "observe"}
           /\ pipeline'.at = "observe" => pipeline'.id \in DOMAIN sessions
<1>1. CASE pipeline' = Receiving
  BY <1>1 DEF Receiving, Lookup
<1>2. CASE pipeline' # Receiving
  <2>1. PICK id : id \in DOMAIN sessions /\ pipeline' = [pipeline EXCEPT !.at = "observe", !.id = id]
    BY <1>2, LookupMoves
  <2> QED BY <2>1 DEF PlaceInv, Lookup
<1> QED BY <1>1, <1>2

LEMMA RecordMoves ==
    ASSUME PlaceInv, Record
    PROVE  /\ pipeline.at = "record"
           /\ \E audit, alert \in BOOLEAN :
                 pipeline' = [pipeline EXCEPT !.at = "trace", !.audit = audit, !.alert = alert]
<1>1. CASE \E fails : pipeline' = [pipeline EXCEPT
                               !.at = "trace",
                               !.audit = @ /\ Monitor!Wrote("audit", fails),
                               !.alert = @ /\ Monitor!Wrote("alert", fails)]
  <2>1. PICK fails : pipeline' = [pipeline EXCEPT
                               !.at = "trace",
                               !.audit = @ /\ Monitor!Wrote("audit", fails),
                               !.alert = @ /\ Monitor!Wrote("alert", fails)]
    BY <1>1
  <2> DEFINE audit == pipeline.audit /\ Monitor!Wrote("audit", fails)
             alert == pipeline.alert /\ Monitor!Wrote("alert", fails)
  <2>2. audit \in BOOLEAN /\ alert \in BOOLEAN
    OBVIOUS
  <2>3. pipeline' = [pipeline EXCEPT !.at = "trace", !.audit = audit, !.alert = alert]
    BY <2>1 DEF PlaceInv
  <2> HIDE DEF audit, alert
  <2> QED BY <2>2, <2>3 DEF Record
<1>2. CASE pipeline' = [pipeline EXCEPT !.at = "trace", !.audit = FALSE, !.alert = FALSE]
  BY <1>2 DEF Record
<1> QED BY <1>1, <1>2 DEF Record

(* The pipeline gets to "observe" with the id of a live session. *)
LEMMA ObserveIsLookedUp ==
    ASSUME PlaceInv, [Next]_vars, ~Lookup, pipeline'.at = "observe"
    PROVE  UNCHANGED pipeline
<1>1. CASE Receive
  BY <1>1 DEF Receive, PlaceInv
<1>2. CASE OutOfTree \/ Trace
  BY <1>2 DEF OutOfTree, Trace, Receiving
<1>3. CASE Observe \/ Snapshot \/ Match
  BY <1>3 DEF Observe, Snapshot, Match, PlaceInv
<1>4. CASE Score
  BY <1>4 DEF Score, PlaceInv
<1>5. CASE Record
  BY <1>5, RecordMoves DEF PlaceInv
<1>6. CASE ~PipelineStep
  BY <1>6, PipelineFrame
<1> QED BY <1>1, <1>2, <1>3, <1>4, <1>5, <1>6 DEF PipelineStep

LEMMA LateKeeps ==
    ASSUME TrackerInv, PlaceInv, LateInv, [Next]_vars
    PROVE  LateInv'
<1>1. DOMAIN endLog \subseteq DOMAIN endLog' /\ DOMAIN endLog' \subseteq SessionIDs
  BY StepIds, TrackerKeeps, SessionsAssumption DEF IdsStep, TrackerInv, SessionIDs
<1>2. CASE Lookup
  <2>1. UNCHANGED late
    BY <1>2 DEF Lookup, ghosts
  <2>2. pipeline'.at = "observe" => pipeline'.id \in DOMAIN sessions
    BY <1>2, LookupFinds
  <2>3. pipeline'.at = "observe" => pipeline'.id \notin DOMAIN endLog
    BY <2>2 DEF TrackerInv
  <2> QED BY <1>1, <2>1, <2>3 DEF LateInv
<1>3. CASE Observe
  <2>1. /\ late' = IF pipeline.id \in DOMAIN endLog
                   THEN [late EXCEPT ![pipeline.id] = @ + 1] ELSE late
        /\ pipeline.id \in SessionIDs /\ pipeline'.at # "observe"
        /\ late[pipeline.id] = 0
    BY <1>3 DEF Observe, PlaceInv, LateInv
  <2> QED BY <1>1, <2>1 DEF LateInv
<1>4. CASE ~Lookup /\ ~Observe
  <2>1. UNCHANGED late
    BY <1>4, LateFrame
  <2>2. pipeline'.at = "observe" => UNCHANGED pipeline
    BY <1>4, ObserveIsLookedUp
  <2> QED BY <1>1, <2>1, <2>2 DEF LateInv
<1> QED BY <1>2, <1>3, <1>4

LEMMA PlaceKeeps ==
    ASSUME IInv, [Next]_vars
    PROVE  PlaceInv'
<1> DEFINE Locals(score) == [at : Places, time : Int, id : Nat, raw : RawType, score : {score},
                             action : Decision!Actions, audit : BOOLEAN, alert : BOOLEAN]
<1>1. pipeline \in Locals(pipeline.score)
  BY DEF IInv, PlaceInv
<1>2. Receiving \in Locals(Receiving.score)
  BY DEF Receiving, NoRaw, RawType, Places, Decision!Actions
<1>3. CASE Receive
  <2>1. PICK t \in Tracker!EventTimes : pipeline' = [pipeline EXCEPT !.at = "lookup", !.time = t]
    BY <1>3 DEF Receive
  <2>2. t \in Int
    BY <2>1 DEF Tracker!EventTimes, Tracker!Times, Tracker!NoTime
  <2> QED BY <1>1, <2>1, <2>2 DEF PlaceInv, Places
<1>4. CASE OutOfTree \/ Trace
  <2>1. pipeline' = Receiving
    BY <1>4 DEF OutOfTree, Trace
  <2> QED BY <2>1, <1>2 DEF PlaceInv, Receiving
<1>5. CASE Lookup
  <2>1. CASE pipeline' = Receiving
    BY <2>1, <1>2 DEF PlaceInv, Receiving
  <2>2. CASE pipeline' # Receiving
    <3>1. PICK id : id \in DOMAIN sessions /\ pipeline' = [pipeline EXCEPT !.at = "observe", !.id = id]
      BY <1>5, <2>2, LookupMoves
    <3>2. id \in SessionIDs /\ id \in Nat
      BY <3>1, LiveAreIds DEF IInv, SessionIDs
    <3> QED BY <1>1, <3>1, <3>2 DEF PlaceInv, Places
  <2> QED BY <2>1, <2>2
<1>6. CASE Observe \/ Match
  BY <1>1, <1>6 DEF Observe, Match, IInv, PlaceInv, Places
<1>7. CASE Snapshot
  <2>1. contexts[pipeline.id] \in RawType
    BY <1>7 DEF Snapshot, IInv, MonitorInv, LagInv
  <2> QED BY <1>1, <1>7, <2>1 DEF Snapshot, IInv, PlaceInv, Places
<1>8. CASE Score
  <2>1. PICK result : /\ result.action \in Decision!Actions
                      /\ Last(results'[pipeline.id]) = result
    BY <1>8, ScoreResult DEF IInv
  <2> DEFINE audit == Decision!GoesToAuditLog(result)
             alert == Decision!CrossesAlertThreshold(result)
  <2>2. audit \in BOOLEAN /\ alert \in BOOLEAN
    BY DEF Decision!GoesToAuditLog, Decision!CrossesAlertThreshold
  <2>3. /\ pipeline.at = "score"
        /\ pipeline' = [pipeline EXCEPT !.at = "record", !.score = result.score,
                                        !.action = result.action,
                                        !.audit = audit, !.alert = alert]
    BY <1>8, <2>1 DEF Score
  <2> HIDE DEF audit, alert
  <2> QED BY <1>1, <2>1, <2>2, <2>3 DEF IInv, PlaceInv, Places
<1>9. CASE Record
  <2>1. PICK audit \in BOOLEAN, alert \in BOOLEAN :
          /\ pipeline.at = "record"
          /\ pipeline' = [pipeline EXCEPT !.at = "trace", !.audit = audit, !.alert = alert]
    BY <1>9, RecordMoves DEF IInv
  <2> QED BY <1>1, <2>1 DEF IInv, PlaceInv, Places
<1>10. CASE ~PipelineStep
  BY <1>10, <1>1, PipelineFrame DEF IInv, PlaceInv
<1> QED BY <1>3, <1>4, <1>5, <1>6, <1>7, <1>8, <1>9, <1>10 DEF PipelineStep

LEMMA StillOpen ==
    ASSUME Record \/ CloseRecord \/ Flush \/ FlusherStops
    PROVE  UNCHANGED <<closed, closer>>
<1>1. CASE Record
  <2>1. CASE Monitor!RefusedCall
    BY <2>1 DEF Monitor!RefusedCall, Monitor!monitorVars
  <2>2. CASE ~Monitor!RefusedCall
    <3>1. PICK fails : Monitor!Record(pipeline.id, pipeline.raw, pipeline.audit,
                                      pipeline.alert, fails)
      BY <1>1, <2>2 DEF Record
    <3> QED BY <3>1 DEF Monitor!Record
  <2> QED BY <2>1, <2>2
<1>2. CASE CloseRecord
  BY <1>2 DEF CloseRecord, Monitor!RecordSessionSnapshot, Monitor!RefusedCall,
              Monitor!monitorVars
<1>3. CASE Flush
  BY <1>3 DEF Flush, Monitor!FlushTick
<1>4. CASE FlusherStops
  BY <1>4 DEF FlusherStops, Monitor!FlusherStops
<1> QED BY <1>1, <1>2, <1>3, <1>4

LEMMA MainKeeps ==
    ASSUME MainInv, PlaceInv, [Next]_vars
    PROVE  MainInv'
<1>1. CASE CloseBegins
  BY <1>1 DEF CloseBegins, Monitor!CloseBegins, MainInv
<1>2. CASE ShutdownTraces
  BY <1>2 DEF ShutdownTraces, MainInv, monitorVars
<1>3. CASE CloseFinishes
  BY <1>3 DEF CloseFinishes, Monitor!CloseFinishes, MainInv
<1>4. CASE PipelineStep
  <2>1. main = "running" /\ UNCHANGED main
    BY <1>4 DEF PipelineStep, Receive, OutOfTree, Lookup, Observe, Snapshot, Match, Score,
                Record, Trace, MainInv
  <2>2. UNCHANGED <<closed, closer>>
    <3>1. CASE Record
      BY <3>1, StillOpen
    <3>2. CASE ~Record
      BY <1>4, <3>2 DEF PipelineStep, Receive, OutOfTree, Lookup, Observe, Snapshot, Match,
                        Score, Trace, monitorVars
    <3> QED BY <3>1, <3>2
  <2> QED BY <2>1, <2>2 DEF MainInv
<1>5. CASE ~PipelineStep /\ ~CloseBegins /\ ~ShutdownTraces /\ ~CloseFinishes
  <2>1. UNCHANGED <<main, pipeline>>
    BY <1>5, MainFrame, PipelineFrame
  <2>2. UNCHANGED <<closed, closer>>
    BY <1>5, StillOpen, MonitorFrame DEF monitorVars, PipelineStep
  <2> QED BY <2>1, <2>2 DEF MainInv
<1> QED BY <1>1, <1>2, <1>3, <1>4, <1>5

LEMMA MatchKeeps ==
    ASSUME MatchInv, PlaceInv, [Next]_vars
    PROVE  MatchInv'
<1>1. CASE Match
  BY <1>1 DEF Match, Decision!MatchRules, MatchInv, PlaceInv
<1>2. CASE Score
  BY <1>2 DEF Score, Decision!ScoreMatched, MatchInv, PlaceInv
<1>3. CASE CloseEngine
  BY <1>3 DEF CloseEngine, Decision!CloseSession, MatchInv
<1>4. CASE ~Match /\ ~Score /\ ~CloseEngine
  <2>1. UNCHANGED matching
    BY <1>4, DecisionFrame DEF decisionVars
  <2>2. pipeline.at # "score" => matching' = {}
    BY <2>1 DEF MatchInv
  <2>3. CASE UNCHANGED pipeline
    BY <2>1, <2>3 DEF MatchInv
  <2>4. CASE pipeline.at # "score" /\ pipeline'.at # "score"
    BY <2>2, <2>4 DEF MatchInv
  <2>5. UNCHANGED pipeline \/ (pipeline.at # "score" /\ pipeline'.at # "score")
    <3>1. CASE Receive
      BY <3>1 DEF Receive, PlaceInv
    <3>2. CASE OutOfTree \/ Trace
      BY <3>2 DEF OutOfTree, Trace, Receiving
    <3>3. CASE Lookup
      BY <3>3, LookupFinds
    <3>4. CASE Observe \/ Snapshot
      BY <3>4 DEF Observe, Snapshot, PlaceInv
    <3>5. CASE Record
      BY <3>5, RecordMoves DEF PlaceInv
    <3> QED BY <1>4, <3>1, <3>2, <3>3, <3>4, <3>5, PipelineFrame DEF PipelineStep
  <2> QED BY <2>3, <2>4, <2>5
<1> QED BY <1>1, <1>2, <1>3, <1>4

-----------------------------------------------------------------------------
(* How far the close-outs are. *)
LEMMA ClosingIsOne == ASSUME NEW j, j.ids # {} PROVE ClosingIn(j) \in j.ids
  BY DEF ClosingIn

LEMMA HandedGrows == TrackerInv /\ [Next]_vars => handed \subseteq handed'
  BY HandedFrame, ExpireIds DEF Sweep

LEMMA SweepMoves ==
    ASSUME TrackerInv, JanitorInv, Sweep
    PROVE  /\ janitor'.ids \subseteq DOMAIN sessions
           /\ janitor'.ids \cap handed = {}
           /\ handed' = handed \cup janitor'.ids
           /\ janitor' \in [at : {"sweep", "trace"}, ids : SUBSET SessionIDs, raw : RawType]
           /\ janitor'.ids = {} <=> janitor'.at = "sweep"
<1> DEFINE ids == Tracker!ExpiredIds(clock)
<1>1. ids \subseteq DOMAIN sessions /\ handed' = handed \cup ids
  BY ExpireIds DEF Sweep
<1>2. ids \subseteq SessionIDs /\ ids \cap handed = {}
  BY <1>1, LiveAreIds DEF TrackerInv
<1>3. janitor' = ClosingNext(ids)
  BY DEF Sweep
<1> HIDE DEF ids
<1>4. Sweeping \in [at : {"sweep"}, ids : SUBSET SessionIDs, raw : RawType] /\ Sweeping.ids = {}
  BY DEF Sweeping, NoRaw, RawType
<1>5. CASE ids = {}
  BY <1>1, <1>2, <1>3, <1>4, <1>5 DEF ClosingNext
<1>6. CASE ids # {}
  <2>1. janitor' = [Sweeping EXCEPT !.at = "trace", !.ids = ids]
    BY <1>3, <1>6 DEF ClosingNext
  <2>2. janitor' \in [at : {"trace"}, ids : SUBSET SessionIDs, raw : RawType] /\ janitor'.ids = ids
    BY <2>1, <1>2, <1>4
  <2> QED BY <2>2, <1>1, <1>2, <1>6
<1> QED BY <1>5, <1>6

LEMMA CloseEngineMoves ==
    ASSUME JanitorInv, CloseEngine
    PROVE  /\ janitor.at = "engine" /\ janitor.ids # {}
           /\ janitor'.ids = janitor.ids \ {ClosingIn(janitor)}
           /\ janitor' \in [at : {"sweep", "trace"}, ids : SUBSET SessionIDs, raw : RawType]
           /\ janitor'.ids = {} <=> janitor'.at = "sweep"
<1> DEFINE ids == janitor.ids \ {ClosingIn(janitor)}
<1>1. ids \in SUBSET SessionIDs
  BY DEF JanitorInv
<1>2. janitor.at = "engine" /\ janitor' = ClosingNext(ids)
  BY DEF CloseEngine
<1>3. janitor.ids # {}
  BY <1>2 DEF JanitorInv
<1>4. Sweeping \in [at : {"sweep"}, ids : SUBSET SessionIDs, raw : RawType] /\ Sweeping.ids = {}
  BY DEF Sweeping, NoRaw, RawType
<1> HIDE DEF ids
<1>5. CASE ids = {}
  BY <1>1, <1>2, <1>3, <1>4, <1>5 DEF ClosingNext, ids
<1>6. CASE ids # {}
  <2>1. janitor' = [Sweeping EXCEPT !.at = "trace", !.ids = ids]
    BY <1>2, <1>6 DEF ClosingNext
  <2>2. janitor' \in [at : {"trace"}, ids : SUBSET SessionIDs, raw : RawType] /\ janitor'.ids = ids
    BY <2>1, <1>1, <1>4
  <2> QED BY <2>2, <1>2, <1>3, <1>6 DEF ids
<1> QED BY <1>5, <1>6

LEMMA CloseMoves ==
    ASSUME JanitorInv, MonitorInv,
           JanitorStops \/ CloseTrace \/ CloseContext \/ CloseSnapshot \/ CloseRecord
    PROVE  /\ janitor' \in [at : JanitorPlaces, ids : SUBSET SessionIDs, raw : RawType]
           /\ janitor'.ids = janitor.ids
           /\ \/ JanitorStops /\ janitor.at = "sweep" /\ janitor'.at = "stopped"
              \/ CloseTrace /\ janitor.at = "trace" /\ janitor'.at = "context"
              \/ CloseContext /\ janitor.at = "context" /\ janitor'.at = "snapshot"
              \/ CloseSnapshot /\ janitor.at = "snapshot" /\ janitor'.at \in {"record", "engine"}
              \/ CloseRecord /\ janitor.at = "record" /\ janitor'.at = "engine"
<1>1. CASE JanitorStops
  BY <1>1 DEF JanitorStops, JanitorInv, JanitorPlaces
<1>2. CASE CloseTrace
  BY <1>2 DEF CloseTrace, JanitorInv, JanitorPlaces
<1>3. CASE CloseContext
  BY <1>3 DEF CloseContext, JanitorInv, JanitorPlaces
<1>4. CASE CloseSnapshot
  <2> DEFINE id == ClosingIn(janitor)
  <2>1. CASE id \in DOMAIN contexts
    <3>1. contexts[id] \in RawType /\ janitor' = [janitor EXCEPT !.at = "record", !.raw = contexts[id]]
      BY <1>4, <2>1 DEF CloseSnapshot, MonitorInv
    <3> QED BY <1>4, <3>1 DEF CloseSnapshot, JanitorInv, JanitorPlaces
  <2>2. CASE id \notin DOMAIN contexts
    BY <1>4, <2>2 DEF CloseSnapshot, JanitorInv, JanitorPlaces
  <2> QED BY <2>1, <2>2
<1>5. CASE CloseRecord
  BY <1>5 DEF CloseRecord, JanitorInv, JanitorPlaces
<1> QED BY <1>1, <1>2, <1>3, <1>4, <1>5

LEMMA SameClosing == ASSUME NEW j, NEW k, j.ids = k.ids PROVE ClosingIn(j) = ClosingIn(k)
  BY DEF ClosingIn

LEMMA JanitorKeeps ==
    ASSUME TrackerInv, JanitorInv, MonitorInv, [Next]_vars
    PROVE  JanitorInv'
<1>1. handed \subseteq handed'
  BY HandedGrows
<1>2. CASE Sweep
  BY <1>2, SweepMoves DEF JanitorInv, JanitorPlaces
<1>3. CASE CloseEngine
  BY <1>1, <1>3, CloseEngineMoves DEF JanitorInv, JanitorPlaces
<1>4. CASE JanitorStops \/ CloseTrace \/ CloseContext \/ CloseSnapshot \/ CloseRecord
  BY <1>1, <1>4, CloseMoves DEF JanitorInv
<1>5. CASE ~JanitorStep
  BY <1>1, <1>5, JanitorFrame DEF JanitorInv
<1> QED BY <1>2, <1>3, <1>4, <1>5 DEF JanitorStep

(* The close-out of one session gets past the trace manager, past the audit
   monitor and to its end, and no other step moves these sets.              *)
LEMMA DoneSteps ==
    ASSUME TrackerInv, JanitorInv, MonitorInv, [Next]_vars
    PROVE  Done' = Done \cup (IF CloseEngine THEN {ClosingIn(janitor)} ELSE {})
<1>1. CASE Sweep
  <2>1. ~CloseEngine /\ janitor.ids = {}
    BY <1>1 DEF Sweep, CloseEngine, JanitorInv
  <2>2. handed' = handed \cup janitor'.ids /\ janitor'.ids \cap handed = {}
    BY <1>1, SweepMoves
  <2> QED BY <2>1, <2>2 DEF Done
<1>2. CASE CloseEngine
  <2>1. UNCHANGED handed
    BY <1>2, HandedFrame DEF Sweep, CloseEngine
  <2>2. /\ janitor'.ids = janitor.ids \ {ClosingIn(janitor)}
        /\ ClosingIn(janitor) \in janitor.ids /\ ClosingIn(janitor) \in handed
    BY <1>2, CloseEngineMoves, ClosingIsOne DEF JanitorInv
  <2> QED BY <1>2, <2>1, <2>2 DEF Done
<1>3. CASE ~Sweep /\ ~CloseEngine
  <2>1. UNCHANGED handed
    BY <1>3, HandedFrame
  <2>2. janitor'.ids = janitor.ids
    BY <1>3, CloseMoves, JanitorFrame DEF JanitorStep
  <2> QED BY <1>3, <2>1, <2>2 DEF Done
<1> QED BY <1>1, <1>2, <1>3

LEMMA TracedSteps ==
    ASSUME TrackerInv, JanitorInv, MonitorInv, [Next]_vars
    PROVE  Traced' = Traced \cup (IF CloseTrace THEN {ClosingIn(janitor)} ELSE {})
<1>1. Done' = Done \cup (IF CloseEngine THEN {ClosingIn(janitor)} ELSE {})
  BY DoneSteps
<1>2. CASE Sweep
  <2>1. janitor.at = "sweep" /\ ~CloseTrace /\ ~CloseEngine
    BY <1>2 DEF Sweep, CloseTrace, CloseEngine
  <2>2. janitor'.at \in {"sweep", "trace"}
    BY <1>2, SweepMoves
  <2> QED BY <1>1, <2>1, <2>2 DEF Traced
<1>3. CASE CloseEngine
  <2>1. janitor.at = "engine" /\ ~CloseTrace
    BY <1>3 DEF CloseTrace, CloseEngine
  <2>2. janitor'.at \in {"sweep", "trace"}
    BY <1>3, CloseEngineMoves
  <2> QED BY <1>1, <1>3, <2>1, <2>2 DEF Traced
<1>4. CASE JanitorStops \/ CloseTrace \/ CloseContext \/ CloseSnapshot \/ CloseRecord
  <2>1. ~CloseEngine /\ ClosingIn(janitor') = ClosingIn(janitor)
    BY <1>4, CloseMoves, SameClosing DEF CloseEngine
  <2>2. \/ ~CloseTrace /\ janitor.at = "sweep" /\ janitor'.at = "stopped"
        \/ CloseTrace /\ janitor.at = "trace" /\ janitor'.at = "context"
        \/ ~CloseTrace /\ janitor.at \in {"context", "snapshot", "record"}
           /\ janitor'.at \in {"snapshot", "record", "engine"}
    BY <1>4, CloseMoves DEF CloseTrace
  <2> QED BY <1>1, <2>1, <2>2 DEF Traced
<1>5. CASE ~JanitorStep
  BY <1>1, <1>5, JanitorFrame DEF Traced, JanitorStep
<1> QED BY <1>2, <1>3, <1>4, <1>5 DEF JanitorStep

Records == CloseRecord \/ (CloseSnapshot /\ ClosingIn(janitor) \notin DOMAIN contexts)

LEMMA RecordedSteps ==
    ASSUME TrackerInv, JanitorInv, MonitorInv, [Next]_vars
    PROVE  Recorded' = Recorded \cup (IF Records THEN {ClosingIn(janitor)} ELSE {})
<1>1. Done' = Done \cup (IF CloseEngine THEN {ClosingIn(janitor)} ELSE {})
  BY DoneSteps
<1>2. CASE Sweep
  <2>1. janitor.at = "sweep" /\ ~Records /\ ~CloseEngine
    BY <1>2 DEF Sweep, Records, CloseRecord, CloseSnapshot, CloseEngine
  <2>2. janitor'.at \in {"sweep", "trace"}
    BY <1>2, SweepMoves
  <2> QED BY <1>1, <2>1, <2>2 DEF Recorded
<1>3. CASE CloseEngine
  <2>1. janitor.at = "engine" /\ ~Records
    BY <1>3 DEF Records, CloseRecord, CloseSnapshot, CloseEngine
  <2>2. janitor'.at \in {"sweep", "trace"}
    BY <1>3, CloseEngineMoves
  <2> QED BY <1>1, <1>3, <2>1, <2>2 DEF Recorded
<1>4. CASE JanitorStops \/ CloseTrace \/ CloseContext \/ CloseRecord
  <2>1. ~CloseEngine /\ ClosingIn(janitor') = ClosingIn(janitor)
    BY <1>4, CloseMoves, SameClosing DEF CloseEngine
  <2>2. \/ ~Records /\ janitor.at # "engine" /\ janitor'.at # "engine"
        \/ Records /\ janitor.at = "record" /\ janitor'.at = "engine"
    <3>1. /\ CloseRecord => janitor.at = "record"
          /\ CloseSnapshot => janitor.at = "snapshot"
          /\ JanitorStops \/ CloseTrace \/ CloseContext => janitor.at \in {"sweep", "trace", "context"}
      BY DEF CloseRecord, CloseSnapshot, JanitorStops, CloseTrace, CloseContext
    <3> QED BY <1>4, <3>1, CloseMoves DEF Records
  <2> QED BY <1>1, <2>1, <2>2 DEF Recorded
<1>5. CASE CloseSnapshot
  <2>1. ~CloseEngine /\ ~CloseRecord /\ ClosingIn(janitor') = ClosingIn(janitor)
        /\ janitor.at = "snapshot"
    <3>1. janitor.at = "snapshot"
      BY <1>5 DEF CloseSnapshot
    <3>2. ~CloseEngine /\ ~CloseRecord
      BY <3>1 DEF CloseEngine, CloseRecord
    <3> QED BY <1>5, <3>1, <3>2, CloseMoves, SameClosing
  <2>2. janitor'.at = IF ClosingIn(janitor) \in DOMAIN contexts THEN "record" ELSE "engine"
    BY <1>5 DEF CloseSnapshot, JanitorInv
  <2> QED BY <1>1, <1>5, <2>1, <2>2 DEF Recorded, Records
<1>6. CASE ~JanitorStep
  <2>1. ~Records /\ ~CloseEngine
    BY <1>6 DEF Records, JanitorStep
  <2> QED BY <1>1, <1>6, <2>1, JanitorFrame DEF Recorded
<1> QED BY <1>2, <1>3, <1>4, <1>5, <1>6 DEF JanitorStep

-----------------------------------------------------------------------------
(* What the monitor writes. *)
LEMMA RecordsType == ASSUME MonitorInv, NEW id PROVE Monitor!RecordsOf(id) \in Seq(Line)
  BY EmptySeq DEF MonitorInv, Monitor!RecordsOf

LEMMA WrittenRecords ==
    ASSUME NEW ids, NEW raws, NEW reason, Monitor!writeSessionRecords(ids, raws, reason), NEW id
    PROVE  Monitor!RecordsOf(id)' =
              IF id \in ids THEN Append(Monitor!RecordsOf(id), [reason |-> reason, raw |-> raws[id]])
              ELSE Monitor!RecordsOf(id)
  BY DEF Monitor!writeSessionRecords, Monitor!RecordsOf

(* Record buffers the snapshot, or it leaves an error behind. *)
LEMMA RecordDoes ==
    ASSUME Record
    PROVE  /\ UNCHANGED <<sessionLog, closed, closer>>
           /\ writerErr => writerErr'
           /\ \/ Monitor!Refused /\ UNCHANGED monitorVars
              \/ ~Monitor!Refused /\ monitored' = monitored \cup {pipeline.id}
                 /\ rawSessions' = Monitor!put(rawSessions, pipeline.id, pipeline.raw)
              \/ writerErr' /\ UNCHANGED <<monitored, rawSessions>>
<1>1. CASE Monitor!RefusedCall
  BY <1>1 DEF Monitor!RefusedCall, Monitor!monitorVars, Monitor!logs, monitorVars
<1>2. CASE ~Monitor!RefusedCall
  <2>1. PICK fails : Monitor!Record(pipeline.id, pipeline.raw, pipeline.audit,
                                    pipeline.alert, fails)
    BY <1>2 DEF Record
  <2>2. /\ UNCHANGED <<sessionLog, closed, closer>> /\ ~Monitor!Refused
        /\ writerErr' = (fails # "none")
        /\ IF Monitor!Wrote("latency", fails)
           THEN /\ monitored' = monitored \cup {pipeline.id}
                /\ rawSessions' = Monitor!put(rawSessions, pipeline.id, pipeline.raw)
           ELSE UNCHANGED <<monitored, rawSessions>>
    BY <2>1 DEF Monitor!Record, Monitor!buffer
  <2>3. fails = "none" => Monitor!Wrote("latency", fails)
    BY DEF Monitor!Wrote
  <2> QED BY <2>2, <2>3 DEF Monitor!Refused
<1> QED BY <1>1, <1>2

(* The record of a close-out is refused, fails, or shows what the janitor had
   of the session.                                                          *)
LEMMA CloseRecordDoes ==
    ASSUME CloseRecord
    PROVE  LET id == ClosingIn(janitor)
               line == [reason |-> "session_closed", raw |-> janitor.raw]
           IN  /\ UNCHANGED <<closed, closer>>
               /\ \/ Monitor!Refused /\ UNCHANGED monitorVars
                  \/ /\ ~Monitor!Refused /\ writerErr' /\ UNCHANGED sessionLog
                     /\ monitored' = monitored \cup {id}
                     /\ rawSessions' = Monitor!put(rawSessions, id, janitor.raw)
                  \/ /\ ~Monitor!Refused
                     /\ \A other : Monitor!RecordsOf(other)' =
                           IF other = id THEN Append(Monitor!RecordsOf(id), line)
                           ELSE Monitor!RecordsOf(other)
                     /\ \/ /\ monitored' = monitored \ {id}
                           /\ rawSessions' = Monitor!drop({id})
                        \/ /\ monitored' = monitored \cup {id}
                           /\ rawSessions' = Monitor!put(rawSessions, id, janitor.raw)
<1> DEFINE id == ClosingIn(janitor)
           raws == [only \in {id} |-> janitor.raw]
<1>1. CASE Monitor!RefusedCall
  BY <1>1 DEF Monitor!RefusedCall, Monitor!monitorVars, Monitor!logs, monitorVars
<1>2. CASE ~Monitor!RefusedCall
  <2>1. PICK fails \in BOOLEAN : Monitor!RecordSessionSnapshot(id, janitor.raw, fails)
    BY <1>2 DEF CloseRecord
  <2>2. CASE fails
    BY <2>1, <2>2 DEF Monitor!RecordSessionSnapshot, Monitor!buffer
  <2>3. CASE ~fails
    <3>1. Monitor!writeSessionRecords({id}, raws, "session_closed")
      BY <2>1, <2>3 DEF Monitor!RecordSessionSnapshot
    <3>2. \A other : Monitor!RecordsOf(other)' =
             IF other \in {id} THEN Append(Monitor!RecordsOf(other),
                                       [reason |-> "session_closed", raw |-> raws[other]])
             ELSE Monitor!RecordsOf(other)
      <4> HIDE DEF raws
      <4> QED BY <3>1, WrittenRecords
    <3>3. raws[id] = janitor.raw
      OBVIOUS
    <3>4. /\ UNCHANGED <<closed, closer>> /\ ~Monitor!Refused
          /\ \/ monitored' = monitored \ {id} /\ rawSessions' = Monitor!drop({id})
             \/ monitored' = monitored \cup {id}
                /\ rawSessions' = Monitor!put(rawSessions, id, janitor.raw)
      BY <2>1, <2>3 DEF Monitor!RecordSessionSnapshot, Monitor!buffer
    <3> QED BY <3>2, <3>3, <3>4
  <2> QED BY <2>2, <2>3
<1> QED BY <1>1, <1>2

Written(reason, written, gone) ==
    /\ gone \subseteq written /\ written \subseteq monitored
    /\ \A id : Monitor!RecordsOf(id)' =
          IF id \in written
          THEN Append(Monitor!RecordsOf(id), [reason |-> reason, raw |-> rawSessions[id]])
          ELSE Monitor!RecordsOf(id)
    /\ monitored' = monitored \ gone /\ rawSessions' = Monitor!drop(gone)
    /\ ~writerErr' => written = monitored \cap DOMAIN rawSessions

(* A flush writes snapshots it has, and forgets only what it has written. *)
LEMMA FlushDoes ==
    ASSUME Flush \/ CloseFinishes
    PROVE  \/ writerErr /\ UNCHANGED <<monitored, rawSessions, writerErr, sessionLog, closed>>
           \/ \E reason \in {"periodic_flush", "shutdown"} : \E written, gone :
                 /\ ~writerErr /\ UNCHANGED closed
                 /\ Written(reason, written, gone)
                 /\ CloseFinishes => gone = written
<1>1. ASSUME NEW reason \in {"periodic_flush", "shutdown"}, NEW clear \in BOOLEAN, NEW written,
             Monitor!flushSessions(reason, clear, written)
      PROVE  \E gone : Written(reason, written, gone) /\ (clear => gone = written)
  <2> DEFINE gone == Monitor!forgotten(written, clear)
  <2>1. gone \subseteq written /\ (clear => gone = written)
    BY DEF Monitor!forgotten
  <2>2. /\ written \subseteq monitored
        /\ Monitor!writeSessionRecords(written, rawSessions, reason)
        /\ monitored' = monitored \ gone /\ rawSessions' = Monitor!drop(gone)
        /\ ~writerErr' => written = monitored \cap DOMAIN rawSessions
    BY <1>1 DEF Monitor!flushSessions
  <2>3. \A id : Monitor!RecordsOf(id)' =
                       IF id \in written
                       THEN Append(Monitor!RecordsOf(id),
                                   [reason |-> reason, raw |-> rawSessions[id]])
                       ELSE Monitor!RecordsOf(id)
    BY <2>2, WrittenRecords
  <2> HIDE DEF gone
  <2> QED BY <2>1, <2>2, <2>3 DEF Written
<1>2. CASE Flush
  <2>1. PICK written : Monitor!FlushTick(written)
    BY <1>2 DEF Flush
  <2>2. ~writerErr /\ UNCHANGED <<closed, closer>>
        /\ Monitor!flushSessions("periodic_flush", FALSE, written)
    BY <2>1 DEF Monitor!FlushTick
  <2>3. ~CloseFinishes
    BY <2>1 DEF CloseFinishes, Monitor!CloseFinishes, Monitor!FlushTick
  <2> QED BY <2>2, <2>3, <1>1
<1>3. CASE CloseFinishes
  <2>1. PICK written : Monitor!CloseFinishes(written)
    BY <1>3 DEF CloseFinishes
  <2>2. CASE writerErr
    BY <2>1, <2>2 DEF Monitor!CloseFinishes
  <2>3. CASE ~writerErr
    <3>1. Monitor!flushSessions("shutdown", TRUE, written) /\ UNCHANGED closed
      BY <2>1, <2>3 DEF Monitor!CloseFinishes
    <3> QED BY <2>3, <3>1, <1>1
  <2> QED BY <2>2, <2>3
<1> QED BY <1>2, <1>3

(* A refusal needs a reason that stays: no write follows an error or Close. *)
LEMMA RefusalStays ==
    ASSUME [Next]_vars
    PROVE  (writerErr => writerErr') /\ (closed => closed')
<1>1. CASE Record
  BY <1>1, RecordDoes
<1>2. CASE CloseRecord
  BY <1>2, CloseRecordDoes DEF Monitor!Refused, monitorVars
<1>3. CASE Flush \/ CloseFinishes
  BY <1>3, FlushDoes
<1>4. CASE FlusherStops
  BY <1>4 DEF FlusherStops, Monitor!FlusherStops
<1>5. CASE CloseBegins
  BY <1>5 DEF CloseBegins, Monitor!CloseBegins
<1>6. CASE ~Record /\ ~CloseRecord /\ ~Flush /\ ~FlusherStops /\ ~CloseBegins /\ ~CloseFinishes
  BY <1>6, MonitorFrame DEF monitorVars
<1> QED BY <1>1, <1>2, <1>3, <1>4, <1>5, <1>6

(* What can have been appended to the records of a session. *)
LEMMA LogSteps ==
    ASSUME MonitorInv, [Next]_vars, NEW id
    PROVE  \/ Monitor!RecordsOf(id)' = Monitor!RecordsOf(id)
           \/ /\ CloseRecord /\ id = ClosingIn(janitor)
              /\ Monitor!RecordsOf(id)' =
                   Append(Monitor!RecordsOf(id), [reason |-> "session_closed", raw |-> janitor.raw])
           \/ /\ id \in monitored
              /\ \E reason \in {"periodic_flush", "shutdown"} :
                   Monitor!RecordsOf(id)' =
                     Append(Monitor!RecordsOf(id), [reason |-> reason, raw |-> rawSessions[id]])
<1>1. CASE UNCHANGED sessionLog
  BY <1>1 DEF Monitor!RecordsOf
<1>2. CASE Record
  BY <1>1, <1>2, RecordDoes
<1>3. CASE CloseRecord
  BY <1>1, <1>3, CloseRecordDoes DEF monitorVars
<1>4. CASE Flush \/ CloseFinishes
  <2>1. CASE \E reason \in {"periodic_flush", "shutdown"} : \E written, gone :
                Written(reason, written, gone)
    <3>1. PICK reason \in {"periodic_flush", "shutdown"} : \E written, gone : Written(reason, written, gone)
      BY <2>1
    <3> QED BY <3>1 DEF Written
  <2> QED BY <1>1, <1>4, <2>1, FlushDoes
<1>5. CASE FlusherStops \/ CloseBegins
  BY <1>1, <1>5 DEF FlusherStops, Monitor!FlusherStops, CloseBegins, Monitor!CloseBegins,
                    Monitor!logs
<1>6. CASE ~Record /\ ~CloseRecord /\ ~Flush /\ ~FlusherStops /\ ~CloseBegins /\ ~CloseFinishes
  BY <1>1, <1>6, MonitorFrame DEF monitorVars
<1> QED BY <1>2, <1>3, <1>4, <1>5, <1>6

LEMMA RecordsKeepType ==
    ASSUME MonitorInv, JanitorInv, [Next]_vars, NEW id
    PROVE  Monitor!RecordsOf(id)' \in Seq(Line)
<1>1. Monitor!RecordsOf(id) \in Seq(Line)
  BY RecordsType
<1>2. ASSUME NEW reason \in Monitor!Reasons, NEW raw \in RawType,
             Monitor!RecordsOf(id)' = Append(Monitor!RecordsOf(id), [reason |-> reason, raw |-> raw])
      PROVE  Monitor!RecordsOf(id)' \in Seq(Line)
  <2>1. [reason |-> reason, raw |-> raw] \in Line
    BY DEF Line
  <2> QED BY <1>1, <1>2, <2>1, AppendProperties
<1>3. janitor.raw \in RawType /\ \A other \in monitored : rawSessions[other] \in RawType
  BY DEF JanitorInv, MonitorInv
<1>4. {"periodic_flush", "shutdown", "session_closed"} \subseteq Monitor!Reasons
  BY DEF Monitor!Reasons
<1> QED BY <1>1, <1>2, <1>3, <1>4, LogSteps

LEMMA ContextsGrow ==
    ASSUME MonitorInv, PlaceInv, [Next]_vars
    PROVE  /\ contexts' \in [DOMAIN contexts' -> RawType]
           /\ DOMAIN contexts \subseteq DOMAIN contexts' /\ DOMAIN contexts' \subseteq SessionIDs
           /\ \A id \in DOMAIN contexts' \ DOMAIN contexts : Observe /\ id = pipeline.id
           /\ \A id \in DOMAIN contexts :
                 \/ contexts'[id].folded = contexts[id].folded
                 \/ Observe /\ id = pipeline.id /\ contexts'[id].folded = contexts[id].folded + 1
<1>1. CASE Observe
  <2> DEFINE id == pipeline.id
             known == IF id \in DOMAIN contexts THEN contexts[id] ELSE NoRaw
             more == [known EXCEPT !.folded = @ + 1]
  <2>1. known \in RawType
    BY DEF MonitorInv, RawType, NoRaw
  <2>2. more \in RawType /\ more.folded = known.folded + 1
    <3> HIDE DEF known
    <3> QED BY <2>1 DEF RawType
  <2>3. contexts' = [y \in DOMAIN contexts \cup {id} |-> IF y = id THEN more ELSE contexts[y]]
    BY <1>1 DEF Observe, Decision!Put
  <2>4. id \in SessionIDs
    BY <1>1 DEF Observe, PlaceInv
  <2> HIDE DEF more
  <2> QED BY <1>1, <2>1, <2>2, <2>3, <2>4 DEF MonitorInv
<1>2. CASE CloseContext
  <2>1. CASE ClosingIn(janitor) \in DOMAIN contexts
    <3>1. contexts' = [contexts EXCEPT ![ClosingIn(janitor)].closed = TRUE]
      BY <1>2, <2>1 DEF CloseContext
    <3>2. [contexts[ClosingIn(janitor)] EXCEPT !.closed = TRUE] \in RawType
          /\ [contexts[ClosingIn(janitor)] EXCEPT !.closed = TRUE].folded
               = contexts[ClosingIn(janitor)].folded
      BY <2>1 DEF MonitorInv, RawType
    <3> QED BY <2>1, <3>1, <3>2 DEF MonitorInv
  <2>2. CASE ClosingIn(janitor) \notin DOMAIN contexts
    BY <1>2, <2>2 DEF CloseContext, MonitorInv
  <2> QED BY <2>1, <2>2
<1>3. CASE ~Observe /\ ~CloseContext
  BY <1>3, ContextFrame DEF MonitorInv
<1> QED BY <1>1, <1>2, <1>3

LEMMA BufferTypes ==
    ASSUME NEW id, NEW raw \in RawType, NEW gone, rawSessions \in [monitored -> RawType]
    PROVE  /\ Monitor!put(rawSessions, id, raw) \in [monitored \cup {id} -> RawType]
           /\ Monitor!drop(gone) \in [monitored \ gone -> RawType]
  BY DEF Monitor!put, Monitor!drop, Monitor!Restrict

LEMMA MonitorKeeps ==
    ASSUME MonitorInv, MainInv, PlaceInv, JanitorInv, [Next]_vars
    PROVE  MonitorInv'
<1>1. contexts' \in [DOMAIN contexts' -> RawType] /\ DOMAIN contexts' \subseteq SessionIDs
  BY ContextsGrow
<1>2. \A id \in DOMAIN sessionLog' : sessionLog'[id] \in Seq(Line)
  BY RecordsKeepType DEF Monitor!RecordsOf
<1>3. rawSessions \in [monitored -> RawType] /\ janitor.raw \in RawType /\ pipeline.raw \in RawType
  BY DEF MonitorInv, JanitorInv, PlaceInv
<1>4. /\ rawSessions' \in [monitored' -> RawType]
      /\ (closer' = "returned" /\ ~writerErr') => monitored' = {}
  <2>1. CASE Record
    <3>1. ~Monitor!Refused => closer' # "returned"
      BY <2>1, RecordDoes DEF MainInv, Monitor!Refused
    <3>2. CASE Monitor!Refused /\ UNCHANGED monitorVars
      BY <3>2, <1>3 DEF MonitorInv, monitorVars
    <3>3. CASE /\ ~Monitor!Refused /\ monitored' = monitored \cup {pipeline.id}
               /\ rawSessions' = Monitor!put(rawSessions, pipeline.id, pipeline.raw)
      BY <3>1, <3>3, <1>3, BufferTypes
    <3>4. CASE writerErr' /\ UNCHANGED <<monitored, rawSessions>>
      BY <3>4, <1>3
    <3> QED BY <2>1, <3>2, <3>3, <3>4, RecordDoes
  <2>2. CASE CloseRecord
    <3> DEFINE id == ClosingIn(janitor)
    <3>1. ~Monitor!Refused => closer' # "returned"
      BY <2>2, CloseRecordDoes DEF MainInv, Monitor!Refused, monitorVars
    <3>2. CASE Monitor!Refused /\ UNCHANGED monitorVars
      BY <3>2, <1>3 DEF MonitorInv, monitorVars
    <3>3. CASE /\ ~Monitor!Refused /\ monitored' = monitored \cup {id}
               /\ rawSessions' = Monitor!put(rawSessions, id, janitor.raw)
      <4> HIDE DEF id
      <4> QED BY <3>1, <3>3, <1>3, BufferTypes
    <3>4. CASE /\ ~Monitor!Refused /\ monitored' = monitored \ {id}
               /\ rawSessions' = Monitor!drop({id})
      <4> HIDE DEF id
      <4> QED BY <3>1, <3>4, <1>3, BufferTypes
    <3> QED BY <2>2, <3>2, <3>3, <3>4, CloseRecordDoes
  <2>3. CASE Flush \/ CloseFinishes
    <3>1. CASE writerErr
      BY <2>3, <3>1, <1>3, FlushDoes
    <3>2. CASE ~writerErr
      <4>1. PICK reason, written, gone :
              Written(reason, written, gone) /\ (CloseFinishes => gone = written)
        BY <2>3, <3>2, FlushDoes
      <4>2. rawSessions' \in [monitored' -> RawType]
        BY <4>1, <1>3, BufferTypes DEF Written
      <4>3. CASE CloseFinishes
        BY <4>1, <4>2, <4>3, <1>3 DEF Written
      <4>4. CASE Flush /\ ~CloseFinishes
        <5>1. closer' # "returned"
          BY <4>4 DEF Flush, Monitor!FlushTick, MainInv
        <5> QED BY <4>2, <5>1
      <4> QED BY <2>3, <4>3, <4>4
    <3> QED BY <3>1, <3>2
  <2>4. CASE FlusherStops \/ CloseBegins
    BY <2>4, <1>3 DEF FlusherStops, Monitor!FlusherStops, CloseBegins, Monitor!CloseBegins, MonitorInv
  <2>5. CASE ~Record /\ ~CloseRecord /\ ~Flush /\ ~FlusherStops /\ ~CloseBegins /\ ~CloseFinishes
    BY <2>5, <1>3, MonitorFrame DEF monitorVars, MonitorInv
  <2> QED BY <2>1, <2>2, <2>3, <2>4, <2>5
<1> QED BY <1>1, <1>2, <1>4 DEF MonitorInv

-----------------------------------------------------------------------------
(* How many events of a session were late. *)
LEMMA LateSteps ==
    ASSUME TrackerInv, LateInv, [Next]_vars
    PROVE  /\ late \in [SessionIDs -> 0 .. 1]
           /\ \A id \in SessionIDs :
                 IF Observe /\ id = pipeline.id /\ id \in DOMAIN endLog
                 THEN late'[id] = late[id] + 1 ELSE late'[id] = late[id]
<1>1. CASE Observe
  <2>1. late' = IF pipeline.id \in DOMAIN endLog
                THEN [late EXCEPT ![pipeline.id] = @ + 1] ELSE late
    BY <1>1 DEF Observe
  <2> QED BY <1>1, <2>1 DEF LateInv
<1>2. CASE ~Observe
  BY <1>2, LateFrame DEF LateInv
<1> QED BY <1>1, <1>2

(* How many of a session's events the janitor's snapshot may miss grows only
   with the count of late events.                                           *)
LEMMA LateCounts ==
    ASSUME TrackerInv, LateInv, PlaceInv, MonitorInv, [Next]_vars, NEW id \in DOMAIN contexts
    PROVE  /\ contexts[id].folded \in Nat /\ contexts'[id].folded \in Nat
           /\ late[id] \in 0 .. 1 /\ late'[id] \in Nat
           /\ (id \in DOMAIN endLog \/ ~Observe \/ id # pipeline.id) =>
                 contexts'[id].folded - late'[id] = contexts[id].folded - late[id]
<1>1. id \in SessionIDs /\ contexts[id].folded \in Nat
  BY DEF MonitorInv, RawType
<1>2. contexts'[id] \in RawType
  BY ContextsGrow
<1>3. contexts'[id].folded \in Nat
  BY <1>2 DEF RawType
<1>4. late[id] \in 0 .. 1 /\ late'[id] \in Nat
  BY <1>1, LateSteps
<1>5. \/ contexts'[id].folded = contexts[id].folded
      \/ Observe /\ id = pipeline.id
  BY ContextsGrow
<1>6. (Observe /\ id = pipeline.id) => contexts'[id].folded = contexts[id].folded + 1
  <2> SUFFICES ASSUME Observe, id = pipeline.id PROVE contexts'[id].folded = contexts[id].folded + 1
    OBVIOUS
  <2>1. contexts'[id] = [contexts[id] EXCEPT !.folded = @ + 1]
    BY DEF Observe, Decision!Put
  <2> QED BY <2>1 DEF MonitorInv, RawType
<1>7. late'[id] = IF Observe /\ id = pipeline.id /\ id \in DOMAIN endLog
                  THEN late[id] + 1 ELSE late[id]
  BY <1>1, LateSteps
<1> QED BY <1>1, <1>3, <1>4, <1>5, <1>6, <1>7

-----------------------------------------------------------------------------
(* The session_closed record of a session. *)
LEMMA ClosedAfter ==
    ASSUME NEW id, Monitor!RecordsOf(id) \in Seq(Line), NEW line,
           Monitor!RecordsOf(id)' = Append(Monitor!RecordsOf(id), line)
    PROVE  ClosedRecords(id)' = ClosedRecords(id)
              \cup (IF line.reason = "session_closed" THEN {Len(Monitor!RecordsOf(id)) + 1} ELSE {})
<1> DEFINE s == Monitor!RecordsOf(id)
           t == Monitor!RecordsOf(id)'
<1>1. /\ s \in Seq(Line) /\ t = Append(s, line)
      /\ ClosedRecords(id) = {i \in DOMAIN s : s[i].reason = "session_closed"}
      /\ ClosedRecords(id)' = {i \in DOMAIN t : t[i].reason = "session_closed"}
  BY DEF ClosedRecords
<1> HIDE DEF s, t
<1>2. /\ DOMAIN s = 1 .. Len(s) /\ DOMAIN t = 1 .. (Len(s) + 1) /\ Len(s) \in Nat
      /\ t[Len(s) + 1] = line
      /\ \A i \in 1 .. Len(s) : t[i] = s[i]
  BY <1>1
<1>3. ClosedRecords(id)' = ClosedRecords(id)
              \cup (IF line.reason = "session_closed" THEN {Len(s) + 1} ELSE {})
  BY <1>1, <1>2
<1> QED BY <1>3 DEF s

LEMMA ClosedSteps ==
    ASSUME MonitorInv, [Next]_vars, NEW id
    PROVE  \/ ClosedRecords(id)' = ClosedRecords(id)
           \/ /\ CloseRecord /\ id = ClosingIn(janitor)
              /\ ClosedRecords(id)' = ClosedRecords(id) \cup {Len(Monitor!RecordsOf(id)) + 1}
<1>1. Monitor!RecordsOf(id) \in Seq(Line)
  BY RecordsType
<1>2. CASE Monitor!RecordsOf(id)' = Monitor!RecordsOf(id)
  BY <1>2 DEF ClosedRecords
<1>3. CASE /\ CloseRecord /\ id = ClosingIn(janitor)
           /\ Monitor!RecordsOf(id)' =
                Append(Monitor!RecordsOf(id), [reason |-> "session_closed", raw |-> janitor.raw])
  BY <1>1, <1>3, ClosedAfter
<1>4. CASE \E reason \in {"periodic_flush", "shutdown"} :
             Monitor!RecordsOf(id)' =
               Append(Monitor!RecordsOf(id), [reason |-> reason, raw |-> rawSessions[id]])
  <2>1. PICK reason \in {"periodic_flush", "shutdown"} :
             Monitor!RecordsOf(id)' =
               Append(Monitor!RecordsOf(id), [reason |-> reason, raw |-> rawSessions[id]])
    BY <1>4
  <2> DEFINE line == [reason |-> reason, raw |-> rawSessions[id]]
  <2>2. line.reason # "session_closed" /\ Monitor!RecordsOf(id)' = Append(Monitor!RecordsOf(id), line)
    BY <2>1
  <2> HIDE DEF line
  <2>3. ClosedRecords(id)' = ClosedRecords(id)
    BY <1>1, <2>2, ClosedAfter
  <2> QED BY <2>3
<1> QED BY <1>2, <1>3, <1>4, LogSteps

(* Unless the monitor refused it or it failed, the close-out left its record. *)
LEMMA CloseRecordWrites ==
    ASSUME MonitorInv, [Next]_vars, CloseRecord, ~closed', ~writerErr',
           NEW id, id = ClosingIn(janitor)
    PROVE  /\ Monitor!RecordsOf(id)' =
                Append(Monitor!RecordsOf(id), [reason |-> "session_closed", raw |-> janitor.raw])
           /\ ClosedRecords(id)' # {}
<1> DEFINE line == [reason |-> "session_closed", raw |-> janitor.raw]
<1>1. ~Monitor!Refused
  BY RefusalStays DEF Monitor!Refused
<1>2. Monitor!RecordsOf(id)' = Append(Monitor!RecordsOf(id), line)
  BY <1>1, CloseRecordDoes
<1>3. Monitor!RecordsOf(id) \in Seq(Line) /\ line.reason = "session_closed"
  BY RecordsType
<1>4. ClosedRecords(id)' # {}
  <2> HIDE DEF line
  <2>1. ClosedRecords(id)' = ClosedRecords(id) \cup {Len(Monitor!RecordsOf(id)) + 1}
    BY <1>2, <1>3, ClosedAfter
  <2> QED BY <2>1
<1> QED BY <1>2, <1>4

LEMMA RecordedAreEnded ==
    ASSUME TrackerInv, JanitorInv
    PROVE  /\ Recorded \subseteq DOMAIN endLog
           /\ janitor.at \in {"trace", "context", "snapshot", "record"} =>
                 ClosingIn(janitor) \notin Recorded
           /\ janitor.at = "trace" => ClosingIn(janitor) \notin Traced
  BY ClosingIsOne DEF TrackerInv, JanitorInv, Recorded, Traced, Done

(* A session whose first event is late has not more events than late ones. *)
LEMMA LateIsCounted ==
    ASSUME TrackerInv, LateInv, PlaceInv, MonitorInv, [Next]_vars,
           NEW id \in SessionIDs, id \in DOMAIN endLog,
           id \in DOMAIN contexts', contexts'[id].folded > late'[id]
    PROVE  id \in DOMAIN contexts
<1> SUFFICES ASSUME id \notin DOMAIN contexts PROVE FALSE
  OBVIOUS
<1>1. Observe /\ id = pipeline.id
  BY ContextsGrow
<1>2. contexts'[id].folded = 1
  BY <1>1 DEF Observe, Decision!Put, NoRaw
<1>3. late[id] \in 0 .. 1 /\ late'[id] = late[id] + 1
  BY <1>1, LateSteps
<1> QED BY <1>2, <1>3

LEMMA RecordKeeps ==
    ASSUME TrackerInv, LateInv, PlaceInv, JanitorInv, MonitorInv, RecordInv, [Next]_vars
    PROVE  RecordInv'
<1> SUFFICES ASSUME NEW id \in SessionIDs
             PROVE  /\ \A i, j \in ClosedRecords(id)' : i = j
                    /\ id \notin Recorded' => ClosedRecords(id)' = {}
                    /\ (id \in Recorded' /\ id \in DOMAIN contexts'
                           /\ contexts'[id].folded > late'[id]
                           /\ ~closed' /\ ~writerErr') => ClosedRecords(id)' # {}
  BY DEF RecordInv
<1>1. Recorded' = Recorded \cup (IF Records THEN {ClosingIn(janitor)} ELSE {})
  BY RecordedSteps
<1>2. /\ \A i, j \in ClosedRecords(id) : i = j
      /\ id \notin Recorded => ClosedRecords(id) = {}
      /\ (id \in Recorded /\ id \in DOMAIN contexts /\ contexts[id].folded > late[id]
             /\ ~closed /\ ~writerErr) => ClosedRecords(id) # {}
  BY DEF RecordInv
<1>3. /\ \A i, j \in ClosedRecords(id)' : i = j
      /\ id \notin Recorded' => ClosedRecords(id)' = {}
  <2>1. CASE ClosedRecords(id)' = ClosedRecords(id)
    BY <1>1, <1>2, <2>1
  <2>2. CASE /\ CloseRecord /\ id = ClosingIn(janitor)
             /\ ClosedRecords(id)' = ClosedRecords(id) \cup {Len(Monitor!RecordsOf(id)) + 1}
    <3>1. janitor.at = "record"
      BY <2>2 DEF CloseRecord
    <3>2. id \notin Recorded
      BY <2>2, <3>1, RecordedAreEnded
    <3>3. id \in Recorded'
      BY <1>1, <2>2 DEF Records
    <3> QED BY <1>2, <2>2, <3>2, <3>3
  <2> QED BY <2>1, <2>2, ClosedSteps
<1>4. ASSUME id \in Recorded', id \in DOMAIN contexts', contexts'[id].folded > late'[id],
             ~closed', ~writerErr'
      PROVE  ClosedRecords(id)' # {}
  <2>1. ~closed /\ ~writerErr
    BY <1>4, RefusalStays
  <2>2. CASE id \in Recorded
    <3>1. id \in DOMAIN endLog
      BY <2>2, RecordedAreEnded
    <3>2. id \in DOMAIN contexts
      BY <1>4, <3>1, LateIsCounted
    <3>3. contexts[id].folded > late[id]
      <4>1. PICK f, g, l, m : /\ f = contexts[id].folded /\ g = contexts'[id].folded
                              /\ l = late[id] /\ m = late'[id]
        OBVIOUS
      <4>2. f \in Nat /\ g \in Nat /\ l \in 0 .. 1 /\ m \in Nat /\ g - m = f - l
        BY <3>1, <3>2, <4>1, LateCounts
      <4> QED BY <1>4, <4>1, <4>2
    <3> QED BY <1>2, <2>1, <2>2, <3>2, <3>3, ClosedSteps
  <2>3. CASE id \notin Recorded
    <3>1. Records /\ id = ClosingIn(janitor)
      BY <1>1, <1>4, <2>3
    <3>2. CASE CloseRecord
      BY <1>4, <3>1, <3>2, CloseRecordWrites
    <3>3. CASE CloseSnapshot /\ id \notin DOMAIN contexts
      BY <1>4, <3>3 DEF CloseSnapshot
    <3> QED BY <3>1, <3>2, <3>3 DEF Records
  <2> QED BY <2>2, <2>3
<1> QED BY <1>3, <1>4

-----------------------------------------------------------------------------
(* How far the last record of a session can be behind. *)
LEMMA LastAppended ==
    ASSUME NEW S, NEW s \in Seq(S), NEW e
    PROVE  Append(s, e) # << >> /\ Last(Append(s, e)) = e
<1> DEFINE T == S \cup {e}
<1>1. s \in Seq(T) /\ e \in T
  BY SeqMonotonic
<1> HIDE DEF T
<1> QED BY <1>1, AppendProperties DEF Last

(* What a flush leaves visible. *)
LEMMA FlushShows ==
    ASSUME MonitorInv, Flush \/ CloseFinishes, ~writerErr', NEW id,
           id \in monitored \/ Monitor!RecordsOf(id) # << >>
    PROVE  /\ id \in monitored' \/ Monitor!RecordsOf(id)' # << >>
           /\ Shown(id)' = Shown(id)
<1>1. PICK reason, written, gone : Written(reason, written, gone)
  BY FlushDoes
<1>2. /\ gone \subseteq monitored
      /\ \A other : Monitor!RecordsOf(other)' =
            IF other \in monitored
            THEN Append(Monitor!RecordsOf(other), [reason |-> reason, raw |-> rawSessions[other]])
            ELSE Monitor!RecordsOf(other)
      /\ monitored' = monitored \ gone /\ rawSessions' = Monitor!drop(gone)
  BY <1>1 DEF Written, MonitorInv
<1>3. CASE id \in monitored \ gone
  BY <1>2, <1>3 DEF Shown, Monitor!drop, Monitor!Restrict, MonitorInv
<1>4. CASE id \in gone
  <2> DEFINE line == [reason |-> reason, raw |-> rawSessions[id]]
  <2>1. /\ Monitor!RecordsOf(id)' = Append(Monitor!RecordsOf(id), line)
        /\ id \notin monitored' /\ id \in monitored
    BY <1>2, <1>4
  <2>2. Monitor!RecordsOf(id) \in Seq(Line) /\ line.raw = rawSessions[id]
    BY RecordsType
  <2> HIDE DEF line
  <2> QED BY <2>1, <2>2, LastAppended DEF Shown
<1>5. CASE id \notin monitored
  <2>1. Monitor!RecordsOf(id)' = Monitor!RecordsOf(id) /\ id \notin monitored'
    BY <1>2, <1>5
  <2> QED BY <2>1, <1>5 DEF Shown
<1> QED BY <1>2, <1>3, <1>4, <1>5

LEMMA SameShown ==
    ASSUME UNCHANGED <<monitored, rawSessions, sessionLog>>, NEW id
    PROVE  Shown(id)' = Shown(id) /\ Monitor!RecordsOf(id)' = Monitor!RecordsOf(id)
  BY DEF Shown, Monitor!RecordsOf

(* What Record leaves visible of the other sessions. *)
LEMMA RecordShows ==
    ASSUME MonitorInv, Record, NEW id, id # pipeline.id, ~writerErr',
           id \in monitored \/ Monitor!RecordsOf(id) # << >>
    PROVE  /\ id \in monitored' \/ Monitor!RecordsOf(id)' # << >>
           /\ Shown(id)' = Shown(id)
<1>1. UNCHANGED sessionLog
  BY RecordDoes
<1>2. CASE UNCHANGED <<monitored, rawSessions>>
  BY <1>1, <1>2, SameShown
<1>3. CASE /\ monitored' = monitored \cup {pipeline.id}
           /\ rawSessions' = Monitor!put(rawSessions, pipeline.id, pipeline.raw)
  <2>1. Monitor!RecordsOf(id)' = Monitor!RecordsOf(id)
    BY <1>1 DEF Monitor!RecordsOf
  <2>2. id \in monitored => rawSessions'[id] = rawSessions[id]
    BY <1>3 DEF Monitor!put, MonitorInv
  <2> QED BY <1>3, <2>1, <2>2 DEF Shown
<1> QED BY <1>2, <1>3, RecordDoes DEF monitorVars

(* What the record of a close-out leaves visible. *)
LEMMA CloseRecordShows ==
    ASSUME TrackerInv, LateInv, PlaceInv, JanitorInv, MonitorInv, LagInv, [Next]_vars,
           CloseRecord, ~Observe, ~writerErr', NEW id \in DOMAIN contexts, Covered(id)
    PROVE  \/ /\ id \in monitored' \/ Monitor!RecordsOf(id)' # << >>
              /\ Shown(id)' = Shown(id)
           \/ Covered(id)'
<1> DEFINE c == ClosingIn(janitor)
<1>1. CASE UNCHANGED monitorVars
  BY <1>1, SameShown DEF monitorVars, Covered
<1>2. CASE ~Monitor!Refused
  <2>1. /\ \A other : Monitor!RecordsOf(other)' =
              IF other = c
              THEN Append(Monitor!RecordsOf(c), [reason |-> "session_closed", raw |-> janitor.raw])
              ELSE Monitor!RecordsOf(other)
        /\ \/ monitored' = monitored \ {c} /\ rawSessions' = Monitor!drop({c})
           \/ monitored' = monitored \cup {c} /\ rawSessions' = Monitor!put(rawSessions, c, janitor.raw)
    BY <1>2, CloseRecordDoes
  <2>2. CASE id # c
    <3>1. Monitor!RecordsOf(id)' = Monitor!RecordsOf(id) /\ (id \in monitored' <=> id \in monitored)
      BY <2>1, <2>2
    <3>2. id \in monitored => rawSessions'[id] = rawSessions[id]
      BY <2>1, <2>2 DEF Monitor!put, Monitor!drop, Monitor!Restrict, MonitorInv
    <3> QED BY <3>1, <3>2 DEF Shown, Covered
  <2>3. CASE id = c
    <3>1. janitor.raw.folded >= contexts[id].folded - late[id]
      BY <2>3 DEF LagInv, CloseRecord
    <3>2. contexts'[id].folded - late'[id] = contexts[id].folded - late[id]
      BY LateCounts
    <3>3. Monitor!RecordsOf(id)' # << >> /\ Last(Monitor!RecordsOf(id)').raw = janitor.raw
      <4> DEFINE line == [reason |-> "session_closed", raw |-> janitor.raw]
      <4>1. Monitor!RecordsOf(id)' = Append(Monitor!RecordsOf(id), line) /\ line.raw = janitor.raw
        BY <2>1, <2>3
      <4> HIDE DEF line
      <4> QED BY <4>1, LastAppended, RecordsType
    <3>4. id \in monitored' => rawSessions'[id] = janitor.raw
      BY <2>1, <2>3 DEF Monitor!put
    <3>5. Shown(id)' = janitor.raw
      BY <3>3, <3>4 DEF Shown
    <3> QED BY <3>1, <3>2, <3>3, <3>5 DEF Covered
  <2> QED BY <2>2, <2>3
<1> QED BY <1>1, <1>2, CloseRecordDoes

(* The event in hand stays in hand until it is recorded. *)
LEMMA HandStays ==
    ASSUME PlaceInv, [Next]_vars, NEW id, ~(Record /\ id = pipeline.id), InHand(id)
    PROVE  InHand(id)'
<1>1. CASE Receive \/ OutOfTree \/ Lookup \/ Observe \/ Trace
  BY <1>1 DEF InHand, Receive, OutOfTree, Lookup, Observe, Trace
<1>2. CASE Snapshot
  BY <1>2 DEF InHand, Snapshot, PlaceInv
<1>3. CASE Match
  BY <1>3 DEF InHand, Match, PlaceInv
<1>4. CASE Score
  BY <1>4 DEF InHand, Score, PlaceInv
<1>5. CASE Record
  BY <1>5 DEF InHand
<1>6. CASE ~PipelineStep
  BY <1>6, PipelineFrame DEF InHand
<1> QED BY <1>1, <1>2, <1>3, <1>4, <1>5, <1>6 DEF PipelineStep

LEMMA LagKeeps ==
    ASSUME TrackerInv, LateInv, PlaceInv, MainInv, JanitorInv, MonitorInv, LagInv, [Next]_vars
    PROVE  LagInv'
<1>1. DOMAIN contexts \subseteq DOMAIN contexts'
  BY ContextsGrow
<1>2. pipeline'.at \in {"snapshot", "match", "score", "record"} =>
        \/ Observe /\ pipeline'.at = "snapshot" /\ pipeline'.id = pipeline.id
        \/ Snapshot /\ pipeline.at = "snapshot" /\ pipeline'.id = pipeline.id
             /\ pipeline'.raw = contexts[pipeline.id]
        \/ (Match \/ Score) /\ pipeline.at \in {"match", "score"}
             /\ pipeline'.id = pipeline.id /\ pipeline'.raw = pipeline.raw
        \/ ~PipelineStep /\ UNCHANGED pipeline
  <2>1. CASE Receive
    BY <2>1 DEF Receive, PlaceInv
  <2>2. CASE OutOfTree \/ Trace
    BY <2>2 DEF OutOfTree, Trace, Receiving
  <2>3. CASE Lookup
    BY <2>3, LookupFinds
  <2>4. CASE Observe
    BY <2>4 DEF Observe, PlaceInv
  <2>5. CASE Snapshot
    BY <2>5 DEF Snapshot, PlaceInv
  <2>6. CASE Match
    BY <2>6 DEF Match, PlaceInv
  <2>7. CASE Score
    BY <2>7 DEF Score, PlaceInv
  <2>8. CASE Record
    BY <2>8, RecordMoves DEF PlaceInv
  <2>9. CASE ~PipelineStep
    BY <2>9, PipelineFrame
  <2> QED BY <2>1, <2>2, <2>3, <2>4, <2>5, <2>6, <2>7, <2>8, <2>9 DEF PipelineStep
<1>3. Observe => pipeline.at = "observe" /\ pipeline.id \in DOMAIN contexts'
  BY DEF Observe, Decision!Put
<1>4. pipeline'.at \in {"snapshot", "match", "score", "record"} => pipeline'.id \in DOMAIN contexts'
  BY <1>1, <1>2, <1>3 DEF LagInv
<1>5. pipeline'.at \in {"match", "score", "record"} =>
        pipeline'.raw.folded = contexts'[pipeline'.id].folded
  <2>1. CASE Observe
    BY <1>2, <1>3, <2>1 DEF Snapshot, Match, Score, PipelineStep
  <2>2. CASE ~Observe
    <3>1. \A id \in DOMAIN contexts : contexts'[id].folded = contexts[id].folded
      BY <2>2, ContextsGrow
    <3> QED BY <1>2, <2>2, <3>1 DEF LagInv
  <2> QED BY <2>1, <2>2
<1>6. ASSUME janitor'.at = "record"
      PROVE  /\ ClosingIn(janitor') \in DOMAIN contexts'
             /\ janitor'.raw.folded >= contexts'[ClosingIn(janitor')].folded - late'[ClosingIn(janitor')]
  <2>1. CASE CloseSnapshot
    <3> DEFINE id == ClosingIn(janitor)
    <3>1. /\ janitor'.at = "record" /\ UNCHANGED <<contexts, late>>
          /\ janitor' = IF id \in DOMAIN contexts
                        THEN [janitor EXCEPT !.at = "record", !.raw = contexts[id]]
                        ELSE [janitor EXCEPT !.at = "engine"]
      BY <1>6, <2>1 DEF CloseSnapshot, ghosts
    <3>2. id \in DOMAIN contexts /\ janitor'.raw = contexts[id]
      <4> HIDE DEF id
      <4> QED BY <3>1 DEF JanitorInv
    <3>3. ClosingIn(janitor') = id
      BY <2>1, CloseMoves, SameClosing
    <3>4. contexts[id].folded \in Nat /\ late[id] \in 0 .. 1
      BY <3>2 DEF MonitorInv, RawType, LateInv
    <3> HIDE DEF id
    <3> QED BY <3>1, <3>2, <3>3, <3>4
  <2>2. CASE ~JanitorStep
    <3> DEFINE id == ClosingIn(janitor)
    <3>1. UNCHANGED janitor /\ janitor.at = "record"
      BY <1>6, <2>2, JanitorFrame
    <3>2. /\ id \in DOMAIN contexts /\ id \in DOMAIN endLog
          /\ janitor.raw.folded >= contexts[id].folded - late[id]
      BY <3>1, ClosingIsOne DEF LagInv, JanitorInv, TrackerInv
    <3>3. ClosingIn(janitor') = id
      BY <3>1
    <3> HIDE DEF id
    <3>4. contexts'[id].folded - late'[id] = contexts[id].folded - late[id]
      BY <3>2, LateCounts
    <3> QED BY <1>1, <3>1, <3>2, <3>3, <3>4
  <2>3. CASE Sweep \/ CloseEngine
    BY <1>6, <2>3, SweepMoves, CloseEngineMoves
  <2>4. CASE JanitorStops \/ CloseTrace \/ CloseContext \/ CloseRecord
    <3>1. ~CloseSnapshot
      BY <2>4 DEF JanitorStops, CloseTrace, CloseContext, CloseRecord, CloseSnapshot
    <3> QED BY <1>6, <2>4, <3>1, CloseMoves
  <2> QED BY <2>1, <2>2, <2>3, <2>4 DEF JanitorStep
<1>7. ASSUME ~writerErr', NEW id \in DOMAIN contexts', ~InHand(id)'
      PROVE  Covered(id)'
  <2>1. ~writerErr
    BY <1>7, RefusalStays
  <2>2. CASE Observe
    <3>1. pipeline'.at = "snapshot" /\ pipeline'.id = pipeline.id /\ pipeline.at = "observe"
      BY <2>2 DEF Observe, PlaceInv
    <3>2. id # pipeline.id
      BY <1>7, <3>1 DEF InHand
    <3>3. id \in DOMAIN contexts
      BY <3>2, ContextsGrow
    <3>4. Covered(id)
      BY <2>1, <3>1, <3>3 DEF LagInv, InHand
    <3>5. contexts'[id].folded - late'[id] = contexts[id].folded - late[id]
      BY <3>2, <3>3, LateCounts
    <3>6. UNCHANGED <<monitored, rawSessions, sessionLog>>
      BY <2>2 DEF Observe, monitorVars
    <3> QED BY <3>4, <3>5, <3>6, SameShown DEF Covered
  <2>3. CASE ~Observe
    <3>1. /\ id \in DOMAIN contexts
          /\ contexts'[id].folded - late'[id] = contexts[id].folded - late[id]
      BY <1>7, <2>3, ContextsGrow, LateCounts
    <3>2. CASE Record /\ id = pipeline.id
      <4>1. ~Monitor!Refused /\ pipeline.at = "record"
        BY <2>1, <3>2, RecordMoves DEF MainInv, Monitor!Refused
      <4>2. monitored' = monitored \cup {id} /\ rawSessions' = Monitor!put(rawSessions, id, pipeline.raw)
        BY <1>7, <3>2, <4>1, RecordDoes
      <4>3. id \in monitored' /\ rawSessions'[id] = pipeline.raw
        BY <4>2 DEF Monitor!put
      <4>4. Shown(id)' = pipeline.raw
        BY <4>3 DEF Shown
      <4>5. pipeline.raw.folded = contexts[id].folded
        BY <3>2, <4>1 DEF LagInv
      <4>6. contexts[id].folded \in Nat /\ late[id] \in 0 .. 1
        BY <3>1, LateCounts
      <4> QED BY <3>1, <4>3, <4>4, <4>5, <4>6 DEF Covered
    <3>3. CASE ~(Record /\ id = pipeline.id)
      <4>1. ~InHand(id)
        BY <1>7, <2>3, <3>3, HandStays
      <4>2. Covered(id)
        BY <2>1, <3>1, <4>1 DEF LagInv
      <4>3. \/ /\ id \in monitored' \/ Monitor!RecordsOf(id)' # << >>
               /\ Shown(id)' = Shown(id)
            \/ Covered(id)'
        <5>1. CASE Record
          BY <1>7, <3>3, <4>2, <5>1, RecordShows DEF Covered
        <5>2. CASE CloseRecord
          BY <1>7, <2>3, <3>1, <4>2, <5>2, CloseRecordShows
        <5>3. CASE Flush \/ CloseFinishes
          BY <1>7, <4>2, <5>3, FlushShows DEF Covered
        <5>4. CASE FlusherStops \/ CloseBegins
          <6>1. UNCHANGED <<monitored, rawSessions, sessionLog>>
            BY <5>4 DEF FlusherStops, Monitor!FlusherStops, CloseBegins, Monitor!CloseBegins,
                        Monitor!logs
          <6> QED BY <4>2, <6>1, SameShown DEF Covered
        <5>5. CASE ~Record /\ ~CloseRecord /\ ~Flush /\ ~FlusherStops /\ ~CloseBegins /\ ~CloseFinishes
          <6>1. UNCHANGED <<monitored, rawSessions, sessionLog>>
            BY <5>5, MonitorFrame DEF monitorVars
          <6> QED BY <4>2, <6>1, SameShown DEF Covered
        <5> QED BY <5>1, <5>2, <5>3, <5>4, <5>5
      <4> QED BY <3>1, <4>2, <4>3 DEF Covered
    <3> QED BY <3>2, <3>3
  <2> QED BY <2>2, <2>3
<1> QED BY <1>4, <1>5, <1>6, <1>7 DEF LagInv

-----------------------------------------------------------------------------
(* How often a rule scores. *)
LEMMA ScoredFrame ==
    ASSUME [Next]_vars, ~Score
    PROVE  UNCHANGED scored
  BY DEF Next, PipelineStep, JanitorStep, MainStep, Receive, OutOfTree, Lookup, Observe,
         Snapshot, Match, Record, Trace, Sweep, JanitorStops, CloseTrace, CloseContext,
         CloseSnapshot, CloseRecord, CloseEngine, Flush, FlusherStops, Signal, CloseBegins,
         CloseFinishes, ShutdownTraces, Tick, Exited, vars, ghosts

Names(id) == Decision!StateOf(id).triggeredRuleNames

LEMMA ScoreNames ==
    ASSUME NEW id, NEW names, NEW score,
           states' = Decision!Put(states, id, [triggeredRuleNames |-> names,
                                               accumulatedScore |-> score])
    PROVE  /\ Names(id)' = names
           /\ \A other : other # id => Names(other)' = Names(other)
  BY DEF Names, Decision!StateOf, Decision!Put

LEMMA AccountKeeps ==
    ASSUME TrackerInv, JanitorInv, MonitorInv, MatchInv, AccountInv, [Next]_vars
    PROVE  AccountInv'
<1>1. Done' = Done \cup (IF CloseEngine THEN {ClosingIn(janitor)} ELSE {})
  BY DoneSteps
<1>2. /\ scored \in [SessionIDs \X Rules -> Nat]
      /\ \A id \in DOMAIN results : \E S : results[id] \in Seq(S)
      /\ \A id \in SessionIDs, r \in Rules :
            scored[<<id, r>>] <= (IF id \in Done THEN 1 ELSE 0)
                                 + (IF RuleName[r] \in Names(id) THEN 1 ELSE 0)
  BY DEF AccountInv, Names
<1>3. CASE Score
  <2>1. PICK m \in matching : \E result, triggered, score :
              /\ m.id = pipeline.id
              /\ triggered = Decision!newlyTriggeredRules(
                                m.matched, Decision!StateOf(m.id).triggeredRuleNames)
              /\ DOMAIN result.triggered = triggered
              /\ states' = Decision!Put(states, m.id,
                    [triggeredRuleNames |-> Decision!StateOf(m.id).triggeredRuleNames
                                               \cup {RuleName[r] : r \in triggered},
                     accumulatedScore |-> score])
              /\ Last(results'[pipeline.id]) = result
              /\ \A id \in DOMAIN results' : \E S : results'[id] \in Seq(S)
    BY <1>3, ScoreResult
  <2>2. PICK result, triggered, score :
              /\ m.id = pipeline.id
              /\ triggered = Decision!newlyTriggeredRules(m.matched, Names(m.id))
              /\ DOMAIN result.triggered = triggered
              /\ states' = Decision!Put(states, m.id,
                    [triggeredRuleNames |-> Names(m.id) \cup {RuleName[r] : r \in triggered},
                     accumulatedScore |-> score])
              /\ Last(results'[pipeline.id]) = result
              /\ \A id \in DOMAIN results' : \E S : results'[id] \in Seq(S)
    BY <2>1 DEF Names
  <2>3. scored' = [p \in SessionIDs \X Rules |->
                 scored[p] + (IF p[1] = pipeline.id /\ p[2] \in triggered THEN 1 ELSE 0)]
    BY <1>3, <2>2 DEF Score
  <2>4. ~CloseEngine
    <3>1. UNCHANGED janitor
      BY <1>3 DEF Score
    <3> QED BY <3>1, CloseEngineMoves
  <2>5. \A r \in triggered : RuleName[r] \notin Names(pipeline.id)
    BY <2>2 DEF Decision!newlyTriggeredRules
  <2>6. PICK scorer : scorer = pipeline.id
    OBVIOUS
  <2>7. /\ Names(scorer)' = Names(scorer) \cup {RuleName[r] : r \in triggered}
        /\ \A other : other # scorer => Names(other)' = Names(other)
    <3> DEFINE names == Names(scorer) \cup {RuleName[r] : r \in triggered}
    <3>1. states' = Decision!Put(states, scorer, [triggeredRuleNames |-> names,
                                                  accumulatedScore |-> score])
      BY <2>2, <2>6
    <3> HIDE DEF names
    <3>2. /\ Names(scorer)' = names
          /\ \A other : other # scorer => Names(other)' = Names(other)
      BY <3>1, ScoreNames
    <3> QED BY <3>2 DEF names
  <2>8. scored' \in [SessionIDs \X Rules -> Nat]
    BY <1>2, <2>3
  <2>9. ASSUME NEW id \in SessionIDs, NEW r \in Rules
        PROVE  scored'[<<id, r>>] <= (IF id \in Done' THEN 1 ELSE 0)
                                     + (IF RuleName[r] \in Names(id)' THEN 1 ELSE 0)
    <3>1. scored'[<<id, r>>] = scored[<<id, r>>] + (IF id = scorer /\ r \in triggered THEN 1 ELSE 0)
      BY <2>3, <2>6
    <3>2. Done' = Done
      BY <1>1, <2>4
    <3>3. CASE id = scorer /\ r \in triggered
      <4>1. RuleName[r] \notin Names(id) /\ RuleName[r] \in Names(id)'
        BY <2>5, <2>6, <2>7, <3>3
      <4> QED BY <1>2, <3>1, <3>2, <3>3, <4>1
    <3>4. CASE ~(id = scorer /\ r \in triggered)
      <4>1. RuleName[r] \in Names(id) => RuleName[r] \in Names(id)'
        BY <2>7
      <4> QED BY <1>2, <3>1, <3>2, <3>4, <4>1
    <3> QED BY <3>3, <3>4
  <2> QED BY <2>2, <2>8, <2>9 DEF AccountInv, Names
<1>4. CASE CloseEngine
  <2>0. PICK c : c = ClosingIn(janitor)
    OBVIOUS
  <2>1. /\ states' = Decision!Restrict(states, DOMAIN states \ {c})
        /\ results' = Decision!Restrict(results, DOMAIN results \ {c})
    BY <1>4, <2>0 DEF CloseEngine, Decision!CloseSession
  <2>2. UNCHANGED scored
    BY <1>4, ScoredFrame DEF CloseEngine, ghosts
  <2>3. c \notin Done /\ Done' = Done \cup {c}
    BY <1>1, <1>4, <2>0, CloseEngineMoves, ClosingIsOne DEF Done
  <2>4. Names(c)' = {} /\ \A other : other # c => Names(other)' = Names(other)
    BY <2>1 DEF Names, Decision!StateOf, Decision!Restrict, Decision!NewState
  <2>5. \A id \in DOMAIN results' : \E S : results'[id] \in Seq(S)
    BY <1>2, <2>1 DEF Decision!Restrict
  <2>6. ASSUME NEW id \in SessionIDs, NEW r \in Rules
        PROVE  scored'[<<id, r>>] <= (IF id \in Done' THEN 1 ELSE 0)
                                     + (IF RuleName[r] \in Names(id)' THEN 1 ELSE 0)
    BY <1>2, <2>2, <2>3, <2>4
  <2> QED BY <1>2, <2>2, <2>5, <2>6 DEF AccountInv, Names
<1>5. CASE ~Score /\ ~CloseEngine
  <2>1. UNCHANGED <<states, results>>
    <3>1. CASE Match
      BY <3>1 DEF Match, Decision!MatchRules
    <3> QED BY <1>5, <3>1, DecisionFrame DEF decisionVars
  <2>2. UNCHANGED scored /\ UNCHANGED Done
    BY <1>1, <1>5, ScoredFrame
  <2>3. \A id : Names(id)' = Names(id)
    BY <2>1 DEF Names, Decision!StateOf
  <2> QED BY <1>2, <2>1, <2>2, <2>3 DEF AccountInv, Names
<1> QED BY <1>3, <1>4, <1>5

-----------------------------------------------------------------------------
(* The spans. *)
EndedType(Scores) == [id : SessionIDs, trace : TraceType(Scores)]

LEMMA TraceTypes ==
    ASSUME NEW Scores, TraceInvOf(Scores)
    PROVE  /\ ended \in Seq(EndedType(Scores)) /\ DOMAIN ended = 1 .. Len(ended) /\ Len(ended) \in Nat
           /\ spans \in [DOMAIN spans -> TraceType(Scores)] /\ DOMAIN spans \subseteq SessionIDs
           /\ DOMAIN analysed = 1 .. Len(analysed) /\ Len(analysed) \in Nat
           /\ \A i \in DOMAIN analysed :
                 /\ analysed[i].outcome \in Outcome(Scores)
                 /\ analysed[i].after \in Nat /\ analysed[i].after <= Len(ended)
<1>1. /\ ended \in Seq(EndedType(Scores)) /\ DOMAIN ended = 1 .. Len(ended) /\ Len(ended) \in Nat
      /\ spans \in [DOMAIN spans -> TraceType(Scores)] /\ DOMAIN spans \subseteq SessionIDs
  BY LenProperties DEF TraceInvOf, EndedType
<1>2. /\ analysed \in Seq([id : SessionIDs, outcome : Outcome(Scores), after : Nat])
      /\ \A i \in DOMAIN analysed : analysed[i].after <= Len(ended)
  BY DEF TraceInvOf
<1>3. /\ DOMAIN analysed = 1 .. Len(analysed) /\ Len(analysed) \in Nat
      /\ \A i \in DOMAIN analysed : analysed[i] \in [id : SessionIDs, outcome : Outcome(Scores), after : Nat]
  BY <1>2, LenProperties
<1> QED BY <1>1, <1>2, <1>3

(* What ending spans means for a session: nothing, or its open span is now
   among those that ended, after all that had ended before.                 *)
KeepsSpan(id) ==
    /\ EndedOf(id)' = EndedOf(id)
    /\ id \in DOMAIN spans' <=> id \in DOMAIN spans
    /\ id \in DOMAIN spans => spans'[id] = spans[id]
EndsSpan(id) ==
    /\ id \in DOMAIN spans /\ id \notin DOMAIN spans'
    /\ \E k \in DOMAIN ended' : /\ Len(ended) < k /\ EndedOf(id)' = EndedOf(id) \cup {k}
                                /\ ended'[k].trace = spans[id]
EndedStay(Scores) ==
    /\ ended' \in Seq(EndedType(Scores)) /\ Len(ended) <= Len(ended')
    /\ \A k \in 1 .. Len(ended) : ended'[k] = ended[k]

LEMMA CloseTraceEnds ==
    ASSUME NEW Scores, TraceInvOf(Scores), NEW c \in SessionIDs, Traces!CloseSession(c)
    PROVE  /\ UNCHANGED analysed /\ EndedStay(Scores)
           /\ spans' \in [DOMAIN spans' -> TraceType(Scores)] /\ DOMAIN spans' \subseteq DOMAIN spans
           /\ \A id \in SessionIDs : KeepsSpan(id) \/ (EndsSpan(id) /\ id = c)
<1> SUFFICES ASSUME NEW id \in SessionIDs
             PROVE  /\ UNCHANGED analysed /\ EndedStay(Scores)
                    /\ spans' \in [DOMAIN spans' -> TraceType(Scores)] /\ DOMAIN spans' \subseteq DOMAIN spans
                    /\ KeepsSpan(id) \/ (EndsSpan(id) /\ id = c)
  OBVIOUS
<1>1. /\ ended \in Seq(EndedType(Scores)) /\ DOMAIN ended = 1 .. Len(ended) /\ Len(ended) \in Nat
      /\ spans \in [DOMAIN spans -> TraceType(Scores)] /\ DOMAIN spans \subseteq SessionIDs
  BY TraceTypes
<1>2. /\ UNCHANGED analysed
      /\ spans' = [x \in DOMAIN spans \ {c} |-> spans[x]]
      /\ ended' = IF c \in DOMAIN spans THEN Append(ended, [id |-> c, trace |-> spans[c]]) ELSE ended
  BY DEF Traces!CloseSession, Traces!Restrict
<1>3. spans' \in [DOMAIN spans' -> TraceType(Scores)] /\ DOMAIN spans' = DOMAIN spans \ {c}
  BY <1>1, <1>2
<1>4. CASE c \notin DOMAIN spans
  <2>1. ended' = ended /\ EndedOf(id)' = EndedOf(id)
    BY <1>2, <1>4 DEF EndedOf
  <2> QED BY <1>1, <1>2, <1>3, <1>4, <2>1 DEF KeepsSpan, EndedStay
<1>5. CASE c \in DOMAIN spans
  <2> DEFINE e == [id |-> c, trace |-> spans[c]]
  <2>1. e \in EndedType(Scores) /\ e.id = c /\ e.trace = spans[c]
    BY <1>1, <1>5 DEF EndedType
  <2>2. ended' = Append(ended, e)
    BY <1>2, <1>5
  <2> HIDE DEF e
  <2>3. /\ ended' \in Seq(EndedType(Scores)) /\ Len(ended') = Len(ended) + 1
        /\ DOMAIN ended' = 1 .. (Len(ended) + 1)
        /\ \A k \in 1 .. Len(ended) : ended'[k] = ended[k]
        /\ ended'[Len(ended) + 1] = e
    BY <1>1, <2>1, <2>2, AppendProperties, LenProperties
  <2>4. EndedStay(Scores)
    BY <1>1, <2>3 DEF EndedStay
  <2>5. EndedOf(id)' = EndedOf(id) \cup (IF id = c THEN {Len(ended) + 1} ELSE {})
    BY <1>1, <2>1, <2>3 DEF EndedOf
  <2>6. CASE id = c
    <3>1. Len(ended) + 1 \in DOMAIN ended' /\ Len(ended) < Len(ended) + 1
      BY <1>1, <2>3
    <3> QED BY <1>2, <1>3, <1>5, <2>1, <2>3, <2>4, <2>5, <2>6, <3>1 DEF EndsSpan
  <2>7. CASE id # c
    BY <1>2, <1>3, <2>4, <2>5, <2>7 DEF KeepsSpan
  <2> QED BY <2>6, <2>7
<1> QED BY <1>4, <1>5

(* The cardinalities that the trace manager's module speaks of. *)
LEMMA SameCardinality == \A S : Traces!Cardinality(S) = Cardinality(S)
  BY DEF Traces!Cardinality, Cardinality

(* A sequence of all elements of a finite set has each of them once. *)
LEMMA OrderIsComplete ==
    ASSUME NEW S, IsFiniteSet(S), NEW order \in Traces!SetToSeqs(S)
    PROVE  /\ Cardinality(S) \in Nat /\ order \in [1 .. Cardinality(S) -> S]
           /\ \A i, j \in 1 .. Cardinality(S) : order[i] = order[j] => i = j
           /\ \A x \in S : \E i \in 1 .. Cardinality(S) : order[i] = x
<1> DEFINE n == Cardinality(S)
<1>1. n \in Nat
  BY FS_CardinalityType
<1>2. order \in [1 .. n -> S] /\ \A i, j \in 1 .. n : order[i] = order[j] => i = j
  BY SameCardinality DEF Traces!SetToSeqs
<1>3. order \in Injection(1 .. n, S)
  BY <1>2 DEF Injection, IsInjective
<1>4. Cardinality(1 .. n) = n
  BY <1>1, FS_Interval
<1> HIDE DEF n
<1>5. order \in Surjection(1 .. n, S)
  BY <1>3, <1>4, FS_Injection DEF n
<1>6. \A x \in S : \E i \in 1 .. n : order[i] = x
  BY <1>5 DEF Surjection
<1> QED BY <1>1, <1>2, <1>6 DEF n

LEMMA ShutdownEnds ==
    ASSUME NEW Scores, TraceInvOf(Scores), Traces!Shutdown
    PROVE  /\ UNCHANGED analysed /\ EndedStay(Scores)
           /\ DOMAIN spans' = {} /\ spans' \in [DOMAIN spans' -> TraceType(Scores)]
           /\ \A id \in SessionIDs : KeepsSpan(id) \/ EndsSpan(id)
<1> DEFINE n == Cardinality(DOMAIN spans)
<1>1. /\ ended \in Seq(EndedType(Scores)) /\ DOMAIN ended = 1 .. Len(ended) /\ Len(ended) \in Nat
      /\ spans \in [DOMAIN spans -> TraceType(Scores)] /\ DOMAIN spans \subseteq SessionIDs
  BY TraceTypes
<1>2. IsFiniteSet(DOMAIN spans)
  <2>1. IsFiniteSet(SessionIDs)
    BY FS_Interval, SessionsAssumption DEF SessionIDs
  <2> QED BY <1>1, <2>1, FS_Subset
<1>3. PICK order \in Traces!SetToSeqs(DOMAIN spans) :
         ended' = ended \o [i \in DOMAIN order |-> [id |-> order[i], trace |-> spans[order[i]]]]
  BY DEF Traces!Shutdown
<1>4. /\ n \in Nat /\ order \in [1 .. n -> DOMAIN spans]
      /\ \A i, j \in 1 .. n : order[i] = order[j] => i = j
      /\ \A x \in DOMAIN spans : \E i \in 1 .. n : order[i] = x
  BY <1>2, OrderIsComplete
<1> HIDE DEF n
<1> DEFINE closing == [i \in 1 .. n |-> [id |-> order[i], trace |-> spans[order[i]]]]
<1>5. /\ closing \in [1 .. n -> EndedType(Scores)]
      /\ \A i \in 1 .. n : closing[i].id = order[i] /\ closing[i].trace = spans[order[i]]
  BY <1>1, <1>4 DEF EndedType
<1>6. ended' = ended \o closing
  BY <1>3, <1>4
<1> HIDE DEF closing
<1>7. closing \in Seq(EndedType(Scores)) /\ Len(closing) = n
  BY <1>4, <1>5
<1>8. /\ ended' \in Seq(EndedType(Scores)) /\ Len(ended') = Len(ended) + n
      /\ DOMAIN ended' = 1 .. (Len(ended) + n)
      /\ \A k \in 1 .. (Len(ended) + n) :
            ended'[k] = IF k <= Len(ended) THEN ended[k] ELSE closing[k - Len(ended)]
  <2>1. /\ ended' \in Seq(EndedType(Scores)) /\ Len(ended') = Len(ended) + n
        /\ \A k \in 1 .. (Len(ended) + n) :
              ended'[k] = IF k <= Len(ended) THEN ended[k] ELSE closing[k - Len(ended)]
    BY <1>1, <1>6, <1>7, ConcatProperties
  <2>2. DOMAIN ended' = 1 .. Len(ended')
    BY <2>1
  <2> QED BY <2>1, <2>2
<1>9. EndedStay(Scores)
  BY <1>1, <1>4, <1>8 DEF EndedStay
<1>10. UNCHANGED analysed /\ DOMAIN spans' = {} /\ spans' \in [DOMAIN spans' -> TraceType(Scores)]
  BY DEF Traces!Shutdown
<1> SUFFICES ASSUME NEW id \in SessionIDs PROVE KeepsSpan(id) \/ EndsSpan(id)
  BY <1>9, <1>10
<1>11. CASE id \in DOMAIN spans
  <2>1. PICK i \in 1 .. n : order[i] = id
    BY <1>4, <1>11
  <2>2. EndedOf(id)' = EndedOf(id) \cup {Len(ended) + i}
    <3>1. ASSUME NEW k \in 1 .. (Len(ended) + n), k > Len(ended)
          PROVE  ended'[k].id = id <=> k = Len(ended) + i
      <4>1. k - Len(ended) \in 1 .. n /\ ended'[k] = closing[k - Len(ended)]
        BY <1>1, <1>4, <1>8, <3>1
      <4>2. ended'[k].id = order[k - Len(ended)]
        BY <1>5, <4>1
      <4>3. order[k - Len(ended)] = id <=> k - Len(ended) = i
        BY <1>4, <2>1, <4>1
      <4> QED BY <1>1, <4>2, <4>3
    <3>2. Len(ended) + i \in 1 .. (Len(ended) + n) /\ Len(ended) + i > Len(ended)
      BY <1>1, <1>4
    <3>3. \A k \in 1 .. Len(ended) : ended'[k] = ended[k]
      BY <1>9 DEF EndedStay
    <3> QED BY <1>1, <1>4, <1>8, <3>1, <3>2, <3>3 DEF EndedOf
  <2>3. /\ Len(ended) + i \in DOMAIN ended' /\ Len(ended) < Len(ended) + i
        /\ ended'[Len(ended) + i].trace = spans[id]
    BY <1>1, <1>4, <1>5, <1>8, <2>1
  <2> QED BY <1>9, <1>10, <1>11, <2>2, <2>3 DEF EndsSpan
<1>12. CASE id \notin DOMAIN spans
  <2>1. EndedOf(id)' = EndedOf(id)
    <3>1. ASSUME NEW k \in 1 .. (Len(ended) + n), k > Len(ended)
          PROVE  ended'[k].id # id
      <4>1. k - Len(ended) \in 1 .. n /\ ended'[k] = closing[k - Len(ended)]
        BY <1>1, <1>4, <1>8, <3>1
      <4> QED BY <1>4, <1>5, <1>12, <4>1
    <3>2. \A k \in 1 .. Len(ended) : ended'[k] = ended[k]
      BY <1>9 DEF EndedStay
    <3> QED BY <1>1, <1>4, <1>8, <3>1, <3>2 DEF EndedOf
  <2> QED BY <1>9, <1>10, <1>12, <2>1 DEF KeepsSpan
<1> QED BY <1>11, <1>12

(* What a session's spans show survives a close, a shutdown and an event. *)
LEMMA KeepsShow ==
    ASSUME NEW Scores, TraceInvOf(Scores), UNCHANGED analysed, EndedStay(Scores),
           NEW id, SpansShow(id), KeepsSpan(id)
    PROVE  SpansShow(id)'
<1>1. EndedOf(id) \subseteq 1 .. Len(ended) /\ \A k \in EndedOf(id) : ended'[k] = ended[k]
  BY LenProperties DEF TraceInvOf, EndedOf, EndedStay
<1>2. /\ \A k : EndedEvents(id, k)' = EndedEvents(id, k)
      /\ OpenEvents(id)' = OpenEvents(id) /\ EndedOf(id)' = EndedOf(id)
  BY DEF EndedEvents, OpenEvents, KeepsSpan
<1>3. \A trace, own : Shows(trace, own)' <=> Shows(trace, own)
  BY DEF Shows
<1>4. ASSUME NEW k \in EndedOf(id) PROVE Shows(ended[k].trace, EndedEvents(id, k))'
  BY <1>1, <1>2, <1>3 DEF SpansShow
<1>5. id \in DOMAIN spans => Shows(spans[id], OpenEvents(id))'
  BY <1>2, <1>3 DEF SpansShow, KeepsSpan
<1> QED BY <1>1, <1>2, <1>4, <1>5 DEF SpansShow, KeepsSpan

LEMMA EndsShow ==
    ASSUME NEW Scores, TraceInvOf(Scores), UNCHANGED analysed, EndedStay(Scores),
           NEW id, SpansShow(id), EndsSpan(id)
    PROVE  SpansShow(id)'
<1>1. EndedOf(id) \subseteq 1 .. Len(ended) /\ \A k \in EndedOf(id) : ended'[k] = ended[k]
  BY LenProperties DEF TraceInvOf, EndedOf, EndedStay
<1>2. PICK n \in DOMAIN ended' : /\ Len(ended) < n /\ EndedOf(id)' = EndedOf(id) \cup {n}
                                 /\ ended'[n].trace = spans[id]
  BY DEF EndsSpan
<1>3. /\ Len(ended) \in Nat /\ n \in Nat
      /\ \A i \in DOMAIN analysed : analysed[i].after \in Nat /\ analysed[i].after <= Len(ended)
  BY <1>2, TraceTypes, LenProperties DEF EndedStay
<1>4. \A k \in EndedOf(id) : EndedEvents(id, k)' = EndedEvents(id, k)
  <2> SUFFICES ASSUME NEW k \in EndedOf(id) PROVE EndedEvents(id, k)' = EndedEvents(id, k)
    OBVIOUS
  <2>1. \A j \in EndedOf(id)' : j < k => j \in EndedOf(id)
    BY <1>1, <1>2, <1>3
  <2>2. EndedOf(id) \subseteq EndedOf(id)'
    BY <1>2
  <2> QED BY <2>1, <2>2 DEF EndedEvents
<1>5. EndedEvents(id, n)' = OpenEvents(id)
  <2>1. \A j \in EndedOf(id)' : j < n => j \in EndedOf(id)
    BY <1>2, <1>3
  <2>2. \A j \in EndedOf(id) : j \in EndedOf(id)' /\ j < n
    BY <1>1, <1>2, <1>3
  <2>3. \A i \in DOMAIN analysed : analysed[i].after < n
    BY <1>2, <1>3
  <2> QED BY <2>1, <2>2, <2>3 DEF EndedEvents, OpenEvents
<1>6. OpenEvents(id)' = {}
  <2>1. \A i \in DOMAIN analysed : ~(n <= analysed[i].after)
    BY <1>2, <1>3
  <2>2. n \in EndedOf(id)'
    BY <1>2
  <2> QED BY <2>1, <2>2 DEF OpenEvents
<1>7. \A trace, own : Shows(trace, own)' <=> Shows(trace, own)
  BY DEF Shows
<1>8. ASSUME NEW k \in EndedOf(id) PROVE Shows(ended[k].trace, EndedEvents(id, k))'
  BY <1>1, <1>4, <1>7 DEF SpansShow
<1>9. Shows(ended[n].trace, EndedEvents(id, n))'
  BY <1>2, <1>5, <1>7 DEF SpansShow, EndsSpan
<1>10. \A k \in EndedOf(id)' : Shows(ended[k].trace, EndedEvents(id, k))'
  BY <1>2, <1>8, <1>9
<1>11. \A i \in DOMAIN analysed' : analysed'[i].id = id =>
          \E k \in EndedOf(id)' : i \in EndedEvents(id, k)'
  BY <1>2, <1>4, <1>5 DEF SpansShow
<1>12. id \notin DOMAIN spans'
  BY DEF EndsSpan
<1> QED BY <1>6, <1>10, <1>11, <1>12 DEF SpansShow

(* One more event of the session, after all spans that ended. *)
LEMMA Folded ==
    ASSUME NEW Scores, 0 \in Scores, NEW own, IsFiniteSet(own), NEW n \in Nat, n \notin own,
           n \in DOMAIN analysed', \A i \in own : i \in Nat /\ i <= n,
           own \subseteq DOMAIN analysed, \A i \in own : analysed'[i] = analysed[i],
           NEW outcome \in Outcome(Scores), analysed'[n].outcome = outcome,
           \A i \in own : analysed[i].outcome \in Outcome(Scores),
           NEW trace, \/ trace \in TraceType(Scores) /\ Shows(trace, own)
                      \/ trace = Traces!NewTrace /\ own = {}
    PROVE  /\ Traces!observe(trace, outcome) \in TraceType(Scores)
           /\ Shows(Traces!observe(trace, outcome), own \cup {n})'
<1> DEFINE more == Traces!observe(trace, outcome)
<1>1. /\ Cardinality(own) \in Nat /\ Cardinality(own \cup {n}) = Cardinality(own) + 1
      /\ own = {} => Cardinality(own) = 0
  BY FS_CardinalityType, FS_AddElement, FS_EmptySet
<1>2. /\ trace \in TraceType(Scores) /\ trace.acceptedEvents = Cardinality(own)
      /\ own = {} \/ \E i \in own : trace.finalAction = analysed'[i].outcome.action
      /\ \A i \in own : Traces!Severity[analysed'[i].outcome.action]
                           <= Traces!Severity[trace.finalAction]
      /\ trace.auditEmitted <=> \E i \in own : analysed'[i].outcome.audit
      /\ trace.alertEmitted <=> \E i \in own : analysed'[i].outcome.alert
  <2>1. CASE trace = Traces!NewTrace /\ own = {}
    BY <1>1, <2>1 DEF Traces!NewTrace, TraceType, Traces!Severity
  <2>2. CASE trace \in TraceType(Scores) /\ Shows(trace, own)
    BY <2>2 DEF Shows
  <2> QED BY <2>1, <2>2
<1>3. /\ outcome.action \in DOMAIN Traces!Severity /\ outcome.score \in Scores
      /\ outcome.audit \in BOOLEAN /\ outcome.alert \in BOOLEAN
      /\ \A i \in own : analysed'[i].outcome.action \in DOMAIN Traces!Severity
  BY DEF Outcome, Decision!Actions, Traces!Severity
<1>4. \A a \in DOMAIN Traces!Severity : Traces!Severity[a] \in Nat
  BY DEF Traces!Severity
<1>5. Traces!Severity["none"] = 0 /\ Traces!Severity[outcome.action] > 0
  BY DEF Outcome, Decision!Actions, Traces!Severity
<1>6. own = {} => trace.finalAction = "none"
  BY DEF Shows, Traces!NewTrace
<1>7. /\ trace.finalAction \in DOMAIN Traces!Severity /\ trace.acceptedEvents \in Nat
      /\ trace.auditEmitted \in BOOLEAN /\ trace.alertEmitted \in BOOLEAN
  BY <1>2 DEF TraceType
<1>8. /\ more.acceptedEvents = trace.acceptedEvents + 1
      /\ more.finalScore = outcome.score
      /\ more.finalAction = IF Traces!Severity[outcome.action] > Traces!Severity[trace.finalAction]
                            THEN outcome.action ELSE trace.finalAction
      /\ more.auditEmitted = (trace.auditEmitted \/ outcome.audit)
      /\ more.alertEmitted = (trace.alertEmitted \/ outcome.alert)
  BY DEF Traces!observe, Traces!maxAction
<1>9. more \in TraceType(Scores)
  BY <1>3, <1>7 DEF TraceType, Traces!observe, Traces!maxAction
<1> HIDE DEF more
<1>10. more.acceptedEvents = Cardinality(own \cup {n})
  BY <1>1, <1>2, <1>8
<1>14. \E i \in own \cup {n} : /\ \A j \in own \cup {n} : j <= i
                               /\ more.finalScore = analysed'[i].outcome.score
  BY <1>8
<1>11. \E i \in own \cup {n} : more.finalAction = analysed'[i].outcome.action
  BY <1>2, <1>5, <1>6, <1>8
<1>12. \A i \in own \cup {n} : Traces!Severity[analysed'[i].outcome.action]
                                 <= Traces!Severity[more.finalAction]
  BY <1>2, <1>3, <1>4, <1>7, <1>8
<1>13. /\ more.auditEmitted <=> \E i \in own \cup {n} : analysed'[i].outcome.audit
       /\ more.alertEmitted <=> \E i \in own \cup {n} : analysed'[i].outcome.alert
  BY <1>2, <1>8
<1> QED BY <1>9, <1>10, <1>11, <1>12, <1>13, <1>14 DEF Shows, more

LEMMA Analysed ==
    ASSUME NEW Scores, TraceInvOf(Scores), NEW p \in SessionIDs, NEW outcome \in Outcome(Scores),
           Traces!RecordAnalysis(p, outcome)
    PROVE  /\ UNCHANGED ended
           /\ analysed' \in Seq([id : SessionIDs, outcome : Outcome(Scores), after : Nat])
           /\ DOMAIN analysed' = 1 .. (Len(analysed) + 1)
           /\ \A i \in DOMAIN analysed : analysed'[i] = analysed[i]
           /\ analysed'[Len(analysed) + 1] = [id |-> p, outcome |-> outcome, after |-> Len(ended)]
<1> DEFINE Call == [id : SessionIDs, outcome : Outcome(Scores), after : Nat]
           call == [id |-> p, outcome |-> outcome, after |-> Len(ended)]
<1>1. analysed' = Append(analysed, call) /\ UNCHANGED ended
  BY DEF Traces!RecordAnalysis
<1>2. analysed \in Seq(Call) /\ call \in Call
  BY TraceTypes DEF TraceInvOf
<1> HIDE DEF Call, call
<1>3. /\ analysed' \in Seq(Call) /\ Len(analysed') = Len(analysed) + 1
      /\ \A i \in 1 .. Len(analysed) : analysed'[i] = analysed[i]
      /\ analysed'[Len(analysed) + 1] = call
  BY <1>1, <1>2, AppendProperties
<1>4. DOMAIN analysed' = 1 .. Len(analysed') /\ DOMAIN analysed = 1 .. Len(analysed)
  BY <1>2, <1>3, LenProperties
<1> QED BY <1>1, <1>3, <1>4 DEF Call, call

LEMMA AnalysisShow ==
    ASSUME NEW Scores, TraceInvOf(Scores), Enabled,
           NEW p \in SessionIDs, NEW outcome \in Outcome(Scores),
           Traces!RecordAnalysis(p, outcome), NEW id \in SessionIDs
    PROVE  SpansShow(id)'
<1>0. PICK n : n = Len(analysed) + 1
  OBVIOUS
<1>1. /\ DOMAIN analysed = 1 .. Len(analysed) /\ Len(analysed) \in Nat
      /\ DOMAIN analysed' = DOMAIN analysed \cup {n} /\ n \notin DOMAIN analysed
      /\ \A i \in DOMAIN analysed : analysed'[i] = analysed[i]
      /\ analysed'[n].id = p /\ analysed'[n].outcome = outcome /\ analysed'[n].after = Len(ended)
  <2>1. DOMAIN analysed = 1 .. Len(analysed) /\ Len(analysed) \in Nat
    BY TraceTypes
  <2>2. /\ DOMAIN analysed' = 1 .. (Len(analysed) + 1)
        /\ \A i \in DOMAIN analysed : analysed'[i] = analysed[i]
        /\ analysed'[n] = [id |-> p, outcome |-> outcome, after |-> Len(ended)]
    BY <1>0, Analysed
  <2>3. DOMAIN analysed' = DOMAIN analysed \cup {n} /\ n \notin DOMAIN analysed
    BY <1>0, <2>1, <2>2
  <2>4. analysed'[n].id = p /\ analysed'[n].outcome = outcome /\ analysed'[n].after = Len(ended)
    BY <2>2
  <2> QED BY <2>1, <2>2, <2>3, <2>4
<1>2. UNCHANGED ended /\ EndedOf(id)' = EndedOf(id)
  BY Analysed DEF EndedOf
<1>3. EndedOf(id) \subseteq 1 .. Len(ended) /\ Len(ended) \in Nat
  BY TraceTypes DEF EndedOf
<1>4. \A k \in EndedOf(id) : EndedEvents(id, k)' = EndedEvents(id, k)
  <2> SUFFICES ASSUME NEW k \in EndedOf(id) PROVE EndedEvents(id, k)' = EndedEvents(id, k)
    OBVIOUS
  <2>1. ~(analysed'[n].after < k)
    BY <1>1, <1>3
  <2> QED BY <1>1, <1>2, <2>1 DEF EndedEvents
<1>5. OpenEvents(id)' = OpenEvents(id) \cup (IF id = p THEN {n} ELSE {})
  <2>1. \A j \in EndedOf(id) : j <= analysed'[n].after
    BY <1>1, <1>3
  <2> QED BY <1>1, <1>2, <2>1 DEF OpenEvents
<1>6. ASSUME NEW trace, NEW own, own \subseteq DOMAIN analysed, Shows(trace, own)
      PROVE  Shows(trace, own)'
  BY <1>1, <1>6 DEF Shows
<1>7. /\ \A k \in EndedOf(id) : Shows(ended[k].trace, EndedEvents(id, k))
      /\ IF id \in DOMAIN spans THEN Shows(spans[id], OpenEvents(id)) ELSE OpenEvents(id) = {}
      /\ \A i \in DOMAIN analysed : analysed[i].id = id =>
            i \in OpenEvents(id) \/ \E k \in EndedOf(id) : i \in EndedEvents(id, k)
  BY DEF TraceInvOf, SpansShow
<1>8. ASSUME NEW k \in EndedOf(id) PROVE Shows(ended[k].trace, EndedEvents(id, k))'
  <2>1. EndedEvents(id, k) \subseteq DOMAIN analysed
    BY DEF EndedEvents
  <2> QED BY <1>2, <1>4, <1>6, <1>7, <2>1
<1>9. \A i \in DOMAIN analysed' : analysed'[i].id = id =>
            i \in OpenEvents(id)' \/ \E k \in EndedOf(id)' : i \in EndedEvents(id, k)'
  BY <1>1, <1>2, <1>4, <1>5, <1>7
<1>10. /\ DOMAIN spans' = DOMAIN spans \cup {p}
       /\ spans'[p] = Traces!observe(Traces!TraceOf(p), outcome)
       /\ \A other \in DOMAIN spans : other # p => spans'[other] = spans[other]
  BY DEF Traces!RecordAnalysis
<1>11. OpenEvents(id) \subseteq DOMAIN analysed /\ IsFiniteSet(OpenEvents(id))
  <2>1. OpenEvents(id) \subseteq DOMAIN analysed
    BY DEF OpenEvents
  <2>2. IsFiniteSet(DOMAIN analysed)
    BY <1>1, FS_Interval
  <2> QED BY <2>1, <2>2, FS_Subset
<1>12. CASE id = p
  <2>1. PICK trace, own : trace = Traces!TraceOf(p) /\ own = OpenEvents(id)
    OBVIOUS
  <2>2. \/ trace \in TraceType(Scores) /\ Shows(trace, own)
        \/ trace = Traces!NewTrace /\ own = {}
    BY <1>7, <1>12, <2>1, TraceTypes DEF Traces!TraceOf
  <2>3. Shows(Traces!observe(trace, outcome), own \cup {n})'
    <3>1. \A i \in own : analysed[i].outcome \in Outcome(Scores)
      BY <1>11, <2>1, TraceTypes
    <3>2. n \in Nat /\ (\A i \in own : i \in Nat /\ i <= n) /\ 0 \in Scores
      BY <1>0, <1>1, <1>11, <2>1 DEF TraceInvOf
    <3> QED BY <1>1, <1>11, <2>1, <2>2, <3>1, <3>2, Folded
  <2>4. spans'[id] = Traces!observe(trace, outcome) /\ OpenEvents(id)' = own \cup {n}
    BY <1>5, <1>10, <1>12, <2>1
  <2>5. Shows(spans[id], OpenEvents(id))'
    BY <2>3, <2>4
  <2> QED BY <1>2, <1>8, <1>9, <1>10, <1>12, <2>5 DEF SpansShow
<1>13. CASE id # p
  <2>1. id \in DOMAIN spans => Shows(spans[id], OpenEvents(id))'
    BY <1>5, <1>6, <1>7, <1>10, <1>11, <1>13
  <2> QED BY <1>2, <1>5, <1>7, <1>8, <1>9, <1>10, <1>13, <2>1 DEF SpansShow
<1> QED BY <1>12, <1>13

LEMMA TraceTypesKeep ==
    ASSUME NEW Scores, TraceInvOf(Scores), UNCHANGED analysed, EndedStay(Scores),
           spans' \in [DOMAIN spans' -> TraceType(Scores)], DOMAIN spans' \subseteq DOMAIN spans,
           \A id \in SessionIDs : KeepsSpan(id) \/ EndsSpan(id)
    PROVE  TraceInvOf(Scores)'
<1>1. ended' \in Seq([id : SessionIDs, trace : TraceType(Scores)]) /\ Len(ended) <= Len(ended')
      /\ Len(ended') \in Nat
  BY LenProperties DEF EndedStay, EndedType
<1>2. \A i \in DOMAIN analysed' : analysed'[i].after <= Len(ended')
  BY <1>1, TraceTypes
<1>3. ASSUME Enabled, NEW id \in SessionIDs PROVE SpansShow(id)'
  BY <1>3, KeepsShow, EndsShow DEF TraceInvOf
<1>4. ~Enabled => DOMAIN spans' = {} /\ \A id \in SessionIDs : EndedOf(id)' = {}
  BY DEF TraceInvOf, KeepsSpan, EndsSpan
<1>5. DOMAIN spans' \subseteq SessionIDs
      /\ analysed' \in Seq([id : SessionIDs, outcome : Outcome(Scores), after : Nat])
  BY DEF TraceInvOf
<1> QED BY <1>1, <1>2, <1>3, <1>4, <1>5 DEF TraceInvOf

LEMMA AnalysisKeeps ==
    ASSUME NEW Scores, TraceInvOf(Scores), NEW p \in SessionIDs, NEW outcome \in Outcome(Scores),
           Traces!RecordAnalysis(p, outcome)
    PROVE  TraceInvOf(Scores)'
<1>1. /\ UNCHANGED ended
      /\ analysed' \in Seq([id : SessionIDs, outcome : Outcome(Scores), after : Nat])
      /\ DOMAIN analysed' = 1 .. (Len(analysed) + 1)
      /\ \A i \in DOMAIN analysed : analysed'[i] = analysed[i]
      /\ analysed'[Len(analysed) + 1] = [id |-> p, outcome |-> outcome, after |-> Len(ended)]
  BY Analysed
<1>2. /\ ended \in Seq(EndedType(Scores)) /\ Len(ended) \in Nat
      /\ spans \in [DOMAIN spans -> TraceType(Scores)] /\ DOMAIN spans \subseteq SessionIDs
      /\ DOMAIN analysed = 1 .. Len(analysed) /\ Len(analysed) \in Nat
      /\ \A i \in DOMAIN analysed : analysed[i].after <= Len(ended)
  BY TraceTypes
<1>3. \A i \in DOMAIN analysed' : analysed'[i].after <= Len(ended')
  <2>1. \A i \in DOMAIN analysed' : i \in DOMAIN analysed \/ i = Len(analysed) + 1
    BY <1>1, <1>2
  <2>2. analysed'[Len(analysed) + 1].after <= Len(ended')
    BY <1>1, <1>2
  <2> QED BY <1>1, <1>2, <2>1, <2>2
<1>4. ASSUME Enabled, NEW id \in SessionIDs PROVE SpansShow(id)'
  BY <1>4, AnalysisShow
<1>5. DOMAIN spans' \subseteq SessionIDs /\ spans' \in [DOMAIN spans' -> TraceType(Scores)]
  <2>1. CASE ~Enabled
    BY <1>2, <2>1 DEF Traces!RecordAnalysis
  <2>2. CASE Enabled
    <3> DEFINE more == Traces!observe(Traces!TraceOf(p), outcome)
    <3>1. Traces!TraceOf(p) \in TraceType(Scores)
      BY <1>2 DEF TraceInvOf, Traces!TraceOf, Traces!NewTrace, TraceType, Traces!Severity
    <3>2. more \in TraceType(Scores)
      BY <3>1 DEF Traces!observe, Traces!maxAction, TraceType, Outcome, Decision!Actions,
                  Traces!Severity
    <3>3. spans' = [other \in DOMAIN spans \cup {p} |->
                       IF other = p THEN more ELSE spans[other]]
      BY <2>2 DEF Traces!RecordAnalysis
    <3> HIDE DEF more
    <3> QED BY <1>2, <3>2, <3>3
  <2> QED BY <2>1, <2>2
<1>6. ~Enabled => DOMAIN spans' = {} /\ \A id \in SessionIDs : EndedOf(id)' = {}
  BY <1>1 DEF TraceInvOf, Traces!RecordAnalysis, EndedOf
<1> QED BY <1>1, <1>2, <1>3, <1>4, <1>5, <1>6 DEF TraceInvOf, EndedType

(* The set of the scores may be taken larger. *)
LEMMA MoreScores ==
    ASSUME NEW Scores, TraceInvOf(Scores), NEW More, Scores \subseteq More
    PROVE  TraceInvOf(More)
<1>1. PICK A, B : /\ A = [id : SessionIDs, trace : TraceType(Scores)]
                  /\ B = [id : SessionIDs, trace : TraceType(More)]
  OBVIOUS
<1>2. PICK C, D : /\ C = [id : SessionIDs, outcome : Outcome(Scores), after : Nat]
                  /\ D = [id : SessionIDs, outcome : Outcome(More), after : Nat]
  OBVIOUS
<1>3. TraceType(Scores) \subseteq TraceType(More) /\ Outcome(Scores) \subseteq Outcome(More)
  BY DEF TraceType, Outcome
<1>4. A \subseteq B /\ C \subseteq D
  BY <1>1, <1>2, <1>3
<1>5. ended \in Seq(A) /\ analysed \in Seq(C)
  BY <1>1, <1>2 DEF TraceInvOf
<1>6. ended \in Seq(B) /\ analysed \in Seq(D)
  BY <1>4, <1>5, SeqMonotonic
<1>7. spans \in [DOMAIN spans -> TraceType(More)]
  BY <1>3 DEF TraceInvOf
<1> QED BY <1>1, <1>2, <1>6, <1>7 DEF TraceInvOf

LEMMA TraceKeeps ==
    ASSUME PlaceInv, JanitorInv, TraceInv, [Next]_vars
    PROVE  TraceInv'
<1>0. PICK Known : TraceInvOf(Known)
  BY DEF TraceInv
<1>5. PICK Scores : Scores = Known \cup {pipeline.score}
  OBVIOUS
<1>6. TraceInvOf(Scores)
  BY <1>0, <1>5, MoreScores
<1> SUFFICES TraceInvOf(Scores)'
  BY DEF TraceInv
<1>1. CASE Trace
  <2>1. PICK p, outcome : /\ p = pipeline.id
                          /\ outcome = [score |-> pipeline.score, action |-> pipeline.action,
                                        audit |-> pipeline.audit, alert |-> pipeline.alert]
    OBVIOUS
  <2>2. p \in SessionIDs /\ outcome \in Outcome(Scores)
    BY <1>1, <1>5, <2>1 DEF Trace, PlaceInv, Outcome
  <2>3. Traces!RecordAnalysis(p, outcome)
    BY <1>1, <2>1 DEF Trace
  <2> QED BY <1>6, <2>2, <2>3, AnalysisKeeps
<1>2. CASE CloseTrace
  <2>1. PICK c \in SessionIDs : c = ClosingIn(janitor)
    BY <1>2, ClosingIsOne DEF CloseTrace, JanitorInv
  <2>2. Traces!CloseSession(c)
    BY <1>2, <2>1 DEF CloseTrace
  <2>3. /\ UNCHANGED analysed /\ EndedStay(Scores)
        /\ spans' \in [DOMAIN spans' -> TraceType(Scores)] /\ DOMAIN spans' \subseteq DOMAIN spans
        /\ \A id \in SessionIDs : KeepsSpan(id) \/ EndsSpan(id)
    BY <1>6, <2>1, <2>2, CloseTraceEnds
  <2> QED BY <1>6, <2>3, TraceTypesKeep
<1>3. CASE ShutdownTraces
  <2>1. Traces!Shutdown
    BY <1>3 DEF ShutdownTraces
  <2>2. DOMAIN spans' \subseteq DOMAIN spans
    BY <1>6, <2>1, ShutdownEnds
  <2> QED BY <1>6, <2>1, <2>2, ShutdownEnds, TraceTypesKeep
<1>4. CASE ~Trace /\ ~CloseTrace /\ ~ShutdownTraces
  <2>1. UNCHANGED <<spans, ended, analysed>>
    BY <1>4, TraceFrame DEF traceVars
  <2>2. \A id \in SessionIDs : KeepsSpan(id)
    BY <2>1 DEF KeepsSpan, EndedOf
  <2>3. EndedStay(Scores)
    BY <1>6, <2>1, TraceTypes DEF EndedStay
  <2>4. spans' \in [DOMAIN spans' -> TraceType(Scores)] /\ DOMAIN spans' \subseteq DOMAIN spans
    BY <1>6, <2>1, TraceTypes
  <2> QED BY <1>6, <2>1, <2>2, <2>3, <2>4, TraceTypesKeep
<1> QED BY <1>1, <1>2, <1>3, <1>4

(* A span of a session ends when its close-out gets to the trace manager, and
   at the shutdown.                                                         *)
LEMMA EndedSteps ==
    ASSUME JanitorInv, NEW Scores, TraceInvOf(Scores), [Next]_vars, NEW id \in SessionIDs
    PROVE  /\ EndedOf(id)' \subseteq Nat
           /\ \/ EndedOf(id)' = EndedOf(id)
              \/ \E k \in Nat : /\ EndedOf(id)' = EndedOf(id) \cup {k}
                                /\ ShutdownTraces \/ (CloseTrace /\ id = ClosingIn(janitor))
<1>1. EndedOf(id) \subseteq Nat
  BY TraceTypes DEF EndedOf
<1>2. CASE CloseTrace
  <2>1. PICK c \in SessionIDs : c = ClosingIn(janitor)
    BY <1>2, ClosingIsOne DEF CloseTrace, JanitorInv
  <2>2. Traces!CloseSession(c)
    BY <1>2, <2>1 DEF CloseTrace
  <2>3. EndedStay(Scores) /\ (KeepsSpan(id) \/ (EndsSpan(id) /\ id = c))
    BY <2>2, CloseTraceEnds
  <2>4. DOMAIN ended' \subseteq Nat
    BY <2>3, LenProperties DEF EndedStay
  <2> QED BY <1>1, <1>2, <2>1, <2>3, <2>4 DEF KeepsSpan, EndsSpan
<1>3. CASE ShutdownTraces
  <2>1. EndedStay(Scores) /\ (KeepsSpan(id) \/ EndsSpan(id))
    BY <1>3, ShutdownEnds DEF ShutdownTraces
  <2>2. DOMAIN ended' \subseteq Nat
    BY <2>1, LenProperties DEF EndedStay
  <2> QED BY <1>1, <1>3, <2>1, <2>2 DEF KeepsSpan, EndsSpan
<1>4. CASE ~CloseTrace /\ ~ShutdownTraces
  <2>1. UNCHANGED ended
    BY <1>4, TraceFrame DEF Trace, Traces!RecordAnalysis, traceVars
  <2> QED BY <1>1, <2>1 DEF EndedOf
<1> QED BY <1>2, <1>3, <1>4

LEMMA SpanKeeps ==
    ASSUME TrackerInv, MainInv, JanitorInv, MonitorInv, TraceInv, SpanInv, [Next]_vars
    PROVE  SpanInv'
<1>0. PICK Scores : TraceInvOf(Scores)
  BY DEF TraceInv
<1>1. Traced' = Traced \cup (IF CloseTrace THEN {ClosingIn(janitor)} ELSE {})
  BY TracedSteps
<1>2. CloseTrace => main # "exited" /\ ClosingIn(janitor) \notin Traced
  BY RecordedAreEnded DEF CloseTrace, Alive
<1>3. ShutdownTraces => main = "closing" /\ main' = "exited" /\ DOMAIN spans' = {}
  BY <1>0, ShutdownEnds DEF ShutdownTraces
<1>4. ~ShutdownTraces => (main' = "exited" <=> main = "exited")
  BY MainFrame DEF CloseBegins
<1>5. main' = "exited" => DOMAIN spans' = {}
  <2>1. CASE ShutdownTraces
    BY <1>3, <2>1
  <2>2. CASE ~ShutdownTraces
    <3> SUFFICES ASSUME main = "exited" PROVE DOMAIN spans' = {}
      BY <1>4, <2>2
    <3>1. ~CloseTrace /\ ~Trace
      BY <1>2 DEF Trace, MainInv
    <3>2. UNCHANGED spans
      BY <2>2, <3>1, TraceFrame DEF traceVars
    <3> QED BY <3>2 DEF SpanInv
  <2> QED BY <2>1, <2>2
<1>6. ASSUME main' # "exited", NEW id \in SessionIDs
      PROVE  /\ \A i, j \in EndedOf(id)' : i = j
             /\ id \notin Traced' => EndedOf(id)' = {}
  <2>1. /\ \A i, j \in EndedOf(id) : i = j
        /\ id \notin Traced => EndedOf(id) = {}
    BY <1>3, <1>4, <1>6 DEF SpanInv
  <2>2. CASE EndedOf(id)' = EndedOf(id)
    BY <1>1, <2>1, <2>2
  <2>3. ASSUME NEW k \in Nat, EndedOf(id)' = EndedOf(id) \cup {k}, CloseTrace,
               id = ClosingIn(janitor)
        PROVE  /\ \A i, j \in EndedOf(id)' : i = j
               /\ id \in Traced'
    BY <1>1, <1>2, <2>1, <2>3
  <2> QED BY <1>0, <1>3, <1>6, <2>2, <2>3, EndedSteps
<1>7. ASSUME NEW id \in SessionIDs
      PROVE  \E i, j \in Nat : EndedOf(id)' \subseteq {i, j}
  <2>1. CASE EndedOf(id)' = EndedOf(id)
    BY <2>1 DEF SpanInv
  <2>2. CASE EndedOf(id)' # EndedOf(id)
    <3>1. PICK k \in Nat : /\ EndedOf(id)' = EndedOf(id) \cup {k}
                           /\ ShutdownTraces \/ (CloseTrace /\ id = ClosingIn(janitor))
      BY <1>0, <2>2, EndedSteps
    <3>2. \A i, j \in EndedOf(id) : i = j
      BY <1>2, <1>3, <3>1 DEF SpanInv
    <3>3. EndedOf(id) \subseteq Nat
      BY <1>0, TraceTypes DEF EndedOf
    <3>4. CASE EndedOf(id) = {}
      BY <3>1, <3>4
    <3>5. CASE EndedOf(id) # {}
      <4>1. PICK i \in EndedOf(id) : EndedOf(id) \subseteq {i}
        BY <3>2, <3>5
      <4> QED BY <3>1, <3>3, <4>1
    <3> QED BY <3>4, <3>5
  <2> QED BY <2>1, <2>2
<1> QED BY <1>5, <1>6, <1>7 DEF SpanInv

-----------------------------------------------------------------------------
(* The ids in the context manager. *)
LEMMA HeldIsGiven ==
    ASSUME PlaceInv, [Next]_vars, pipeline'.at \notin {"receive", "lookup"}
    PROVE  \/ pipeline.at \notin {"receive", "lookup"} /\ pipeline'.id = pipeline.id
           \/ pipeline'.id \in DOMAIN sessions
<1>1. CASE OutOfTree \/ Trace
  BY <1>1 DEF OutOfTree, Trace, Receiving
<1>2. CASE Receive
  <2>1. pipeline'.at = "lookup"
    BY <1>2 DEF Receive, PlaceInv
  <2> QED BY <2>1
<1>3. CASE Lookup
  BY <1>3, LookupFinds
<1>4. CASE Observe \/ Snapshot \/ Match \/ Score
  BY <1>4 DEF Observe, Snapshot, Match, Score, PlaceInv
<1>5. CASE Record
  BY <1>5, RecordMoves DEF PlaceInv
<1>6. CASE ~PipelineStep
  BY <1>6, PipelineFrame
<1> QED BY <1>1, <1>2, <1>3, <1>4, <1>5, <1>6 DEF PipelineStep

LEMMA GivenKeeps ==
    ASSUME TrackerInv, PlaceInv, MonitorInv, GivenInv, [Next]_vars
    PROVE  GivenInv'
<1>1. /\ nextSessionID \in Nat /\ nextSessionID' \in {nextSessionID, nextSessionID + 1}
      /\ DOMAIN sessions \subseteq 1 .. (nextSessionID - 1)
  BY StepIds, SessionsAssumption DEF TrackerInv, IdsStep
<1>2. pipeline.id \in Nat /\ DOMAIN contexts \subseteq Nat /\ DOMAIN contexts' \subseteq Nat
  BY ContextsGrow DEF PlaceInv, MonitorInv, SessionIDs
<1>3. pipeline'.at \notin {"receive", "lookup"} => pipeline'.id < nextSessionID'
  BY <1>1, <1>2, HeldIsGiven DEF GivenInv
<1>4. ASSUME NEW id \in DOMAIN contexts' PROVE id < nextSessionID'
  <2>1. id \in DOMAIN contexts \/ (Observe /\ id = pipeline.id)
    BY ContextsGrow
  <2>2. id < nextSessionID
    BY <2>1 DEF GivenInv, Observe
  <2> QED BY <1>1, <1>2, <2>2
<1> QED BY <1>3, <1>4 DEF GivenInv

-----------------------------------------------------------------------------
(* The invariant. *)
LEMMA InitIInv == Init => IInv
<1> SUFFICES ASSUME Init PROVE IInv
  OBVIOUS
<1>1. /\ DOMAIN sessions = {} /\ nextSessionID = 1 /\ DOMAIN endLog = {} /\ handed = {}
      /\ matching = {} /\ DOMAIN results = {} /\ DOMAIN states = {}
  BY DEF Init, Tracker!Init, Decision!Init
<1>2. /\ monitored = {} /\ rawSessions = << >> /\ writerErr = FALSE /\ closed = FALSE
      /\ closer = "idle" /\ sessionLog = << >> /\ contexts = << >>
      /\ spans = << >> /\ ended = << >> /\ analysed = << >>
  BY DEF Init, Monitor!Init, Traces!Init
<1>3. /\ pipeline = Receiving /\ janitor = Sweeping /\ main = "running"
      /\ late = [id \in SessionIDs |-> 0] /\ scored = [p \in SessionIDs \X Rules |-> 0]
  BY DEF Init
<1>4. NoRaw \in RawType
  BY DEF NoRaw, RawType
<1>5. TrackerInv
  BY <1>1, SessionsAssumption DEF TrackerInv
<1>6. LateInv
  BY <1>1, <1>3 DEF LateInv, Receiving
<1>7. PlaceInv /\ GivenInv /\ MainInv /\ MatchInv
  <2>1. PlaceInv
    BY <1>3, <1>4 DEF PlaceInv, Receiving, Places, Decision!Actions
  <2>2. GivenInv
    BY <1>2, <1>3 DEF GivenInv, Receiving
  <2>3. MainInv /\ MatchInv
    BY <1>1, <1>2, <1>3 DEF MainInv, MatchInv, Receiving
  <2> QED BY <2>1, <2>2, <2>3
<1>8. JanitorInv /\ Traced = {} /\ Recorded = {} /\ Done = {}
  BY <1>1, <1>3, <1>4 DEF JanitorInv, Sweeping, JanitorPlaces, Traced, Recorded, Done
<1>9. RecordInv
  BY <1>2, <1>8 DEF RecordInv, ClosedRecords, Monitor!RecordsOf
<1>10. \A id \in SessionIDs : EndedOf(id) = {}
  BY <1>2 DEF EndedOf
<1>11. SpanInv
  BY <1>2, <1>3, <1>10 DEF SpanInv
<1>12. AccountInv
  <2>1. scored \in [SessionIDs \X Rules -> Nat]
    BY <1>3
  <2>2. \A id \in SessionIDs, r \in Rules : scored[<<id, r>>] = 0
    BY <1>3
  <2> QED BY <1>1, <2>1, <2>2 DEF AccountInv
<1>13. MonitorInv
  BY <1>2 DEF MonitorInv
<1>14. LagInv
  BY <1>2, <1>3 DEF LagInv, Receiving, Sweeping
<1>15. TraceInvOf({0})
  <2>1. \A id \in SessionIDs : SpansShow(id)
    BY <1>2, <1>10 DEF SpansShow, OpenEvents
  <2> QED BY <1>2, <1>10, <2>1 DEF TraceInvOf
<1> QED BY <1>5, <1>6, <1>7, <1>8, <1>9, <1>11, <1>12, <1>13, <1>14, <1>15 DEF IInv, TraceInv

LEMMA NextIInv == IInv /\ [Next]_vars => IInv'
<1> SUFFICES ASSUME IInv, [Next]_vars PROVE IInv'
  OBVIOUS
<1>1. PlaceInv'
  BY PlaceKeeps
<1>2. /\ TrackerInv /\ LateInv /\ PlaceInv /\ GivenInv /\ MainInv /\ MatchInv /\ JanitorInv
      /\ RecordInv /\ SpanInv /\ AccountInv /\ MonitorInv /\ LagInv /\ TraceInv
  BY DEF IInv
<1>3. TrackerInv' /\ LateInv' /\ GivenInv'
  BY <1>2, StepIds, TrackerKeeps, LateKeeps, GivenKeeps
<1>4. MainInv' /\ MatchInv' /\ JanitorInv'
  BY <1>2, MainKeeps, MatchKeeps, JanitorKeeps
<1>5. RecordInv' /\ SpanInv' /\ AccountInv'
  BY <1>2, RecordKeeps, SpanKeeps, AccountKeeps
<1>6. MonitorInv' /\ LagInv' /\ TraceInv'
  BY <1>2, MonitorKeeps, LagKeeps, TraceKeeps
<1> QED BY <1>1, <1>3, <1>4, <1>5, <1>6 DEF IInv

LEMMA Invariant == Spec => []IInv
  BY InitIInv, NextIInv, PTL DEF Spec

-----------------------------------------------------------------------------
(* What the spans of a session show of its events. *)
LEMMA OwnIsEnded ==
    ASSUME NEW Scores, TraceInvOf(Scores), NEW id \in SessionIDs
    PROVE  /\ Traces!SpansOf(id) =
                EndedOf(id) \cup (IF id \in DOMAIN spans THEN {Len(ended) + 1} ELSE {})
           /\ \A k \in EndedOf(id) : /\ Traces!OwnEvents(id, k) = EndedEvents(id, k)
                                     /\ Traces!SpanAt(id, k) = ended[k].trace
                                     /\ ended[k].trace \in TraceType(Scores)
           /\ id \in DOMAIN spans =>
                /\ Traces!OwnEvents(id, Len(ended) + 1) = OpenEvents(id)
                /\ Traces!SpanAt(id, Len(ended) + 1) = spans[id]
                /\ spans[id] \in TraceType(Scores)
<1>1. /\ ended \in Seq(EndedType(Scores)) /\ DOMAIN ended = 1 .. Len(ended) /\ Len(ended) \in Nat
      /\ spans \in [DOMAIN spans -> TraceType(Scores)]
      /\ \A i \in DOMAIN analysed : analysed[i].after \in Nat /\ analysed[i].after <= Len(ended)
  BY TraceTypes
<1>2. Traces!SpansOf(id) =
        EndedOf(id) \cup (IF id \in DOMAIN spans THEN {Len(ended) + 1} ELSE {})
  BY DEF Traces!SpansOf, EndedOf
<1>3. EndedOf(id) \subseteq 1 .. Len(ended)
  BY <1>1 DEF EndedOf
<1>4. ASSUME NEW k \in EndedOf(id)
      PROVE  /\ Traces!OwnEvents(id, k) = EndedEvents(id, k)
             /\ Traces!SpanAt(id, k) = ended[k].trace
             /\ ended[k].trace \in TraceType(Scores)
  <2>1. k \in 1 .. Len(ended) /\ ended[k] \in EndedType(Scores)
    BY <1>1, <1>3
  <2>2. \A j \in Traces!SpansOf(id) : j < k => j \in EndedOf(id)
    BY <1>1, <1>2, <2>1
  <2>3. EndedOf(id) \subseteq Traces!SpansOf(id)
    BY <1>2
  <2>4. Traces!OwnEvents(id, k) = EndedEvents(id, k)
    BY <2>2, <2>3 DEF Traces!OwnEvents, EndedEvents
  <2> QED BY <1>1, <2>1, <2>4 DEF Traces!SpanAt, EndedType
<1>5. ASSUME id \in DOMAIN spans
      PROVE  /\ Traces!OwnEvents(id, Len(ended) + 1) = OpenEvents(id)
             /\ Traces!SpanAt(id, Len(ended) + 1) = spans[id]
             /\ spans[id] \in TraceType(Scores)
  <2>1. \A j \in Traces!SpansOf(id) : j < Len(ended) + 1 => j \in EndedOf(id)
    BY <1>1, <1>2
  <2>2. \A j \in EndedOf(id) : j \in Traces!SpansOf(id) /\ j < Len(ended) + 1
    BY <1>1, <1>2, <1>3
  <2>3. \A i \in DOMAIN analysed : analysed[i].after < Len(ended) + 1
    BY <1>1
  <2>4. Traces!OwnEvents(id, Len(ended) + 1) = OpenEvents(id)
    BY <2>1, <2>2, <2>3 DEF Traces!OwnEvents, OpenEvents
  <2> QED BY <1>1, <1>5, <2>4 DEF Traces!SpanAt
<1> QED BY <1>2, <1>4, <1>5

(* Each span shows its own events. *)
LEMMA EachSpanShows ==
    ASSUME NEW Scores, TraceInvOf(Scores), NEW id \in SessionIDs, NEW k \in Traces!SpansOf(id)
    PROVE  /\ Enabled /\ Traces!SpanAt(id, k) \in TraceType(Scores)
           /\ Shows(Traces!SpanAt(id, k), Traces!OwnEvents(id, k))
<1>1. k \in EndedOf(id) \/ (id \in DOMAIN spans /\ k = Len(ended) + 1)
  BY OwnIsEnded
<1>2. Enabled
  BY <1>1 DEF TraceInvOf
<1>3. SpansShow(id)
  BY <1>2 DEF TraceInvOf
<1> QED BY <1>1, <1>2, <1>3, OwnIsEnded DEF SpansShow

LEMMA SpansSplitEvents == TraceInv => Traces!EveryEventInOneSpan
<1> SUFFICES ASSUME NEW Scores, TraceInvOf(Scores), Enabled, NEW id \in SessionIDs
             PROVE  /\ \A i \in DOMAIN analysed : analysed[i].id = id =>
                          \E k \in Traces!SpansOf(id) : i \in Traces!OwnEvents(id, k)
                    /\ \A k \in Traces!SpansOf(id) :
                          Traces!SpanAt(id, k).acceptedEvents
                             = Traces!Cardinality(Traces!OwnEvents(id, k))
  BY DEF TraceInv, Traces!EveryEventInOneSpan
<1>1. ASSUME NEW i \in DOMAIN analysed, analysed[i].id = id
      PROVE  \E k \in Traces!SpansOf(id) : i \in Traces!OwnEvents(id, k)
  <2>1. SpansShow(id)
    BY DEF TraceInvOf
  <2>2. CASE i \in OpenEvents(id)
    <3>1. id \in DOMAIN spans
      BY <2>1, <2>2 DEF SpansShow
    <3> QED BY <2>2, <3>1, OwnIsEnded
  <2>3. CASE \E k \in EndedOf(id) : i \in EndedEvents(id, k)
    BY <2>3, OwnIsEnded
  <2> QED BY <1>1, <2>1, <2>2, <2>3 DEF SpansShow
<1>2. ASSUME NEW k \in Traces!SpansOf(id)
      PROVE  Traces!SpanAt(id, k).acceptedEvents = Traces!Cardinality(Traces!OwnEvents(id, k))
  BY EachSpanShows, SameCardinality DEF Shows
<1> QED BY <1>1, <1>2

LEMMA SpansShowWorst == TraceInv => Traces!SpanShowsItsWorst
<1> SUFFICES ASSUME NEW Scores, TraceInvOf(Scores),
                    NEW id \in SessionIDs, NEW k \in Traces!SpansOf(id)
             PROVE  LET trace == Traces!SpanAt(id, k)
                        own == {analysed[i].outcome : i \in Traces!OwnEvents(id, k)}
                    IN  /\ \E i \in Traces!OwnEvents(id, k) :
                              /\ \A j \in Traces!OwnEvents(id, k) : j <= i
                              /\ trace.finalScore = analysed[i].outcome.score
                        /\ \E o \in own : trace.finalAction = o.action
                        /\ \A o \in own : Traces!Severity[o.action] <= Traces!Severity[trace.finalAction]
                        /\ trace.auditEmitted = \E o \in own : o.audit
                        /\ trace.alertEmitted = \E o \in own : o.alert
  BY DEF TraceInv, Traces!SpanShowsItsWorst
<1>1. PICK trace : trace = Traces!SpanAt(id, k)
  OBVIOUS
<1>2. PICK own : own = Traces!OwnEvents(id, k)
  OBVIOUS
<1>3. trace \in TraceType(Scores) /\ Shows(trace, own)
  BY <1>1, <1>2, EachSpanShows
<1>4. trace.auditEmitted \in BOOLEAN /\ trace.alertEmitted \in BOOLEAN
  BY <1>3 DEF TraceType
<1>5. /\ trace.auditEmitted = \E o \in {analysed[i].outcome : i \in own} : o.audit
      /\ trace.alertEmitted = \E o \in {analysed[i].outcome : i \in own} : o.alert
  BY <1>3, <1>4 DEF Shows
<1>6. /\ \E i \in own : (\A j \in own : j <= i) /\ trace.finalScore = analysed[i].outcome.score
      /\ \E o \in {analysed[i].outcome : i \in own} : trace.finalAction = o.action
      /\ \A o \in {analysed[i].outcome : i \in own} :
            Traces!Severity[o.action] <= Traces!Severity[trace.finalAction]
  BY <1>3 DEF Shows
<1> QED BY <1>1, <1>2, <1>5, <1>6

-----------------------------------------------------------------------------
(* The pipeline and the janitor do not wait for each other, and yet at most one
   event, the one in flight, is folded into a session after its end
   (pipeline.go:72, 120).                                                   *)
THEOREM OneLateEvent == Spec => []AtMostOneLateEvent
<1>1. IInv => AtMostOneLateEvent
  BY DEF IInv, LateInv, AtMostOneLateEvent
<1> QED BY <1>1, Invariant, PTL

(* Each goroutine holds what it needs where it is: the id of a session that the
   tracker gave out, an evaluation in progress, a session to close out.     *)
THEOREM TypeCorrect == Spec => []TypeOK
<1>1. IInv => TypeOK
  <2> SUFFICES ASSUME IInv PROVE TypeOK
    OBVIOUS
  <2>1. DOMAIN contexts \subseteq 1 .. (nextSessionID - 1)
    BY SessionsAssumption DEF IInv, GivenInv, MonitorInv, TrackerInv, SessionIDs
  <2>2. /\ pipeline.at \in Places /\ janitor.at \in JanitorPlaces
        /\ pipeline.at \notin {"receive", "lookup"} => pipeline.id \in SessionIDs
        /\ janitor.at \notin {"sweep", "stopped"} => janitor.ids # {}
        /\ main \in {"running", "closing", "exited"}
    BY DEF IInv, PlaceInv, JanitorInv, MainInv
  <2>3. (pipeline.at = "score") <=> (matching # {})
    BY DEF IInv, MatchInv
  <2> QED BY <2>1, <2>2, <2>3 DEF TypeOK, Places, JanitorPlaces
<1> QED BY <1>1, Invariant, PTL

(* No session gets a second session_closed record, and one that accepted an
   event before it ended has its record when the close-out callback is done
   with it, whether or not a late event came as well: nothing the pipeline does
   meanwhile makes the janitor skip it (pipeline.go:33-46).  Exempt is only a
   session whose one event was late: at its close-out there was perhaps no
   snapshot yet.                                                            *)
THEOREM ClosedOut == Spec => []HandedIsClosedOut
<1>1. IInv => HandedIsClosedOut
  <2> SUFFICES ASSUME IInv PROVE HandedIsClosedOut
    OBVIOUS
  <2>1. \A id \in handed \ janitor.ids : id \in Recorded /\ id \in SessionIDs
    BY EndedAreIds DEF IInv, TrackerInv, Recorded, Done
  <2> QED BY <2>1 DEF IInv, RecordInv, HandedIsClosedOut
<1> QED BY <1>1, Invariant, PTL

LEMMA PairSize == ASSUME NEW i, NEW j, NEW S, S \subseteq {i, j} PROVE Cardinality(S) <= 2
<1>1. IsFiniteSet({i}) /\ Cardinality({i}) = 1
  BY FS_Singleton
<1>2. /\ IsFiniteSet({i} \cup {j})
      /\ Cardinality({i} \cup {j}) = IF j \in {i} THEN Cardinality({i}) ELSE Cardinality({i}) + 1
  BY <1>1, FS_AddElement
<1>3. S \subseteq {i} \cup {j}
  OBVIOUS
<1>4. Cardinality(S) <= Cardinality({i} \cup {j}) /\ Cardinality(S) \in Nat
  BY <1>2, <1>3, FS_Subset, FS_CardinalityType
<1> QED BY <1>1, <1>2, <1>4

(* That one event is all that can reopen what was closed: no session gets a
   third span or has a rule scored a third time (tracing.go:146, 178,
   decision.go:127).                                                        *)
THEOREM TwoAccounts == Spec => []AtMostTwoAccounts
<1>1. IInv => AtMostTwoAccounts
  <2> SUFFICES ASSUME IInv PROVE AtMostTwoAccounts
    OBVIOUS
  <2>1. ASSUME NEW id \in SessionIDs PROVE Cardinality(Traces!SpansOf(id)) <= 2
    <3>1. Traces!SpansOf(id) =
            EndedOf(id) \cup (IF id \in DOMAIN spans THEN {Len(ended) + 1} ELSE {})
      BY OwnIsEnded DEF IInv, TraceInv
    <3>2. CASE main = "exited"
      <4>1. PICK i \in Nat, j \in Nat : EndedOf(id) \subseteq {i, j}
        BY DEF IInv, SpanInv
      <4>2. Traces!SpansOf(id) \subseteq {i, j}
        BY <3>1, <3>2, <4>1 DEF IInv, SpanInv
      <4> QED BY <4>2, PairSize
    <3>3. CASE main # "exited"
      <4>1. \A i, j \in EndedOf(id) : i = j
        BY <3>3 DEF IInv, SpanInv
      <4>2. PICK i : EndedOf(id) \subseteq {i}
        BY <4>1
      <4>3. Traces!SpansOf(id) \subseteq {i, Len(ended) + 1}
        BY <3>1, <4>2
      <4> QED BY <4>3, PairSize
    <3> QED BY <3>2, <3>3
  <2>2. ASSUME NEW p \in DOMAIN scored PROVE scored[p] <= 2
    <3>1. scored \in [SessionIDs \X Rules -> Nat]
      BY DEF IInv, AccountInv
    <3>2. PICK id \in SessionIDs, r \in Rules : p = <<id, r>>
      BY <3>1
    <3>3. scored[p] <= (IF id \in Done THEN 1 ELSE 0)
              + (IF RuleName[r] \in Decision!StateOf(id).triggeredRuleNames THEN 1 ELSE 0)
      BY <3>2 DEF IInv, AccountInv
    <3>4. scored[p] \in Nat
      BY <3>1
    <3> QED BY <3>3, <3>4
  <2> QED BY <2>1, <2>2 DEF AtMostTwoAccounts
<1> QED BY <1>1, Invariant, PTL

(* However the records of the pipeline, the janitor, the flusher and the
   shutdown overtook each other, the last one that sessions.log has of a
   session when the process exits lacks at most the late event
   (monitor.go:122, 146, 279, 298).                                         *)
THEOREM LastRecord == Spec => []LastRecordLagsOneEvent
<1>1. IInv => LastRecordLagsOneEvent
  <2> SUFFICES ASSUME IInv, main = "exited", ~writerErr, NEW id \in DOMAIN contexts
               PROVE  /\ Monitor!RecordsOf(id) # << >>
                      /\ Last(Monitor!RecordsOf(id)).raw.folded >= contexts[id].folded - 1
    BY DEF LastRecordLagsOneEvent
  <2>1. pipeline.at = "receive" /\ closer = "returned"
    BY DEF IInv, MainInv
  <2>2. monitored = {}
    BY <2>1 DEF IInv, MonitorInv
  <2>3. Covered(id)
    BY <2>1 DEF IInv, LagInv, InHand
  <2>4. /\ Monitor!RecordsOf(id) # << >>
        /\ Last(Monitor!RecordsOf(id)).raw.folded >= contexts[id].folded - late[id]
    BY <2>2, <2>3 DEF Covered, Shown
  <2>5. late[id] \in 0 .. 1 /\ contexts[id].folded \in Nat
    BY DEF IInv, MonitorInv, LateInv, RawType
  <2>6. Last(Monitor!RecordsOf(id)).raw.folded \in Nat
    <3>1. PICK s \in Seq(Line) : s = Monitor!RecordsOf(id)
      BY RecordsType DEF IInv
    <3>2. s[Len(s)] \in Line
      BY <2>4, <3>1, LenProperties
    <3> QED BY <3>1, <3>2 DEF Last, Line, RawType
  <2> QED BY <2>4, <2>5, <2>6
<1> QED BY <1>1, Invariant, PTL

(* Closes, reopenings and the shutdown split the events of a session into the
   runs its spans count, and the process exits with every span ended
   (tracing.go:146, 167, 178).                                              *)
THEOREM NoSpanLost == Spec => []TracesComplete
<1>1. IInv => TracesComplete
  <2> SUFFICES ASSUME IInv PROVE TracesComplete
    OBVIOUS
  <2>1. Traces!EveryEventInOneSpan
    BY SpansSplitEvents DEF IInv
  <2>2. main = "exited" => spans = << >>
    <3> SUFFICES ASSUME main = "exited" PROVE spans = << >>
      OBVIOUS
    <3>1. PICK Scores : TraceInvOf(Scores)
      BY DEF IInv, TraceInv
    <3>2. DOMAIN spans = {} /\ spans \in [DOMAIN spans -> TraceType(Scores)]
      BY <3>1 DEF IInv, SpanInv, TraceInvOf
    <3>3. << >> \in [{} -> TraceType(Scores)] /\ DOMAIN << >> = {}
      OBVIOUS
    <3> QED BY <3>2, <3>3
  <2> QED BY <2>1, <2>2 DEF TracesComplete
<1> QED BY <1>1, Invariant, PTL

(* A span shows the score of the last of its own events, the gravest action of
   theirs and what was really written for one of them, whatever the weights and
   thresholds are and however it was closed (tracing.go:276, 277, 279).      *)
THEOREM WorstIsShown == Spec => []SpanShowsItsWorst
<1>1. IInv => SpanShowsItsWorst
  BY SpansShowWorst DEF IInv, SpanShowsItsWorst
<1> QED BY <1>1, Invariant, PTL
=============================================================================
