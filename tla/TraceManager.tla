---------------------------- MODULE TraceManager ----------------------------
(***************************************************************************)
(* The per-session trace span of user/internal/telemetry/tracing.go.       *)
(*                                                                         *)
(* RecordAnalysis (pipeline) opens the span of a session on its first      *)
(* event and folds the event into it; CloseSession (janitor) and Shutdown  *)
(* (main) end spans.  All three hold m.mu; the forced export that follows  *)
(* an end holds no lock and is the exporter's business.  With telemetry    *)
(* disabled the manager has no provider and every call returns at once.    *)
(* This module is the operations; Pipeline says who calls them and when.   *)
(***************************************************************************)
EXTENDS Integers, FiniteSets, Sequences, Functions, SequencesExt

CONSTANTS
    SessionIDs,
    Enabled        \* telemetry configured: the manager has a provider (BOOLEAN)

VARIABLES
    spans,     \* Manager.sessions: id -> sessionTrace
    ended,     \* the spans that were ended, in order: [id, trace]
    analysed   \* the calls of RecordAnalysis, oldest first: [id, outcome, after],
               \* where `after` is the number of spans that had ended by then

traceVars == <<spans, ended, analysed>>

Severity == [none |-> 0, IGNORE |-> 1, LOG |-> 2, ALERT |-> 3]  \* actionSeverity

(* Mutant: the latest action wins. *)
latestAction(current, next) == next

maxAction(current, next) ==
    IF Severity[next] > Severity[current] THEN next ELSE current

NewTrace == [acceptedEvents |-> 0, finalScore |-> 0, finalAction |-> "none",
             auditEmitted |-> FALSE, alertEmitted |-> FALSE]

TraceOf(id) == IF id \in DOMAIN spans THEN spans[id] ELSE NewTrace

(* Without the counts per type of event, and without finalContext: the flags
   at the last event, which the module ContextManager derives.              *)
observe(trace, outcome) ==
    [acceptedEvents |-> trace.acceptedEvents + 1,
     finalScore |-> outcome.score,
     finalAction |-> maxAction(trace.finalAction, outcome.action),
     auditEmitted |-> trace.auditEmitted \/ outcome.audit,
     alertEmitted |-> trace.alertEmitted \/ outcome.alert]

-----------------------------------------------------------------------------
Init ==
    /\ spans = << >>
    /\ ended = << >>
    /\ analysed = << >>

RecordAnalysis(id, outcome) ==
    /\ IF Enabled
       THEN spans' = [other \in DOMAIN spans \cup {id} |->
                         IF other = id THEN observe(TraceOf(id), outcome)
                                       ELSE spans[other]]
       ELSE UNCHANGED spans
    /\ analysed' = Append(analysed, [id |-> id, outcome |-> outcome,
                                     after |-> Len(ended)])
    /\ UNCHANGED ended

(* Mutant: a span leaves the map and is never ended. *)
CloseSessionDrops(id) ==
    /\ spans' = Restrict(spans, DOMAIN spans \ {id})
    /\ UNCHANGED <<ended, analysed>>

(* A session without a span (no event was accepted, or telemetry is off) is
   an early return.                                                         *)
CloseSession(id) ==
    /\ ended' = IF id \in DOMAIN spans
                THEN Append(ended, [id |-> id, trace |-> spans[id]]) ELSE ended
    /\ spans' = Restrict(spans, DOMAIN spans \ {id})
    /\ UNCHANGED analysed

(* Shutdown ends whatever is still open, in map order. *)
Shutdown ==
    /\ \E order \in SetToSeqs(DOMAIN spans) :
          ended' = ended \o [i \in DOMAIN order |->
                                [id |-> order[i], trace |-> spans[order[i]]]]
    /\ spans' = << >>
    /\ UNCHANGED analysed

-----------------------------------------------------------------------------
(* The spans of a session by their place among all that ended; the one that is
   still open would be the next to end.                                     *)
SpansOf(id) == {k \in DOMAIN ended : ended[k].id = id}
                  \cup (IF id \in DOMAIN spans THEN {Len(ended) + 1} ELSE {})
SpanAt(id, k) == IF k \in DOMAIN ended THEN ended[k].trace ELSE spans[id]

(* The events of the session that were analysed after its previous span had
   ended and before this one did.                                           *)
OwnEvents(id, k) ==
    {i \in DOMAIN analysed :
        /\ analysed[i].id = id /\ analysed[i].after < k
        /\ \A j \in SpansOf(id) : j < k => j <= analysed[i].after}

(* The spans of a session split its analysed events into consecutive runs, and
   each counts the events of its run: every event is in exactly one span,
   however closes, reopenings and the shutdown fall between the events.     *)
EveryEventInOneSpan ==
    Enabled => \A id \in SessionIDs :
        /\ \A i \in DOMAIN analysed : analysed[i].id = id =>
              \E k \in SpansOf(id) : i \in OwnEvents(id, k)
        /\ \A k \in SpansOf(id) :
              SpanAt(id, k).acceptedEvents = Cardinality(OwnEvents(id, k))

(* The final state a span shows is that of its own events and of no other's:
   its score is the one the last of them had, its action the gravest of
   theirs, and the audit and alert flags are set exactly when one of them
   produced such a record (README.md:52).                                   *)
SpanShowsItsWorst ==
    \A id \in SessionIDs : \A k \in SpansOf(id) :
        LET trace == SpanAt(id, k)
            own == {analysed[i].outcome : i \in OwnEvents(id, k)}
        IN  /\ \E i \in OwnEvents(id, k) :
                  /\ \A j \in OwnEvents(id, k) : j <= i
                  /\ trace.finalScore = analysed[i].outcome.score
            /\ \E o \in own : trace.finalAction = o.action
            /\ \A o \in own : Severity[o.action] <= Severity[trace.finalAction]
            /\ trace.auditEmitted = \E o \in own : o.audit
            /\ trace.alertEmitted = \E o \in own : o.alert
=============================================================================
