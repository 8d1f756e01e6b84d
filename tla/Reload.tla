------------------------------- MODULE Reload -------------------------------
(***************************************************************************)
(* Hot reload of the rule file (setupReload in user/cmd/main.go) beside    *)
(* the evaluation of events.                                               *)
(*                                                                         *)
(* SIGHUP reaches a goroutine through a channel of capacity one.  For each *)
(* signal it loads the rule file and, when the file is valid, replaces the *)
(* rules, then the context heuristics, then the connect filters, each      *)
(* under a lock of its own.  An event meanwhile reads the filters, then    *)
(* the heuristics (several times), then the rules: the other way round.    *)
(* The rules and the account of a session are those of DecisionEngine.     *)
(***************************************************************************)
EXTENDS DecisionEngine

CONSTANTS
    Knob,         \* Configs -> its analysis section: one knob stands for all,
                  \* 0 when the file does not set it
    DefaultKnob,  \* defaultHeuristics
    MaxResults,   \* bound: results per session
    MaxEdits,     \* bound: changes of the file
    MaxHups       \* bound: SIGHUPs

ASSUME ReloadAssumption ==
    /\ Knob \in [Configs -> Nat] /\ DefaultKnob \in Nat \ {0}
    /\ MaxResults \in Nat /\ MaxEdits \in Nat /\ MaxHups \in Nat

VARIABLES
    file,           \* the content of the rule file
    pending,        \* the channel `signals` holds a signal
    signalsClosed,  \* stopReload was called
    reloader,       \* where the goroutine is, and the file it loaded: [at, cfg]
    heuristics,     \* context.activeHeuristics
    filters,        \* pipeline.filterPolicy, as the file it was made of
    swaps,          \* part -> how often it was replaced
    event,          \* the event in Run: [at, id, seen], where seen lists the
                    \* parts it read, each as replaced so many times
    edits, hups,    \* counters for the bounds
    owed            \* SIGHUP was sent since the file changed last

operatorVars == <<file, edits, hups, owed>>
reloadVars == <<decisionVars, pending, signalsClosed, reloader, heuristics, filters,
                swaps, event, operatorVars>>

Waiting == [at |-> "wait", cfg |-> << >>]
NoEvent == [at |-> "idle", id |-> 0, seen |-> << >>]

(* Mutant: what the file does not set is left as it is. *)
normalizeHeuristicsKeeps(knob) == IF knob > 0 THEN knob ELSE heuristics

(* normalizeHeuristics: what the file does not set is the default. *)
normalizeHeuristics(knob) == IF knob > 0 THEN knob ELSE DefaultKnob

ReloadInit ==
    /\ Init
    /\ file = config
    /\ pending = FALSE /\ signalsClosed = FALSE
    /\ reloader = Waiting
    /\ heuristics = IF Knob[config] > 0 THEN Knob[config] ELSE DefaultKnob
    /\ filters = config
    /\ swaps = [part \in {"rules", "heuristics", "filters"} |-> 0]
    /\ event = NoEvent
    /\ edits = 0 /\ hups = 0 /\ owed = FALSE

-----------------------------------------------------------------------------
(* The operator. *)
Edit ==
    /\ edits < MaxEdits /\ edits' = edits + 1
    /\ \E c \in Configs \ {file} : file' = c
    /\ owed' = FALSE
    /\ UNCHANGED <<decisionVars, pending, signalsClosed, reloader, heuristics,
                   filters, swaps, event, hups>>

(* Mutant: a channel without a buffer takes a signal only if it is awaited. *)
HupUnbuffered ==
    /\ ~signalsClosed /\ hups < MaxHups /\ hups' = hups + 1
    /\ pending' = (pending \/ reloader.at = "wait")
    /\ owed' = TRUE
    /\ UNCHANGED <<decisionVars, signalsClosed, reloader, heuristics, filters,
                   swaps, event, file, edits>>

(* signal.Notify does not block: a second signal is dropped while one waits. *)
Hup ==
    /\ ~signalsClosed /\ hups < MaxHups /\ hups' = hups + 1
    /\ pending' = TRUE
    /\ owed' = TRUE
    /\ UNCHANGED <<decisionVars, signalsClosed, reloader, heuristics, filters,
                   swaps, event, file, edits>>

-----------------------------------------------------------------------------
(* The goroutine of setupReload. *)
ReceiveSignal ==
    /\ reloader.at = "wait" /\ pending
    /\ pending' = FALSE
    /\ reloader' = [reloader EXCEPT !.at = "load"]
    /\ UNCHANGED <<decisionVars, signalsClosed, heuristics, filters, swaps, event,
                   operatorVars>>

Swapped(part) == swaps' = [swaps EXCEPT ![part] = @ + 1]

(* Mutant: the filters are replaced before the file is loaded into the engine. *)
LoadConfigAndFilters ==
    /\ reloader.at = "load"
    /\ reloader' = IF file \in LoadableConfigs
                   THEN [at |-> "rules", cfg |-> file] ELSE Waiting
    /\ IF file \in LoadableConfigs THEN filters' = file /\ Swapped("filters")
                                   ELSE UNCHANGED <<filters, swaps>>
    /\ UNCHANGED <<decisionVars, pending, signalsClosed, heuristics, event,
                   operatorVars>>

(* LoadConfig and the compilation of its rules; an error leaves everything as
   it is, and the goroutine goes on.                                        *)
LoadConfig ==
    /\ reloader.at = "load"
    /\ reloader' = IF file \in LoadableConfigs
                   THEN [at |-> "rules", cfg |-> file] ELSE Waiting
    /\ UNCHANGED <<decisionVars, pending, signalsClosed, heuristics, filters, swaps,
                   event, operatorVars>>

(* The last lines of rules.Engine.Reload. *)
ReplaceRules ==
    /\ reloader.at = "rules"
    /\ Reload(reloader.cfg)
    /\ Swapped("rules")
    /\ reloader' = [at |-> "heuristics", cfg |-> << >>]
    /\ UNCHANGED <<pending, signalsClosed, heuristics, filters, event, operatorVars>>

(* Both calls ask the engine for its analysis section again. *)
ConfigureHeuristics ==
    /\ reloader.at = "heuristics"
    /\ heuristics' = normalizeHeuristics(Knob[config])
    /\ Swapped("heuristics")
    /\ reloader' = [reloader EXCEPT !.at = "filters"]
    /\ UNCHANGED <<decisionVars, pending, signalsClosed, filters, event, operatorVars>>

ConfigureFilters ==
    /\ reloader.at = "filters"
    /\ filters' = config
    /\ Swapped("filters")
    /\ reloader' = Waiting
    /\ UNCHANGED <<decisionVars, pending, signalsClosed, heuristics, event,
                   operatorVars>>

(* The range over a closed channel first takes what is buffered. *)
ReloaderStops ==
    /\ reloader.at = "wait" /\ signalsClosed /\ ~pending
    /\ reloader' = [reloader EXCEPT !.at = "done"]
    /\ UNCHANGED <<decisionVars, pending, signalsClosed, heuristics, filters, swaps,
                   event, operatorVars>>

-----------------------------------------------------------------------------
(* An event in Run, reduced to what it reads of the configuration. *)
Read(part) == Append(event.seen, [part |-> part, swap |-> swaps[part]])
LineageDepth == [part |-> "lineage", swap |-> swaps["rules"]]

(* A connect meets the filters; an execve needs the lineage depth. *)
TakeEvent ==
    /\ event.at = "idle" /\ ~signalsClosed
    /\ \E id \in SessionIDs, first \in {<< >>, Read("filters"), << LineageDepth >>} :
          /\ Len(ResultsOf(id)) < MaxResults
          /\ event' = [at |-> "observe", id |-> id, seen |-> first]
    /\ UNCHANGED <<decisionVars, pending, signalsClosed, reloader, heuristics,
                   filters, swaps, operatorVars>>

(* Observe and ApplyEvent each call CurrentHeuristics, some several times. *)
DeriveContext ==
    /\ event.at \in {"observe", "apply"}
    /\ event' = [event EXCEPT !.at = IF event.at = "observe" THEN "apply" ELSE "match",
                              !.seen = Read("heuristics")]
    /\ UNCHANGED <<decisionVars, pending, signalsClosed, reloader, heuristics,
                   filters, swaps, operatorVars>>

EvaluateMatches ==
    /\ event.at = "match"
    /\ \E matched \in SUBSET DOMAIN config.weight : MatchRules(event.id, matched)
    /\ event' = [event EXCEPT !.at = "score", !.seen = Read("rules")]
    /\ UNCHANGED <<pending, signalsClosed, reloader, heuristics, filters, swaps,
                   operatorVars>>

EvaluateScores ==
    /\ event.at = "score"
    /\ ScoreMatched
    /\ event' = NoEvent
    /\ UNCHANGED <<pending, signalsClosed, reloader, heuristics, filters, swaps,
                   operatorVars>>

CloseOut ==
    /\ JanitorCloses
    /\ UNCHANGED <<pending, signalsClosed, reloader, heuristics, filters, swaps, event,
                   operatorVars>>

(* stopReload, deferred: Run has returned, no signal is delivered any more. *)
StopReload ==
    /\ event.at = "idle" /\ ~signalsClosed
    /\ signalsClosed' = TRUE
    /\ UNCHANGED <<decisionVars, pending, reloader, heuristics, filters, swaps, event,
                   operatorVars>>

Stopped == reloader.at = "done" /\ UNCHANGED reloadVars

ReloaderStep ==
    \/ ReceiveSignal \/ LoadConfig \/ ReplaceRules \/ ConfigureHeuristics
    \/ ConfigureFilters \/ ReloaderStops

ReloadNext ==
    \/ Edit \/ Hup \/ ReloaderStep
    \/ TakeEvent \/ DeriveContext \/ EvaluateMatches \/ EvaluateScores
    \/ CloseOut \/ StopReload \/ Stopped

ReloadSpec == ReloadInit /\ [][ReloadNext]_reloadVars

(* The goroutine is scheduled; no edit, signal or event is owed. *)
FairReloadSpec == ReloadSpec /\ WF_reloadVars(ReloaderStep)

-----------------------------------------------------------------------------
(* The state is well formed. *)
ReloadTypeOK ==
    /\ TypeOK
    /\ file \in Configs /\ filters \in LoadableConfigs /\ heuristics \in Nat \ {0}
    /\ reloader.at \in {"wait", "load", "rules", "heuristics", "filters", "done"}
    /\ reloader.at = "rules" => reloader.cfg \in LoadableConfigs
    /\ swaps \in [{"rules", "heuristics", "filters"} -> Nat]
    /\ event.at \in {"idle", "observe", "apply", "match", "score"}
    /\ event.at = "score" <=> matching # {}

(* The order of the swaps is against the order of an event's reads, so that a
   reload in the middle of an event mixes in one direction only: whatever an
   event reads is as new as what it read before.  It is never filtered by a
   newer file than its facts are derived with, and never scored by older rules
   than the heuristics behind its facts.  The one exception is the lineage
   depth, which is part of the rules and read first.                        *)
EventReadsForward ==
    \A i, j \in DOMAIN event.seen :
        i < j => \/ event.seen[i].swap <= event.seen[j].swap
                 \/ event.seen[i].part = "lineage" /\ event.seen[j].part # "rules"

(* All three parts are those of one file. *)
InForce(c) ==
    /\ config = c /\ filters = c
    /\ heuristics = IF Knob[c] > 0 THEN Knob[c] ELSE DefaultKnob

(* "To reload rules without restarting" (README.md:34): a valid file for which
   SIGHUP was sent goes in force as a whole, unless it is edited again, however
   many signals were merged into one and although a reload of an older content
   may be half way through.  What an older file set, and this one does not,
   does not linger.  The whole is rules, heuristics and filters: provider
   settings and the limit of recent events are read once, at start.         *)
SignalledFileGoesInForce ==
    \A c \in LoadableConfigs : (owed /\ file = c) ~> (InForce(c) \/ file # c)

-----------------------------------------------------------------------------
(* What does not hold: a single event may be judged by two files.           *)
EventOfOneFile ==
    \A i, j \in DOMAIN event.seen : event.seen[i].swap = event.seen[j].swap
=============================================================================
