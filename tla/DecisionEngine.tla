--------------------------- MODULE DecisionEngine ---------------------------
(***************************************************************************)
(* The cumulative risk score of user/internal/decision/decision.go and the *)
(* configuration it reads from user/internal/rules/rule.go.                *)
(*                                                                         *)
(* Evaluate is not atomic: rules.Engine.Evaluate copies the configuration  *)
(* under its own RWMutex and matches the rules, then the decision engine   *)
(* takes e.mu to score them.  The SIGHUP goroutine may swap the            *)
(* configuration in between, the janitor may drop the session's state.     *)
(* Which rules match is a property of the features, abstracted here to an  *)
(* arbitrary subset of the enabled rules.                                  *)
(***************************************************************************)
EXTENDS Integers, FiniteSets, Sequences, Functions, FiniteSetsExt

CONSTANTS
    SessionIDs,   \* ids the pipeline evaluates
    Rules,        \* the entries of the rule file
    RuleName,     \* entry -> its name; Validate lets two entries share one
    Configs       \* the rule files SIGHUP may load: [log, alert, weight]

ASSUME RulesFinite == IsFiniteSet(Rules)

ThresholdsAreOrdered(c) ==                  \* Config.Validate
    /\ c.log >= 0 /\ c.alert >= 0
    /\ ~(c.alert < c.log)

ASSUME ConfigsAssumption ==
    /\ Configs # {}
    /\ \A c \in Configs : /\ DOMAIN c = {"log", "alert", "weight"}
                          /\ c.log \in Int /\ c.alert \in Int
                          /\ DOMAIN c.weight \subseteq Rules  \* the enabled ones
                          /\ \A r \in DOMAIN c.weight : c.weight[r] \in Int

VARIABLES
    config,     \* rules.Engine.config
    states,     \* Engine.sessions: id -> sessionState
    matching,   \* the Evaluate between its two locks, if any: a set of at most
                \* one element, for only the pipeline goroutine evaluates
    results     \* id -> the Results handed out, oldest first

decisionVars == <<config, states, matching, results>>

Actions == {"IGNORE", "LOG", "ALERT"}
NewState == [triggeredRuleNames |-> {}, accumulatedScore |-> 0]

LoadableConfigs == {c \in Configs : ThresholdsAreOrdered(c)}

ResultsOf(id) == IF id \in DOMAIN results THEN results[id] ELSE << >>
StateOf(id) == IF id \in DOMAIN states THEN states[id] ELSE NewState

(* Assignment to a map: m[x] = v. *)
Put(m, x, v) == [y \in DOMAIN m \cup {x} |-> IF y = x THEN v ELSE m[y]]

(* Mutant: a rule seen before scores again. *)
AllMatched(matched, seen) == matched

newlyTriggeredRules(matched, seen) == {r \in matched : RuleName[r] \notin seen}

(* Mutant: the session's rules share one weight. *)
scoreRulesByCount(triggered, weight) == Cardinality(triggered)

scoreRules(triggered, weight) == MapThenSumSet(LAMBDA r : weight[r], triggered)

(* Mutant: the alert level is reached only beyond the threshold. *)
actionForStrict(triggered, score, cfg) ==
    IF triggered = {} THEN "IGNORE"
    ELSE IF score > cfg.alert THEN "ALERT"
    ELSE IF score >= cfg.log THEN "LOG" ELSE "IGNORE"

actionFor(triggered, score, cfg) ==
    CASE triggered # {} /\ score >= cfg.alert -> "ALERT"
      [] triggered # {} /\ score < cfg.alert /\ score >= cfg.log -> "LOG"
      [] OTHER -> "IGNORE"

-----------------------------------------------------------------------------
Init ==
    /\ config \in LoadableConfigs
    /\ states = << >>
    /\ matching = {}
    /\ results = << >>

(* rules.Engine.Evaluate: the configuration is copied once, and the rules,
   weights and thresholds all come from that copy.                          *)
MatchRules(id, matched) ==
    /\ matching = {}
    /\ matched \subseteq DOMAIN config.weight
    /\ matching' = {[id |-> id, matched |-> matched, cfg |-> config]}
    /\ UNCHANGED <<config, states, results>>

(* Mutant: the thresholds are read again after the rules were matched. *)
ScoreMatchedRereading ==
    \E m \in matching :
       LET cfg == [m.cfg EXCEPT !.log = config.log, !.alert = config.alert]
           state == StateOf(m.id)
           triggered == newlyTriggeredRules(m.matched, state.triggeredRuleNames)
           increment == scoreRules(triggered, cfg.weight)
           score == state.accumulatedScore + increment
           result == [score |-> score, increment |-> increment,
                      action |-> actionFor(triggered, score, cfg),
                      triggered |-> Restrict(cfg.weight, triggered),
                      logThreshold |-> cfg.log, alertThreshold |-> cfg.alert]
           names == state.triggeredRuleNames \cup {RuleName[r] : r \in triggered}
       IN  /\ states' = Put(states, m.id, [triggeredRuleNames |-> names,
                                          accumulatedScore |-> score])
           /\ results' = Put(results, m.id, Append(ResultsOf(m.id), result))
           /\ matching' = {}
           /\ UNCHANGED config

(* The part of Evaluate under e.mu.  The state is created when it is missing
   even if nothing triggers.                                                *)
ScoreMatched ==
    \E m \in matching :
       LET cfg == m.cfg
           state == StateOf(m.id)
           triggered == newlyTriggeredRules(m.matched, state.triggeredRuleNames)
           increment == scoreRules(triggered, cfg.weight)
           score == state.accumulatedScore + increment
           result == [score |-> score, increment |-> increment,
                      action |-> actionFor(triggered, score, cfg),
                      triggered |-> Restrict(cfg.weight, triggered),
                      logThreshold |-> cfg.log, alertThreshold |-> cfg.alert]
           names == state.triggeredRuleNames \cup {RuleName[r] : r \in triggered}
       IN  /\ states' = Put(states, m.id, [triggeredRuleNames |-> names,
                                          accumulatedScore |-> score])
           /\ results' = Put(results, m.id, Append(ResultsOf(m.id), result))
           /\ matching' = {}
           /\ UNCHANGED config

(* Mutant: closing a session keeps its score. *)
CloseSessionKeepsScore(id) ==
    /\ states' = [s \in DOMAIN states |->
                     IF s = id THEN [states[s] EXCEPT !.triggeredRuleNames = {}]
                               ELSE states[s]]
    /\ results' = Restrict(results, DOMAIN results \ {id})
    /\ UNCHANGED <<config, matching>>

(* The results of a closed session belong to the past; a later Evaluate for
   the same id starts a new account.                                        *)
CloseSession(id) ==
    /\ states' = Restrict(states, DOMAIN states \ {id})
    /\ results' = Restrict(results, DOMAIN results \ {id})
    /\ UNCHANGED <<config, matching>>

(* rules.Engine.Reload: a file that does not validate leaves the
   configuration alone.                                                     *)
Reload(c) ==
    /\ config' = IF ThresholdsAreOrdered(c) THEN c ELSE config
    /\ UNCHANGED <<states, matching, results>>

-----------------------------------------------------------------------------
Evaluate ==
    \E id \in SessionIDs, matched \in SUBSET DOMAIN config.weight :
        MatchRules(id, matched)
JanitorCloses == \E id \in SessionIDs : CloseSession(id)
SighupReloads == \E c \in Configs : Reload(c)

Next == Evaluate \/ ScoreMatched \/ JanitorCloses \/ SighupReloads

Spec == Init /\ [][Next]_decisionVars

-----------------------------------------------------------------------------
(* CrossesAlertThreshold and the two conditions under which the audit monitor
   writes a record (monitor.go:246, 254).                                   *)
CrossesAlertThreshold(r) ==
    DOMAIN r.triggered # {} /\ r.score >= r.alertThreshold
GoesToAuditLog(r) == DOMAIN r.triggered # {} /\ r.score >= r.logThreshold

Results == UNION {Range(results[id]) : id \in DOMAIN results}

(* The state is well formed; no loaded configuration has an alert threshold
   under its log threshold.                                                 *)
TypeOK ==
    /\ config \in LoadableConfigs
    /\ DOMAIN states \subseteq SessionIDs
    /\ \A id \in DOMAIN states :
          /\ states[id].triggeredRuleNames \subseteq {RuleName[r] : r \in Rules}
          /\ states[id].accumulatedScore \in Int
    /\ Cardinality(matching) <= 1
    /\ \A m \in matching : /\ m.id \in SessionIDs
                          /\ m.cfg \in LoadableConfigs
                          /\ m.matched \subseteq DOMAIN m.cfg.weight
    /\ \A r \in Results : r.action \in Actions

(* The sum of all weights of a map. *)
Total(weight) == MapThenSumSet(LAMBDA x : weight[x], DOMAIN weight)

(* The score a result reports is the sum of everything the session's results
   have reported so far, each rule at the weight it had when it triggered,
   across reloads that change weights and rules: nothing is scored without
   being reported, and nothing reported is left out.                        *)
ReportedScoreIsSum ==
    \A id \in DOMAIN results : \A k \in DOMAIN results[id] :
        results[id][k].score = Total([j \in 1 .. k |-> Total(results[id][j].triggered)])

(* A rule name is reported by at most one result of a session, although the
   same rule keeps matching at every later event (decision_test.go:12), and
   although a reload may change its weight in between.                      *)
RuleReportedOnce ==
    \A id \in DOMAIN results : \A j, k \in DOMAIN results[id] :
        \A r \in DOMAIN results[id][j].triggered,
           s \in DOMAIN results[id][k].triggered :
               RuleName[r] = RuleName[s] => j = k

(* A reload never splits an evaluation: the weights and both thresholds of a
   result are those of one rule file.                                       *)
ResultOfOneConfig ==
    \A r \in Results : \E c \in LoadableConfigs :
        /\ r.logThreshold = c.log /\ r.alertThreshold = c.alert
        /\ DOMAIN r.triggered \subseteq DOMAIN c.weight
        /\ \A rule \in DOMAIN r.triggered : r.triggered[rule] = c.weight[rule]

(* The action that Evaluate chose and the logs that the audit monitor chooses
   from the same result by its own comparisons agree: alert.log exactly for
   ALERT, audit.log exactly for LOG or ALERT.                               *)
ActionAgreesWithLogs ==
    \A r \in Results : /\ (r.action = "ALERT") <=> CrossesAlertThreshold(r)
                       /\ (r.action # "IGNORE") <=> GoesToAuditLog(r)
=============================================================================
