----------------------------- MODULE ReloadProofs -----------------------------
(***************************************************************************)
(* Proofs about DecisionEngine and Reload, for every rule file, session    *)
(* and bound.                                                              *)
(*                                                                         *)
(* First what a sum over a finite set is, whatever order it is taken in:   *)
(* by a smallest counterexample among the subsets.  Then what each         *)
(* operation of the engine preserves, and the theorems for the engine      *)
(* alone (Spec) and for the engine beside the reload                       *)
(* goroutine and the event it meets (ReloadSpec), every step of which is   *)
(* an operation of the engine or leaves it alone.                          *)
(***************************************************************************)
EXTENDS Reload, FiniteSetTheorems, WellFoundedInduction, TLAPS

(* The shape of the engine's maps, as far as the proofs need it. *)
Result(r) == /\ DOMAIN r.triggered \subseteq Rules
             /\ \E c \in LoadableConfigs :
                  /\ r.logThreshold = c.log /\ r.alertThreshold = c.alert
                  /\ DOMAIN r.triggered \subseteq DOMAIN c.weight
                  /\ \A rule \in DOMAIN r.triggered :
                        r.triggered[rule] = c.weight[rule]

(* Every name that a result of the session reported is in the set that the
   session has seen.                                                        *)
Remembered ==
    \A id \in DOMAIN results : \A k \in DOMAIN results[id] :
        \A r \in DOMAIN results[id][k].triggered :
            RuleName[r] \in StateOf(id).triggeredRuleNames

(* An evaluation holds a whole configuration; results are lists. *)
Held ==
    /\ config \in LoadableConfigs
    /\ \A m \in matching : /\ m.cfg \in LoadableConfigs
                          /\ m.matched \subseteq DOMAIN m.cfg.weight
    /\ \A id \in DOMAIN results : \E S : results[id] \in Seq(S)
    /\ \A id \in DOMAIN results : \A k \in DOMAIN results[id] : Result(results[id][k])

(* What the first k results of a list report. *)
Reported(list, k) == [j \in 1 .. k |-> Total(list[j].triggered)]

(* The score that a session has accumulated is what its results reported. *)
Accounted ==
    /\ DOMAIN states = DOMAIN results
    /\ \A id \in DOMAIN results :
          /\ states[id].accumulatedScore = Total(Reported(results[id], Len(results[id])))
          /\ \A k \in DOMAIN results[id] :
                results[id][k].score = Total(Reported(results[id], k))

Agrees(r) == /\ (r.action = "ALERT") <=> CrossesAlertThreshold(r)
             /\ (r.action # "IGNORE") <=> GoesToAuditLog(r)
Agreement == \A id \in DOMAIN results : \A k \in DOMAIN results[id] : Agrees(results[id][k])

EngineInv == Held /\ Remembered /\ RuleReportedOnce /\ Accounted /\ Agreement

(* What Append does to a list, as far as its elements are concerned. *)
LEMMA AppendLemma ==
    ASSUME NEW S, NEW s \in Seq(S), NEW x
    PROVE  /\ Append(s, x) \in Seq(S \cup {x})
           /\ Len(s) \in Nat /\ DOMAIN s = 1 .. Len(s)
           /\ DOMAIN Append(s, x) = 1 .. (Len(s) + 1)
           /\ \A k \in DOMAIN s : Append(s, x)[k] = s[k]
           /\ Append(s, x)[Len(s) + 1] = x
<1>1. s \in Seq(S \cup {x})
  OBVIOUS
<1>2. Append(s, x) \in Seq(S \cup {x})
  BY <1>1
<1>3. Len(s) \in Nat /\ DOMAIN s = 1 .. Len(s)
  OBVIOUS
<1>4. /\ Len(Append(s, x)) = Len(s) + 1
      /\ \A k \in 1 .. Len(s) : Append(s, x)[k] = s[k]
      /\ Append(s, x)[Len(s) + 1] = x
  BY <1>1, <1>3
<1>5. DOMAIN Append(s, x) = 1 .. (Len(s) + 1)
  BY <1>2, <1>4
<1> QED BY <1>2, <1>3, <1>4, <1>5

-----------------------------------------------------------------------------
(* Sums over finite sets: what MapThenSumSet computes does not depend on the
   order in which it picks the elements.                                    *)

(* Induction over the subsets of a finite set, by a smallest counterexample. *)
LEMMA SmallestSubset ==
    ASSUME NEW S, IsFiniteSet(S), NEW Bad, Bad \subseteq SUBSET S, Bad # {}
    PROVE  \E T \in Bad : \A U \in SUBSET T : U # T => U \notin Bad
<1>1. IsWellFoundedOn(StrictSubsetOrdering(S), SUBSET S)
  BY FS_StrictSubsetOrderingWellFounded, FS_FiniteSubsetsOfFinite
<1>2. PICK T \in Bad : \A U \in Bad : ~ (<<U, T>> \in StrictSubsetOrdering(S))
  BY <1>1, WFMin
<1>3. ASSUME NEW U \in SUBSET T, U # T PROVE U \notin Bad
  BY <1>2, <1>3 DEF StrictSubsetOrdering
<1> QED BY <1>3

Pick(s) == CHOOSE x \in s : TRUE

(* g is the sum of w over the subsets of S, as the fold computes it. *)
IsSum(w, S, g) ==
    g = [s \in SUBSET S |-> IF s = {} THEN 0 ELSE w[Pick(s)] + g[s \ {Pick(s)}]]

LEMMA PickIn == ASSUME NEW s, s # {} PROVE Pick(s) \in s
  BY DEF Pick

LEMMA SumStep ==
    ASSUME NEW w, NEW S, NEW g, IsSum(w, S, g)
    PROVE  /\ g[{}] = 0
           /\ \A s \in SUBSET S : s # {} => g[s] = w[Pick(s)] + g[s \ {Pick(s)}]
<1> DEFINE v(s) == IF s = {} THEN 0 ELSE w[Pick(s)] + g[s \ {Pick(s)}]
<1>1. g = [s \in SUBSET S |-> v(s)]
  BY DEF IsSum
<1>2. \A s \in SUBSET S : g[s] = v(s)
  <2> HIDE DEF v
  <2> QED BY <1>1
<1> QED BY <1>2

(* The sum over a set depends on nothing but the weights of its elements. *)
LEMMA SumAgrees ==
    ASSUME NEW v, NEW w, NEW S, NEW T, NEW g, NEW h, IsFiniteSet(S),
           IsSum(v, S, g), IsSum(w, T, h),
           NEW s \in SUBSET S, s \subseteq T, \A x \in s : v[x] = w[x]
    PROVE  g[s] = h[s]
<1> SUFFICES ASSUME g[s] # h[s] PROVE FALSE
  OBVIOUS
<1> DEFINE Bad == {t \in SUBSET s : g[t] # h[t]}
<1>1. PICK t \in Bad : \A u \in SUBSET t : u # t => u \notin Bad
  <2>1. s \in Bad /\ Bad \subseteq SUBSET S
    OBVIOUS
  <2> HIDE DEF Bad
  <2> QED BY <2>1, SmallestSubset
<1>2. t # {}
  BY SumStep
<1>3. Pick(t) \in t
  BY <1>2, PickIn
<1>4. g[t \ {Pick(t)}] = h[t \ {Pick(t)}]
  <2>1. t \ {Pick(t)} \in SUBSET t /\ t \ {Pick(t)} # t
    BY <1>3
  <2> QED BY <1>1, <2>1
<1>5. /\ g[t] = v[Pick(t)] + g[t \ {Pick(t)}]
      /\ h[t] = w[Pick(t)] + h[t \ {Pick(t)}]
  BY <1>2, SumStep
<1> QED BY <1>1, <1>3, <1>4, <1>5

LEMMA SumExists == ASSUME NEW w, NEW S, IsFiniteSet(S) PROVE \E g : IsSum(w, S, g)
<1> SUFFICES ASSUME \A g : ~ IsSum(w, S, g) PROVE FALSE
  OBVIOUS
<1> DEFINE Bad == {T \in SUBSET S : \A g : ~ IsSum(w, T, g)}
<1>1. PICK T \in Bad : \A U \in SUBSET T : U # T => U \notin Bad
  <2>1. S \in Bad /\ Bad \subseteq SUBSET S
    OBVIOUS
  <2> HIDE DEF Bad
  <2> QED BY <2>1, SmallestSubset
<1> DEFINE SumOf(U) == CHOOSE g : IsSum(w, U, g)
           V(U) == SumOf(U)[U]
           F(s) == IF s = {} THEN 0 ELSE w[Pick(s)] + V(s \ {Pick(s)})
           f == [s \in SUBSET T |-> F(s)]
<1>2. ASSUME NEW U \in SUBSET T, U # T PROVE IsSum(w, U, SumOf(U))
  <2>1. \E g : IsSum(w, U, g)
    BY <1>1, <1>2
  <2> QED BY <2>1
<1>3. ASSUME NEW U \in SUBSET T, U # T PROVE f[U] = V(U)
  <2>1. IsSum(w, U, SumOf(U)) /\ IsFiniteSet(U)
    BY <1>2, <1>3, FS_Subset
  <2>2. CASE U = {}
    BY <2>1, <2>2, SumStep
  <2>3. CASE U # {}
    <3> DEFINE u == U \ {Pick(U)}
    <3>1. Pick(U) \in U
      BY <2>3, PickIn
    <3>2. u \in SUBSET T /\ u # T /\ u \in SUBSET U
      BY <3>1
    <3>3. IsSum(w, u, SumOf(u)) /\ IsFiniteSet(u)
      BY <1>2, <3>2, FS_Subset
    <3>4. SumOf(U)[u] = SumOf(u)[u]
      <4> HIDE DEF u, SumOf
      <4> QED BY <2>1, <3>2, <3>3, SumAgrees
    <3>5. V(U) = w[Pick(U)] + SumOf(U)[u]
      <4> HIDE DEF SumOf
      <4> QED BY <2>1, <2>3, SumStep
    <3>6. f[U] = w[Pick(U)] + V(u)
      <4> HIDE DEF V
      <4> QED BY <2>3
    <3> QED BY <3>4, <3>5, <3>6
  <2> QED BY <2>2, <2>3
<1>4. ASSUME NEW s \in SUBSET T, s # {} PROVE F(s) = w[Pick(s)] + f[s \ {Pick(s)}]
  <2>1. s \ {Pick(s)} \in SUBSET T /\ s \ {Pick(s)} # T
    BY <1>4, PickIn
  <2>2. f[s \ {Pick(s)}] = V(s \ {Pick(s)})
    BY <1>3, <2>1
  <2> HIDE DEF V, f
  <2> QED BY <1>4, <2>2
<1>5. IsSum(w, T, f)
  <2> DEFINE G(s) == IF s = {} THEN 0 ELSE w[Pick(s)] + f[s \ {Pick(s)}]
  <2>1. \A s \in SUBSET T : F(s) = G(s)
    <3> HIDE DEF f, V
    <3> QED BY <1>4
  <2>2. f = [s \in SUBSET T |-> G(s)]
    <3> HIDE DEF G, F
    <3> QED BY <2>1
  <2> HIDE DEF f
  <2> QED BY <2>2 DEF IsSum
<1> QED BY <1>1, <1>5

(* What MapThenSumSet computes. *)
LEMMA SumIs ==
    ASSUME NEW w, NEW S, IsFiniteSet(S)
    PROVE  \E g : IsSum(w, S, g) /\ scoreRules(S, w) = g[S]
<1> DEFINE g == CHOOSE g : g = [s \in SUBSET S |->
          IF s = {} THEN 0
          ELSE w[CHOOSE x \in s : TRUE] + g[s \ {CHOOSE x \in s : TRUE}]]
<1>1. scoreRules(S, w) = g[S]
  BY DEF scoreRules, MapThenSumSet, MapThenFoldSet
<1>2. PICK h : IsSum(w, S, h)
  BY SumExists
<1>3. h = [s \in SUBSET S |->
          IF s = {} THEN 0
          ELSE w[CHOOSE x \in s : TRUE] + h[s \ {CHOOSE x \in s : TRUE}]]
  BY <1>2 DEF IsSum, Pick
<1>4. g = [s \in SUBSET S |->
          IF s = {} THEN 0
          ELSE w[CHOOSE x \in s : TRUE] + g[s \ {CHOOSE x \in s : TRUE}]]
  BY <1>3
<1>5. IsSum(w, S, g)
  BY <1>4 DEF IsSum, Pick
<1> QED BY <1>1, <1>5

LEMMA SumType ==
    ASSUME NEW w, NEW S, NEW g, IsFiniteSet(S), IsSum(w, S, g), \A x \in S : w[x] \in Int,
           NEW s \in SUBSET S
    PROVE  g[s] \in Int
<1> SUFFICES ASSUME g[s] \notin Int PROVE FALSE
  OBVIOUS
<1> DEFINE Bad == {t \in SUBSET S : g[t] \notin Int}
<1>1. PICK t \in Bad : \A u \in SUBSET t : u # t => u \notin Bad
  <2>1. s \in Bad /\ Bad \subseteq SUBSET S
    OBVIOUS
  <2> HIDE DEF Bad
  <2> QED BY <2>1, SmallestSubset
<1>2. t \in SUBSET S /\ g[t] \notin Int
  OBVIOUS
<1>3. t # {}
  <2>1. g[{}] = 0
    BY SumStep
  <2> QED BY <1>2, <2>1
<1>4. PICK p : p = Pick(t)
  OBVIOUS
<1>5. p \in t /\ g[t] = w[p] + g[t \ {p}]
  BY <1>3, <1>4, PickIn, SumStep
<1>6. g[t \ {p}] \in Int
  <2>1. t \ {p} \in SUBSET t /\ t \ {p} # t
    BY <1>5
  <2> QED BY <1>1, <2>1
<1> QED BY <1>2, <1>5, <1>6

(* Whichever element the fold picks first, any one may be taken out. *)
LEMMA SumTakeOut ==
    ASSUME NEW w, NEW S, NEW g, IsFiniteSet(S), IsSum(w, S, g), \A x \in S : w[x] \in Int,
           NEW s \in SUBSET S, NEW x \in s
    PROVE  g[s] = w[x] + g[s \ {x}]
<1> SUFFICES ASSUME g[s] # w[x] + g[s \ {x}] PROVE FALSE
  OBVIOUS
<1> DEFINE Bad == {t \in SUBSET S : \E y \in t : g[t] # w[y] + g[t \ {y}]}
<1>1. PICK t \in Bad : \A u \in SUBSET t : u # t => u \notin Bad
  <2>1. s \in Bad /\ Bad \subseteq SUBSET S
    OBVIOUS
  <2> HIDE DEF Bad
  <2> QED BY <2>1, SmallestSubset
<1>2. PICK y \in t : g[t] # w[y] + g[t \ {y}]
  BY <1>1
<1>3. PICK p : p = Pick(t)
  OBVIOUS
<1>4. /\ p \in t /\ g[t] = w[p] + g[t \ {p}]
  BY <1>2, <1>3, PickIn, SumStep
<1>5. p # y
  BY <1>2, <1>4
<1>6. /\ t \ {p} \in SUBSET t /\ t \ {p} # t /\ y \in t \ {p}
      /\ t \ {y} \in SUBSET t /\ t \ {y} # t /\ p \in t \ {y}
      /\ (t \ {p}) \ {y} = (t \ {y}) \ {p}
  BY <1>4, <1>5
<1>7. ASSUME NEW u \in SUBSET t, u # t, NEW z \in u PROVE g[u] = w[z] + g[u \ {z}]
  BY <1>1, <1>7
<1>8. /\ g[t \ {p}] = w[y] + g[(t \ {p}) \ {y}]
      /\ g[t \ {y}] = w[p] + g[(t \ {p}) \ {y}]
  <2> HIDE DEF Bad
  <2>1. g[t \ {p}] = w[y] + g[(t \ {p}) \ {y}]
    BY <1>6, <1>7
  <2>2. g[t \ {y}] = w[p] + g[(t \ {y}) \ {p}]
    BY <1>6, <1>7
  <2> QED BY <1>6, <2>1, <2>2
<1>9. /\ w[p] \in Int /\ w[y] \in Int /\ g[(t \ {p}) \ {y}] \in Int
  <2>1. (t \ {p}) \ {y} \in SUBSET S
    OBVIOUS
  <2> QED BY <2>1, <1>4, SumType
<1> QED BY <1>2, <1>4, <1>8, <1>9

(* A map from finitely many things to numbers. *)
Weights(w) == IsFiniteSet(DOMAIN w) /\ \A x \in DOMAIN w : w[x] \in Int

LEMMA TotalIs ==
    ASSUME NEW w, IsFiniteSet(DOMAIN w)
    PROVE  \E g : IsSum(w, DOMAIN w, g) /\ Total(w) = g[DOMAIN w]
<1>1. Total(w) = scoreRules(DOMAIN w, w)
  BY DEF Total, scoreRules, MapThenSumSet, MapThenFoldSet
<1> QED BY <1>1, SumIs

LEMMA TotalType == ASSUME NEW w, Weights(w) PROVE Total(w) \in Int
<1>1. PICK g : IsSum(w, DOMAIN w, g) /\ Total(w) = g[DOMAIN w]
  BY TotalIs DEF Weights
<1> QED BY <1>1, SumType DEF Weights

LEMMA TotalOfNothing == ASSUME NEW w, DOMAIN w = {} PROVE Total(w) = 0
<1>1. PICK g : IsSum(w, DOMAIN w, g) /\ Total(w) = g[DOMAIN w]
  BY TotalIs, FS_EmptySet
<1> QED BY <1>1, SumStep

(* Only the weights that are summed matter. *)
LEMMA ScoreIsTotal ==
    ASSUME NEW w, NEW S, IsFiniteSet(S), NEW v, DOMAIN v = S, \A x \in S : v[x] = w[x]
    PROVE  scoreRules(S, w) = Total(v)
<1>1. PICK g : IsSum(v, S, g) /\ Total(v) = g[S]
  BY TotalIs
<1>2. PICK h : IsSum(w, S, h) /\ scoreRules(S, w) = h[S]
  BY SumIs
<1> QED BY <1>1, <1>2, SumAgrees

(* One more summand. *)
LEMMA TotalAdds ==
    ASSUME NEW v, Weights(v), NEW w, NEW x, x \notin DOMAIN v, w[x] \in Int,
           DOMAIN w = DOMAIN v \cup {x}, \A y \in DOMAIN v : w[y] = v[y]
    PROVE  Weights(w) /\ Total(w) = Total(v) + w[x]
<1>1. Weights(w)
  BY FS_AddElement DEF Weights
<1>2. PICK g : IsSum(v, DOMAIN v, g) /\ Total(v) = g[DOMAIN v]
  BY TotalIs DEF Weights
<1>3. PICK h : IsSum(w, DOMAIN w, h) /\ Total(w) = h[DOMAIN w]
  BY <1>1, TotalIs DEF Weights
<1>4. (DOMAIN w) \ {x} = DOMAIN v
  OBVIOUS
<1>5. h[DOMAIN w] = w[x] + h[DOMAIN v]
  BY <1>1, <1>3, <1>4, SumTakeOut DEF Weights
<1>6. g[DOMAIN v] = h[DOMAIN v]
  BY <1>2, <1>3, SumAgrees DEF Weights
<1>7. Total(v) \in Int
  BY TotalType
<1> QED BY <1>1, <1>2, <1>3, <1>5, <1>6, <1>7

(* A result's weights are those of a rule file, so their total is a number. *)
LEMMA ResultWeights == ASSUME NEW r, Result(r) PROVE Weights(r.triggered)
<1>1. PICK c \in LoadableConfigs :
         /\ DOMAIN r.triggered \subseteq DOMAIN c.weight
         /\ \A rule \in DOMAIN r.triggered : r.triggered[rule] = c.weight[rule]
  BY DEF Result
<1>2. \A rule \in DOMAIN c.weight : c.weight[rule] \in Int
  BY ConfigsAssumption DEF LoadableConfigs
<1>3. IsFiniteSet(DOMAIN r.triggered)
  BY RulesFinite, FS_Subset DEF Result
<1> QED BY <1>1, <1>2, <1>3 DEF Weights

(* A list with one more result has the totals of the old one, and one more. *)
LEMMA ReportedAppends ==
    ASSUME NEW S, NEW s \in Seq(S), \A k \in DOMAIN s : Weights(s[k].triggered),
           NEW x, Weights(x.triggered)
    PROVE  /\ \A k \in DOMAIN s : Reported(Append(s, x), k) = Reported(s, k)
           /\ Total(Reported(s, Len(s))) \in Int
           /\ Total(Reported(Append(s, x), Len(s) + 1))
                  = Total(Reported(s, Len(s))) + Total(x.triggered)
<1> DEFINE t == Append(s, x)
           n == Len(s)
           old == Reported(s, n)
           new == Reported(t, n + 1)
<1>1. /\ n \in Nat /\ DOMAIN s = 1 .. n
      /\ \A k \in 1 .. n : t[k] = s[k]
      /\ t[n + 1] = x
  BY AppendLemma
<1> HIDE DEF t, n
<1>2. ASSUME NEW k \in DOMAIN s PROVE Reported(t, k) = Reported(s, k)
  <2>1. \A j \in 1 .. k : t[j] = s[j]
    BY <1>1
  <2> QED BY <2>1 DEF Reported
<1>3. /\ DOMAIN old = 1 .. n /\ \A j \in 1 .. n : old[j] = Total(s[j].triggered)
      /\ DOMAIN new = 1 .. (n + 1) /\ \A j \in 1 .. (n + 1) : new[j] = Total(t[j].triggered)
  BY DEF Reported
<1> HIDE DEF old, new
<1>4. Weights(old)
  <2>1. IsFiniteSet(1 .. n)
    BY <1>1, FS_Interval
  <2>2. \A j \in 1 .. n : Total(s[j].triggered) \in Int
    BY <1>1, TotalType
  <2> QED BY <1>3, <2>1, <2>2 DEF Weights
<1>5. new[n + 1] = Total(x.triggered) /\ new[n + 1] \in Int
  BY <1>1, <1>3, TotalType
<1>6. /\ n + 1 \notin DOMAIN old /\ DOMAIN new = DOMAIN old \cup {n + 1}
      /\ \A j \in DOMAIN old : new[j] = old[j]
  BY <1>1, <1>3
<1>7. Total(new) = Total(old) + Total(x.triggered)
  BY <1>4, <1>5, <1>6, TotalAdds
<1>8. Total(old) \in Int
  BY <1>4, TotalType
<1> QED BY <1>2, <1>7, <1>8 DEF old, new, n, t

-----------------------------------------------------------------------------
(* The operations of the engine. *)
LEMMA InitEngine == Init => EngineInv
  BY DEF Init, EngineInv, Held, Remembered, RuleReportedOnce, Accounted, Agreement

LEMMA MatchPreserves ==
    ASSUME EngineInv, NEW id, NEW matched, MatchRules(id, matched)
    PROVE  EngineInv'
<1>1. UNCHANGED <<config, states, results>>
  BY DEF MatchRules
<1>2. \A m \in matching' : m.cfg = config /\ m.matched \subseteq DOMAIN config.weight
  BY DEF MatchRules
<1>3. Held'
  BY <1>1, <1>2 DEF EngineInv, Held
<1>4. Accounted' /\ Agreement'
  BY <1>1 DEF EngineInv, Accounted, Agreement, Agrees, CrossesAlertThreshold, GoesToAuditLog
<1> QED BY <1>1, <1>3, <1>4 DEF EngineInv, Remembered, StateOf, RuleReportedOnce

LEMMA ClosePreserves ==
    ASSUME EngineInv, NEW id, CloseSession(id)
    PROVE  EngineInv'
<1>1. /\ DOMAIN results' = DOMAIN results \ {id}
      /\ \A i \in DOMAIN results' : results'[i] = results[i]
      /\ DOMAIN states' = DOMAIN states \ {id}
      /\ \A i \in DOMAIN states' : states'[i] = states[i]
      /\ UNCHANGED <<config, matching>>
  BY DEF CloseSession, Restrict
<1>2. Held'
  BY <1>1 DEF EngineInv, Held
<1>3. Remembered'
  <2>1. \A i \in DOMAIN results' : StateOf(i)' = StateOf(i)
    BY <1>1 DEF StateOf
  <2> QED BY <1>1, <2>1 DEF EngineInv, Remembered
<1>4. RuleReportedOnce'
  BY <1>1 DEF EngineInv, RuleReportedOnce
<1>5. Accounted'
  BY <1>1 DEF EngineInv, Accounted
<1>6. Agreement'
  BY <1>1 DEF EngineInv, Agreement, Agrees, CrossesAlertThreshold, GoesToAuditLog
<1> QED BY <1>2, <1>3, <1>4, <1>5, <1>6 DEF EngineInv

LEMMA ReloadPreserves ==
    ASSUME EngineInv, NEW c \in Configs, Reload(c)
    PROVE  EngineInv'
<1>1. config' \in LoadableConfigs /\ UNCHANGED <<states, matching, results>>
  BY DEF Reload, LoadableConfigs, EngineInv, Held
<1>2. Accounted' /\ Agreement'
  BY <1>1 DEF EngineInv, Accounted, Agreement, Agrees, CrossesAlertThreshold, GoesToAuditLog
<1> QED BY <1>1, <1>2 DEF EngineInv, Held, Remembered, StateOf, RuleReportedOnce

(* The result that ScoreMatched appends reports only what is new, with weights
   and thresholds of the configuration that the matching held.              *)
LEMMA ScorePreserves ==
    ASSUME EngineInv, ScoreMatched
    PROVE  EngineInv'
<1> DEFINE Triggered(m) == newlyTriggeredRules(m.matched, StateOf(m.id).triggeredRuleNames)
           Increment(m) == scoreRules(Triggered(m), m.cfg.weight)
           Score(m) == StateOf(m.id).accumulatedScore + Increment(m)
           Outcome(m) == [score |-> Score(m), increment |-> Increment(m),
                          action |-> actionFor(Triggered(m), Score(m), m.cfg),
                          triggered |-> Restrict(m.cfg.weight, Triggered(m)),
                          logThreshold |-> m.cfg.log, alertThreshold |-> m.cfg.alert]
           Names(m) == StateOf(m.id).triggeredRuleNames \cup {RuleName[r] : r \in Triggered(m)}
<1>0. PICK m \in matching :
         /\ states' = Put(states, m.id, [triggeredRuleNames |-> Names(m),
                                         accumulatedScore |-> Score(m)])
         /\ results' = Put(results, m.id, Append(ResultsOf(m.id), Outcome(m)))
         /\ matching' = {} /\ config' = config
  BY DEF ScoreMatched
<1>1. PICK triggered, names, score, result :
         /\ triggered = newlyTriggeredRules(m.matched, StateOf(m.id).triggeredRuleNames)
         /\ names = StateOf(m.id).triggeredRuleNames \cup {RuleName[r] : r \in triggered}
         /\ DOMAIN result.triggered = triggered
         /\ \A r \in triggered : result.triggered[r] = m.cfg.weight[r]
         /\ result.logThreshold = m.cfg.log /\ result.alertThreshold = m.cfg.alert
         /\ score = StateOf(m.id).accumulatedScore + scoreRules(triggered, m.cfg.weight)
         /\ result.score = score /\ result.action = actionFor(triggered, score, m.cfg)
         /\ states' = Put(states, m.id, [triggeredRuleNames |-> names,
                                         accumulatedScore |-> score])
         /\ results' = Put(results, m.id, Append(ResultsOf(m.id), result))
         /\ matching' = {} /\ config' = config
  <2>1. /\ DOMAIN Outcome(m).triggered = Triggered(m)
        /\ \A r \in Triggered(m) : Outcome(m).triggered[r] = m.cfg.weight[r]
        /\ Outcome(m).logThreshold = m.cfg.log /\ Outcome(m).alertThreshold = m.cfg.alert
        /\ Outcome(m).score = Score(m)
        /\ Outcome(m).action = actionFor(Triggered(m), Score(m), m.cfg)
    BY DEF Restrict
  <2>2. Score(m) = StateOf(m.id).accumulatedScore + scoreRules(Triggered(m), m.cfg.weight)
    OBVIOUS
  <2> HIDE DEF Outcome, Score
  <2> QED BY <1>0, <2>1, <2>2
<1> HIDE DEF Triggered, Increment, Score, Outcome, Names
<1>2. /\ triggered \subseteq m.matched
      /\ \A r \in triggered : RuleName[r] \notin StateOf(m.id).triggeredRuleNames
      /\ m.cfg \in LoadableConfigs /\ m.matched \subseteq DOMAIN m.cfg.weight
  BY <1>1 DEF newlyTriggeredRules, EngineInv, Held
<1>3. Result(result)
  <2>1. DOMAIN m.cfg.weight \subseteq Rules
    BY <1>2, ConfigsAssumption DEF LoadableConfigs
  <2> QED BY <1>1, <1>2, <2>1 DEF Result
<1> DEFINE old == ResultsOf(m.id)
<1>4. PICK S : old \in Seq(S)
  BY DEF ResultsOf, EngineInv, Held
<1>5. /\ Append(old, result) \in Seq(S \cup {result})
      /\ Len(old) \in Nat /\ DOMAIN old = 1 .. Len(old)
      /\ DOMAIN Append(old, result) = 1 .. (Len(old) + 1)
      /\ \A k \in DOMAIN old : Append(old, result)[k] = old[k]
      /\ Append(old, result)[Len(old) + 1] = result
  BY <1>4, AppendLemma
<1>6. /\ DOMAIN results' = DOMAIN results \cup {m.id}
      /\ results'[m.id] = Append(old, result)
      /\ \A i \in DOMAIN results \ {m.id} : results'[i] = results[i]
  BY <1>1 DEF Put
<1>7. /\ m.id \in DOMAIN states'
      /\ states'[m.id].triggeredRuleNames = names /\ states'[m.id].accumulatedScore = score
      /\ \A i \in DOMAIN states \ {m.id} : i \in DOMAIN states' /\ states'[i] = states[i]
      /\ \A i \in DOMAIN states' : i \in DOMAIN states \/ i = m.id
  BY <1>1 DEF Put
<1>8. \A k \in DOMAIN old : m.id \in DOMAIN results /\ old = results[m.id]
  BY DEF ResultsOf
<1>9. Held'
  <2>1. \A id \in DOMAIN results' : \E T : results'[id] \in Seq(T)
    BY <1>5, <1>6 DEF EngineInv, Held
  <2>2. \A id \in DOMAIN results' : \A k \in DOMAIN results'[id] : Result(results'[id][k])
    <3> SUFFICES ASSUME NEW id \in DOMAIN results', NEW k \in DOMAIN results'[id]
                 PROVE  Result(results'[id][k])
      OBVIOUS
    <3>1. CASE id # m.id
      BY <3>1, <1>6 DEF EngineInv, Held
    <3>2. CASE id = m.id /\ k = Len(old) + 1
      BY <3>2, <1>3, <1>5, <1>6
    <3>3. CASE id = m.id /\ k # Len(old) + 1
      <4>1. k \in DOMAIN old
        BY <3>3, <1>5, <1>6
      <4> QED BY <3>3, <4>1, <1>5, <1>6, <1>8 DEF EngineInv, Held
    <3> QED BY <3>1, <3>2, <3>3
  <2>3. config' \in LoadableConfigs /\ matching' = {}
    BY <1>1 DEF EngineInv, Held
  <2> QED BY <2>1, <2>2, <2>3 DEF Held, Result, LoadableConfigs, ThresholdsAreOrdered
<1>10. Remembered'
  <2> SUFFICES ASSUME NEW id \in DOMAIN results', NEW k \in DOMAIN results'[id],
                      NEW r \in DOMAIN results'[id][k].triggered
               PROVE  RuleName[r] \in StateOf(id)'.triggeredRuleNames
    BY DEF Remembered
  <2>1. CASE id # m.id
    <3>1. StateOf(id)' = StateOf(id)
      BY <2>1, <1>7 DEF StateOf
    <3> QED BY <2>1, <3>1, <1>6 DEF EngineInv, Remembered
  <2>2. CASE id = m.id
    <3>1. StateOf(id)'.triggeredRuleNames = names
      BY <2>2, <1>7 DEF StateOf
    <3>2. CASE k = Len(old) + 1
      BY <2>2, <3>1, <3>2, <1>1, <1>5, <1>6
    <3>3. CASE k # Len(old) + 1
      <4>1. k \in DOMAIN old
        BY <2>2, <3>3, <1>5, <1>6
      <4>2. results'[id][k] = results[id][k] /\ id \in DOMAIN results
            /\ k \in DOMAIN results[id]
        BY <2>2, <4>1, <1>5, <1>6, <1>8
      <4> QED BY <2>2, <3>1, <4>2, <1>1 DEF EngineInv, Remembered
    <3> QED BY <3>2, <3>3
  <2> QED BY <2>1, <2>2
<1>11. RuleReportedOnce'
  <2> SUFFICES ASSUME NEW id \in DOMAIN results',
                      NEW j \in DOMAIN results'[id], NEW k \in DOMAIN results'[id],
                      NEW r \in DOMAIN results'[id][j].triggered,
                      NEW s \in DOMAIN results'[id][k].triggered,
                      RuleName[r] = RuleName[s]
               PROVE  j = k
    BY DEF RuleReportedOnce
  <2>1. CASE id # m.id
    BY <2>1, <1>6 DEF EngineInv, RuleReportedOnce
  <2>2. CASE id = m.id
    <3>1. ASSUME NEW i \in DOMAIN results'[id], i # Len(old) + 1
          PROVE  /\ id \in DOMAIN results /\ i \in DOMAIN results[id]
                 /\ results'[id][i] = results[id][i]
                 /\ \A t \in DOMAIN results[id][i].triggered :
                        RuleName[t] \in StateOf(m.id).triggeredRuleNames
      <4>1. i \in DOMAIN old
        BY <2>2, <3>1, <1>5, <1>6
      <4>2. results'[id][i] = results[id][i] /\ id \in DOMAIN results
            /\ i \in DOMAIN results[id]
        BY <2>2, <4>1, <1>5, <1>6, <1>8
      <4> QED BY <2>2, <4>2 DEF EngineInv, Remembered
    <3>2. \A t \in DOMAIN results'[id][Len(old) + 1].triggered :
             RuleName[t] \notin StateOf(m.id).triggeredRuleNames
      BY <2>2, <1>1, <1>2, <1>5, <1>6
    <3>3. CASE j = Len(old) + 1 /\ k = Len(old) + 1
      BY <3>3
    <3>4. CASE j # Len(old) + 1 /\ k = Len(old) + 1
      BY <3>1, <3>2, <3>4
    <3>5. CASE j = Len(old) + 1 /\ k # Len(old) + 1
      BY <3>1, <3>2, <3>5
    <3>6. CASE j # Len(old) + 1 /\ k # Len(old) + 1
      BY <3>1, <3>6 DEF EngineInv, RuleReportedOnce
    <3> QED BY <3>3, <3>4, <3>5, <3>6
  <2> QED BY <2>1, <2>2
<1>12. Weights(result.triggered) /\ Total(result.triggered) \in Int
  BY <1>3, ResultWeights, TotalType
<1>13. scoreRules(triggered, m.cfg.weight) = Total(result.triggered)
  BY <1>1, <1>12, ScoreIsTotal DEF Weights
<1>14. /\ \A k \in DOMAIN old : Reported(Append(old, result), k) = Reported(old, k)
       /\ Total(Reported(old, Len(old))) \in Int
       /\ Total(Reported(Append(old, result), Len(old) + 1))
              = Total(Reported(old, Len(old))) + Total(result.triggered)
  <2>1. \A k \in DOMAIN old : Weights(old[k].triggered)
    BY <1>8, ResultWeights DEF EngineInv, Held
  <2> QED BY <1>4, <1>12, <2>1, ReportedAppends
<1>15. StateOf(m.id).accumulatedScore = Total(Reported(old, Len(old)))
  <2>1. CASE m.id \in DOMAIN results
    BY <2>1 DEF EngineInv, Accounted, StateOf, ResultsOf
  <2>2. CASE m.id \notin DOMAIN results
    <3>1. StateOf(m.id).accumulatedScore = 0 /\ old = << >>
      BY <2>2 DEF EngineInv, Accounted, StateOf, ResultsOf, NewState
    <3>2. DOMAIN Reported(old, Len(old)) = {}
      BY <3>1 DEF Reported
    <3> QED BY <3>1, <3>2, TotalOfNothing
  <2> QED BY <2>1, <2>2
<1>16. /\ score = Total(Reported(Append(old, result), Len(old) + 1)) /\ score \in Int
       /\ Len(Append(old, result)) = Len(old) + 1
  BY <1>1, <1>4, <1>5, <1>12, <1>13, <1>14, <1>15
<1>17. Accounted'
  <2>1. DOMAIN states' = DOMAIN results'
    BY <1>6, <1>7 DEF EngineInv, Accounted
  <2> SUFFICES ASSUME NEW id \in DOMAIN results'
               PROVE  /\ states'[id].accumulatedScore
                            = Total(Reported(results'[id], Len(results'[id])))
                      /\ \A k \in DOMAIN results'[id] :
                            results'[id][k].score = Total(Reported(results'[id], k))
    BY <2>1 DEF Accounted
  <2>2. CASE id # m.id
    BY <2>2, <1>6, <1>7 DEF EngineInv, Accounted
  <2>3. CASE id = m.id
    <3>1. states'[id].accumulatedScore = Total(Reported(results'[id], Len(results'[id])))
      BY <2>3, <1>6, <1>7, <1>16
    <3>2. ASSUME NEW k \in DOMAIN results'[id]
          PROVE  results'[id][k].score = Total(Reported(results'[id], k))
      <4>1. CASE k = Len(old) + 1
        BY <2>3, <4>1, <1>1, <1>5, <1>6, <1>16
      <4>2. CASE k # Len(old) + 1
        <5>1. k \in DOMAIN old
          BY <2>3, <4>2, <1>5, <1>6
        <5>2. old[k].score = Total(Reported(old, k))
          BY <5>1, <1>8 DEF EngineInv, Accounted
        <5> QED BY <2>3, <5>1, <5>2, <1>5, <1>6, <1>14
      <4> QED BY <4>1, <4>2
    <3> QED BY <3>1, <3>2
  <2> QED BY <2>2, <2>3
<1>18. Agrees(result)
  <2>1. m.cfg.log \in Int /\ m.cfg.alert \in Int /\ m.cfg.log <= m.cfg.alert
    BY <1>2, ConfigsAssumption DEF LoadableConfigs, ThresholdsAreOrdered
  <2> QED BY <1>1, <1>16, <2>1
          DEF Agrees, CrossesAlertThreshold, GoesToAuditLog, actionFor
<1>19. Agreement'
  <2> SUFFICES ASSUME NEW id \in DOMAIN results', NEW k \in DOMAIN results'[id]
               PROVE  Agrees(results'[id][k])
    BY DEF Agreement, Agrees, CrossesAlertThreshold, GoesToAuditLog
  <2>1. CASE id # m.id
    BY <2>1, <1>6 DEF EngineInv, Agreement
  <2>2. CASE id = m.id /\ k = Len(old) + 1
    BY <2>2, <1>5, <1>6, <1>18
  <2>3. CASE id = m.id /\ k # Len(old) + 1
    <3>1. k \in DOMAIN old
      BY <2>3, <1>5, <1>6
    <3> QED BY <2>3, <3>1, <1>5, <1>6, <1>8 DEF EngineInv, Agreement
  <2> QED BY <2>1, <2>2, <2>3
<1> QED BY <1>9, <1>10, <1>11, <1>17, <1>19 DEF EngineInv

LEMMA NextEngine == EngineInv /\ [Next]_decisionVars => EngineInv'
<1> SUFFICES ASSUME EngineInv, [Next]_decisionVars PROVE EngineInv'
  OBVIOUS
<1>1. CASE Evaluate
  BY <1>1, MatchPreserves DEF Evaluate
<1>2. CASE ScoreMatched
  BY <1>2, ScorePreserves
<1>3. CASE JanitorCloses
  BY <1>3, ClosePreserves DEF JanitorCloses
<1>4. CASE SighupReloads
  BY <1>4, ReloadPreserves DEF SighupReloads
<1>5. CASE UNCHANGED decisionVars
  <2>1. UNCHANGED <<states, results>>
    BY <1>5 DEF decisionVars
  <2>2. Accounted' /\ Agreement'
    BY <2>1 DEF EngineInv, Accounted, Agreement, Agrees, CrossesAlertThreshold, GoesToAuditLog
  <2> QED BY <1>5, <2>2
          DEF decisionVars, EngineInv, Held, Remembered, StateOf, RuleReportedOnce
<1> QED BY <1>1, <1>2, <1>3, <1>4, <1>5 DEF Next

LEMMA EngineInvariant == Spec => []EngineInv
  BY InitEngine, NextEngine, PTL DEF Spec

LEMMA EngineImplies ==
    EngineInv => /\ RuleReportedOnce /\ ResultOfOneConfig
                 /\ ReportedScoreIsSum /\ ActionAgreesWithLogs
<1> SUFFICES ASSUME EngineInv PROVE ResultOfOneConfig /\ ActionAgreesWithLogs
  BY DEF EngineInv, Accounted, Reported, ReportedScoreIsSum
<1> SUFFICES ASSUME NEW r \in Results
             PROVE  /\ \E c \in LoadableConfigs :
                       /\ r.logThreshold = c.log /\ r.alertThreshold = c.alert
                       /\ DOMAIN r.triggered \subseteq DOMAIN c.weight
                       /\ \A rule \in DOMAIN r.triggered : r.triggered[rule] = c.weight[rule]
                    /\ Agrees(r)
  BY DEF ResultOfOneConfig, ActionAgreesWithLogs, Agrees
<1>1. PICK id \in DOMAIN results : r \in Range(results[id])
  BY DEF Results
<1>2. PICK k \in DOMAIN results[id] : r = results[id][k]
  BY <1>1 DEF Range
<1> QED BY <1>2 DEF EngineInv, Held, Result, Agreement

-----------------------------------------------------------------------------
(* The reload goroutine and the event.  What they do to the engine is what the
   engine's own operations do.                                              *)
Locals ==
    /\ reloader = [at |-> reloader.at, cfg |-> reloader.cfg]
    /\ event = [at |-> event.at, id |-> event.id, seen |-> event.seen]
    /\ reloader.at = "rules" => reloader.cfg \in Configs
    /\ event.at # "idle" => event.id \in SessionIDs

LEMMA InitLocals == ReloadInit => Locals
  BY DEF ReloadInit, Locals, Waiting, NoEvent

LEMMA NextLocals == Locals /\ [ReloadNext]_reloadVars => Locals'
<1> SUFFICES ASSUME Locals, [ReloadNext]_reloadVars PROVE Locals'
  OBVIOUS
<1> USE DEF Locals
<1>1. CASE Edit \/ Hup \/ CloseOut \/ StopReload
  BY <1>1 DEF Edit, Hup, CloseOut, StopReload
<1>2. CASE ReceiveSignal
  BY <1>2 DEF ReceiveSignal
<1>3. CASE LoadConfig
  BY <1>3 DEF LoadConfig, Waiting, LoadableConfigs
<1>4. CASE ReplaceRules \/ ConfigureHeuristics \/ ConfigureFilters \/ ReloaderStops
  BY <1>4 DEF ReplaceRules, ConfigureHeuristics, ConfigureFilters, ReloaderStops, Waiting
<1>5. CASE TakeEvent
  BY <1>5 DEF TakeEvent
<1>6. CASE DeriveContext
  BY <1>6 DEF DeriveContext
<1>7. CASE EvaluateMatches
  <2>1. reloader' = reloader
        /\ event' = [event EXCEPT !.at = "score", !.seen = Read("rules")]
    BY <1>7 DEF EvaluateMatches
  <2>2. event' = [at |-> "score", id |-> event.id, seen |-> Read("rules")]
    BY <2>1
  <2>3. event.id \in SessionIDs
    BY <1>7 DEF EvaluateMatches
  <2> QED BY <2>1, <2>2, <2>3
<1>9. CASE EvaluateScores
  <2>1. reloader' = reloader /\ event' = NoEvent
    BY <1>9 DEF EvaluateScores
  <2> QED BY <2>1 DEF NoEvent
<1>8. CASE UNCHANGED reloadVars
  BY <1>8 DEF reloadVars
<1> QED BY <1>1, <1>2, <1>3, <1>4, <1>5, <1>6, <1>7, <1>8, <1>9
        DEF ReloadNext, ReloaderStep, Stopped

LEMMA StepOfEngine == Locals /\ [ReloadNext]_reloadVars => [Next]_decisionVars
<1> SUFFICES ASSUME Locals, [ReloadNext]_reloadVars PROVE [Next]_decisionVars
  OBVIOUS
<1>1. CASE \/ Edit \/ Hup \/ ReceiveSignal \/ LoadConfig \/ ConfigureHeuristics
           \/ ConfigureFilters \/ ReloaderStops
  BY <1>1 DEF Edit, Hup, ReceiveSignal, LoadConfig, ConfigureHeuristics, ConfigureFilters,
              ReloaderStops, decisionVars
<1>2. CASE ReplaceRules
  BY <1>2 DEF ReplaceRules, Locals, Next, SighupReloads
<1>3. CASE TakeEvent \/ DeriveContext \/ StopReload
  BY <1>3 DEF TakeEvent, DeriveContext, StopReload, decisionVars
<1>4. CASE EvaluateMatches
  BY <1>4 DEF EvaluateMatches, Locals, Next, Evaluate
<1>5. CASE EvaluateScores
  BY <1>5 DEF EvaluateScores, Next
<1>6. CASE CloseOut
  BY <1>6 DEF CloseOut, Next
<1>7. CASE UNCHANGED reloadVars
  BY <1>7 DEF reloadVars, decisionVars
<1> QED BY <1>1, <1>2, <1>3, <1>4, <1>5, <1>6, <1>7 DEF ReloadNext, ReloaderStep, Stopped

(* The engine beside the reload goroutine, the event and the janitor is the
   engine of DecisionEngine: they reach its state by its operations only.   *)
THEOREM ReloadIsEngine == ReloadSpec => Spec
<1>1. ReloadInit => Init
  BY DEF ReloadInit
<1> QED BY <1>1, InitLocals, NextLocals, StepOfEngine, PTL DEF ReloadSpec, Spec

(* Whatever rules match at whatever event, and however often the rule file is
   reloaded and the session's account closed between and within evaluations,
   a session is charged for a rule name at most once per account
   (decision.go:57-92).                                                     *)
THEOREM RulesAreReportedOnce == ReloadSpec => []RuleReportedOnce
  BY EngineInvariant, EngineImplies, ReloadIsEngine, PTL

(* No result mixes the weights or thresholds of two rule files, wherever a
   reload falls between the two locks of an evaluation (rule.go, Evaluate). *)
THEOREM ResultsAreOfOneConfig == ReloadSpec => []ResultOfOneConfig
  BY EngineInvariant, EngineImplies, ReloadIsEngine, PTL

(* Whatever falls between the events of a session, the score of each result is
   the sum of what the account has reported up to it, at the weights it was
   reported with (decision.go:57-92).                                       *)
THEOREM ScoresAreSums == ReloadSpec => []ReportedScoreIsSum
  BY EngineInvariant, EngineImplies, ReloadIsEngine, PTL

(* The engine's choice of an action and the monitor's choice of log files never
   disagree, for every pair of thresholds that a file may load and every sign
   of the weights (decision.go:69-83 against monitor.go:246, 254).          *)
THEOREM ActionsAgree == ReloadSpec => []ActionAgreesWithLogs
  BY EngineInvariant, EngineImplies, ReloadIsEngine, PTL

-----------------------------------------------------------------------------
(* The order of swaps and reads.  The rules are ahead of the heuristics by one
   swap while the goroutine is between the two, and these of the filters.   *)
SwapOrder ==
    /\ swaps["rules"] \in Nat /\ swaps["heuristics"] \in Nat /\ swaps["filters"] \in Nat
    /\ DOMAIN swaps = {"rules", "heuristics", "filters"}
    /\ swaps["heuristics"] = swaps["rules"] - (IF reloader.at = "heuristics" THEN 1 ELSE 0)
    /\ swaps["filters"] =
          swaps["rules"] - (IF reloader.at \in {"heuristics", "filters"} THEN 1 ELSE 0)

(* What an event has read is no newer than what is in force, of its own part
   and of those that are replaced before it; the rules it reads last.       *)
ReadOrder ==
    /\ \E S : event.seen \in Seq(S)
    /\ event.at \in {"idle", "observe", "apply", "match", "score"}
    /\ event.at = "idle" => event.seen = << >>
    /\ \A i \in DOMAIN event.seen :
          /\ event.seen[i].swap \in Nat
          /\ event.seen[i].swap <= swaps["rules"]
          /\ event.seen[i].part \in {"lineage", "filters", "heuristics", "rules"}
          /\ event.seen[i].part = "heuristics" => event.seen[i].swap <= swaps["heuristics"]
          /\ event.seen[i].part = "filters" => event.seen[i].swap <= swaps["filters"]
          /\ event.at # "score" => event.seen[i].part # "rules"

ReadInv == Locals /\ SwapOrder /\ ReadOrder /\ EventReadsForward

LEMMA InitRead == ReloadInit => ReadInv
<1> SUFFICES ASSUME ReloadInit PROVE ReadInv
  OBVIOUS
<1>1. SwapOrder /\ Locals
  BY InitLocals DEF ReloadInit, SwapOrder, Waiting
<1>2. event.seen = << >> /\ event.at = "idle"
  BY DEF ReloadInit, NoEvent
<1>3. << >> \in Seq({})
  OBVIOUS
<1> QED BY <1>1, <1>2, <1>3 DEF ReadInv, ReadOrder, EventReadsForward

(* Swaps only grow, so a step that leaves the event alone keeps the reads in
   order, provided it keeps the swaps in theirs.                            *)
LEMMA SwapPreserves ==
    ASSUME ReadInv, Locals', SwapOrder', UNCHANGED event,
           swaps["rules"] <= swaps'["rules"],
           swaps["heuristics"] <= swaps'["heuristics"],
           swaps["filters"] <= swaps'["filters"]
    PROVE  ReadInv'
<1>1. ReadOrder'
  BY DEF ReadInv, ReadOrder, SwapOrder
<1>2. EventReadsForward'
  BY DEF ReadInv, EventReadsForward
<1> QED BY <1>1, <1>2 DEF ReadInv

(* One more read of the part in force: behind it are only reads that are as
   old or older.                                                            *)
LEMMA ReadPreserves ==
    ASSUME ReadInv, Locals', NEW part \in {"heuristics", "rules"},
           event.at # "score",
           event'.at \in {"apply", "match", "score"},
           event'.at # "score" => part = "heuristics",
           event'.seen = Read(part),
           UNCHANGED <<swaps, reloader>>
    PROVE  ReadInv'
<1> DEFINE old == event.seen
           x == [part |-> part, swap |-> swaps[part]]
<1>1. PICK S : old \in Seq(S)
  BY DEF ReadInv, ReadOrder
<1>2. /\ Append(old, x) \in Seq(S \cup {x})
      /\ Len(old) \in Nat /\ DOMAIN old = 1 .. Len(old)
      /\ DOMAIN Append(old, x) = 1 .. (Len(old) + 1)
      /\ \A k \in DOMAIN old : Append(old, x)[k] = old[k]
      /\ Append(old, x)[Len(old) + 1] = x
  BY <1>1, AppendLemma
<1>3. event'.seen = Append(old, x)
  BY DEF Read
<1>4. SwapOrder'
  BY DEF ReadInv, SwapOrder
<1>5. /\ swaps["filters"] <= swaps["heuristics"] /\ swaps["heuristics"] <= swaps["rules"]
      /\ swaps["filters"] \in Nat /\ swaps["heuristics"] \in Nat /\ swaps["rules"] \in Nat
  BY DEF ReadInv, SwapOrder
<1>6. \A i \in DOMAIN event'.seen : i \in DOMAIN old \/ i = Len(old) + 1
  BY <1>2, <1>3
<1>7. ReadOrder'
  <2>1. \A i \in DOMAIN event'.seen :
          /\ event'.seen[i].swap \in Nat
          /\ event'.seen[i].swap <= swaps["rules"]
          /\ event'.seen[i].part \in {"lineage", "filters", "heuristics", "rules"}
          /\ event'.seen[i].part = "heuristics" => event'.seen[i].swap <= swaps["heuristics"]
          /\ event'.seen[i].part = "filters" => event'.seen[i].swap <= swaps["filters"]
          /\ event'.at # "score" => event'.seen[i].part # "rules"
    <3> SUFFICES ASSUME NEW i \in DOMAIN event'.seen
                 PROVE  /\ event'.seen[i].swap \in Nat
                        /\ event'.seen[i].swap <= swaps["rules"]
                        /\ event'.seen[i].part \in {"lineage", "filters", "heuristics", "rules"}
                        /\ event'.seen[i].part = "heuristics" => event'.seen[i].swap <= swaps["heuristics"]
                        /\ event'.seen[i].part = "filters" => event'.seen[i].swap <= swaps["filters"]
                        /\ event'.at # "score" => event'.seen[i].part # "rules"
      OBVIOUS
    <3>1. CASE i \in DOMAIN old
      BY <3>1, <1>2, <1>3 DEF ReadInv, ReadOrder
    <3>2. CASE i = Len(old) + 1
      BY <3>2, <1>2, <1>3, <1>5
    <3> QED BY <3>1, <3>2, <1>6
  <2>2. \E T : event'.seen \in Seq(T)
    BY <1>2, <1>3
  <2> QED BY <2>1, <2>2 DEF ReadOrder
<1>8. EventReadsForward'
  <2> SUFFICES ASSUME NEW i \in DOMAIN event'.seen, NEW j \in DOMAIN event'.seen, i < j
               PROVE  \/ event'.seen[i].swap <= event'.seen[j].swap
                      \/ event'.seen[i].part = "lineage" /\ event'.seen[j].part # "rules"
    BY DEF EventReadsForward
  <2>1. CASE j \in DOMAIN old
    <3>1. i \in DOMAIN old
      BY <2>1, <1>2, <1>6
    <3> QED BY <2>1, <3>1, <1>2, <1>3 DEF ReadInv, EventReadsForward
  <2>2. CASE j = Len(old) + 1
    <3>1. i \in DOMAIN old
      BY <2>2, <1>2, <1>6
    <3>2. /\ event'.seen[j].part = part /\ event'.seen[j].swap = swaps[part]
          /\ event'.seen[i] = old[i]
      BY <2>2, <3>1, <1>2, <1>3
    <3>3. /\ old[i].swap \in Nat /\ old[i].swap <= swaps["rules"]
          /\ old[i].part \in {"lineage", "filters", "heuristics"}
          /\ old[i].part = "heuristics" => old[i].swap <= swaps["heuristics"]
          /\ old[i].part = "filters" => old[i].swap <= swaps["filters"]
      BY <3>1 DEF ReadInv, ReadOrder
    <3> QED BY <3>2, <3>3, <1>5
  <2> QED BY <2>1, <2>2, <1>6
<1> QED BY <1>4, <1>7, <1>8 DEF ReadInv

LEMMA NextRead == ReadInv /\ [ReloadNext]_reloadVars => ReadInv'
<1> SUFFICES ASSUME ReadInv, [ReloadNext]_reloadVars PROVE ReadInv'
  OBVIOUS
<1>0. Locals /\ Locals'
  BY NextLocals DEF ReadInv
<1>1. ASSUME UNCHANGED <<swaps, event>>, SwapOrder' PROVE ReadInv'
  <2>1. /\ swaps'["rules"] = swaps["rules"] /\ swaps'["heuristics"] = swaps["heuristics"]
        /\ swaps'["filters"] = swaps["filters"]
    BY <1>1
  <2>2. swaps["rules"] \in Nat /\ swaps["heuristics"] \in Nat /\ swaps["filters"] \in Nat
    BY DEF ReadInv, SwapOrder
  <2> QED BY <1>0, <1>1, <2>1, <2>2, SwapPreserves
<1>2. CASE Edit \/ Hup \/ CloseOut \/ StopReload \/ UNCHANGED reloadVars
  <2>1. UNCHANGED <<swaps, event, reloader>>
    BY <1>2 DEF Edit, Hup, CloseOut, StopReload, reloadVars
  <2> QED BY <1>1, <2>1 DEF ReadInv, SwapOrder
<1>3. CASE ReceiveSignal \/ LoadConfig \/ ReloaderStops
  <2>1. UNCHANGED <<swaps, event>>
    BY <1>3 DEF ReceiveSignal, LoadConfig, ReloaderStops
  <2>2. /\ reloader.at \notin {"heuristics", "filters"}
        /\ reloader'.at \notin {"heuristics", "filters"}
    BY <1>0, <1>3 DEF ReceiveSignal, LoadConfig, ReloaderStops, Waiting, Locals
  <2> QED BY <1>1, <2>1, <2>2 DEF ReadInv, SwapOrder
<1>4. CASE ReplaceRules
  <2>1. UNCHANGED event /\ reloader.at = "rules" /\ reloader'.at = "heuristics"
    BY <1>4 DEF ReplaceRules
  <2>2. swaps' = [swaps EXCEPT !["rules"] = @ + 1]
    BY <1>4 DEF ReplaceRules, Swapped
  <2>3. SwapOrder' /\ swaps["rules"] <= swaps'["rules"]
        /\ swaps["heuristics"] <= swaps'["heuristics"] /\ swaps["filters"] <= swaps'["filters"]
    BY <2>1, <2>2 DEF ReadInv, SwapOrder
  <2> QED BY <1>0, <2>1, <2>3, SwapPreserves
<1>5. CASE ConfigureHeuristics
  <2>1. UNCHANGED event /\ reloader.at = "heuristics" /\ reloader'.at = "filters"
    BY <1>0, <1>5 DEF ConfigureHeuristics, Locals
  <2>2. swaps' = [swaps EXCEPT !["heuristics"] = @ + 1]
    BY <1>5 DEF ConfigureHeuristics, Swapped
  <2>3. SwapOrder' /\ swaps["rules"] <= swaps'["rules"]
        /\ swaps["heuristics"] <= swaps'["heuristics"] /\ swaps["filters"] <= swaps'["filters"]
    BY <2>1, <2>2 DEF ReadInv, SwapOrder
  <2> QED BY <1>0, <2>1, <2>3, SwapPreserves
<1>6. CASE ConfigureFilters
  <2>1. UNCHANGED event /\ reloader.at = "filters" /\ reloader'.at = "wait"
    BY <1>6 DEF ConfigureFilters, Waiting
  <2>2. swaps' = [swaps EXCEPT !["filters"] = @ + 1]
    BY <1>6 DEF ConfigureFilters, Swapped
  <2>3. SwapOrder' /\ swaps["rules"] <= swaps'["rules"]
        /\ swaps["heuristics"] <= swaps'["heuristics"] /\ swaps["filters"] <= swaps'["filters"]
    BY <2>1, <2>2 DEF ReadInv, SwapOrder
  <2> QED BY <1>0, <2>1, <2>3, SwapPreserves
<1>7. CASE TakeEvent
  <2>1. PICK id \in SessionIDs, first \in {<< >>, Read("filters"), << LineageDepth >>} :
           event' = [at |-> "observe", id |-> id, seen |-> first]
    BY <1>7 DEF TakeEvent
  <2>2. UNCHANGED <<swaps, reloader>> /\ event.at = "idle"
    BY <1>7 DEF TakeEvent
  <2>3. SwapOrder'
    BY <2>2 DEF ReadInv, SwapOrder
  <2>4. event.seen = << >>
    BY <2>2 DEF ReadInv, ReadOrder
  <2>5. PICK x : /\ first = << >> \/ first = << x >>
                 /\ \/ x.part = "filters" /\ x.swap = swaps["filters"]
                    \/ x.part = "lineage" /\ x.swap = swaps["rules"]
    <3>1. CASE first = << LineageDepth >>
      BY <3>1 DEF LineageDepth
    <3>2. CASE first = Read("filters") \/ first = << >>
      <4>1. Read("filters") = << [part |-> "filters", swap |-> swaps["filters"]] >>
        BY <2>4 DEF Read
      <4> QED BY <3>2, <4>1
    <3> QED BY <3>1, <3>2, <2>1
  <2>6. /\ event'.at = "observe" /\ event'.seen = first
        /\ x.swap \in Nat /\ x.swap <= swaps["rules"]
    BY <2>1, <2>5 DEF ReadInv, SwapOrder
  <2>7. \A i \in DOMAIN first : i = 1 /\ first[i] = x
    BY <2>5
  <2>8. \E S : first \in Seq(S)
    <3>1. << >> \in Seq({x}) /\ << x >> \in Seq({x})
      OBVIOUS
    <3> QED BY <3>1, <2>5
  <2>9. ReadOrder'
    BY <2>2, <2>5, <2>6, <2>7, <2>8 DEF ReadOrder
  <2>10. EventReadsForward'
    BY <2>6, <2>7 DEF EventReadsForward
  <2> QED BY <1>0, <2>3, <2>9, <2>10 DEF ReadInv
<1>8. CASE DeriveContext
  <2>1. /\ event.at # "score" /\ event'.at \in {"apply", "match"}
        /\ event'.seen = Read("heuristics") /\ UNCHANGED <<swaps, reloader>>
    BY <1>0, <1>8 DEF DeriveContext, Locals
  <2> QED BY <1>0, <2>1, ReadPreserves
<1>9. CASE EvaluateMatches
  <2>1. /\ event.at # "score" /\ event'.at = "score"
        /\ event'.seen = Read("rules") /\ UNCHANGED <<swaps, reloader>>
    BY <1>0, <1>9 DEF EvaluateMatches, Locals
  <2> QED BY <1>0, <2>1, ReadPreserves
<1>10. CASE EvaluateScores
  <2>1. event'.seen = << >> /\ event'.at = "idle" /\ UNCHANGED <<swaps, reloader>>
    BY <1>10 DEF EvaluateScores, NoEvent
  <2>2. << >> \in Seq({})
    OBVIOUS
  <2> QED BY <1>0, <2>1, <2>2 DEF ReadInv, SwapOrder, ReadOrder, EventReadsForward
<1> QED BY <1>2, <1>3, <1>4, <1>5, <1>6, <1>7, <1>8, <1>9, <1>10
        DEF ReloadNext, ReloaderStep, Stopped

(* However a reload is interleaved with an event, the event never reads a part
   of the configuration that is older than one it read before, the lineage
   depth excepted (main.go:306-318 against pipeline.go:61-125).             *)
THEOREM EventsReadForward == ReloadSpec => []EventReadsForward
<1>1. ReadInv => EventReadsForward
  BY DEF ReadInv
<1> QED BY <1>1, InitRead, NextRead, PTL DEF ReloadSpec
=============================================================================
