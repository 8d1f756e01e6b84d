---------------------------- MODULE ProviderProofs ----------------------------
(***************************************************************************)
(* Proof that the endpoints in force are those of one complete resolution, *)
(* for every set of hosts, addresses and configurations.                   *)
(*                                                                         *)
(* The invariant says of a pass that is under way what the property says   *)
(* of a finished one: what was found so far is what some answers, one for  *)
(* each target looked up, all held since the pass began.                   *)
(***************************************************************************)
EXTENDS Provider, TLAPS

(* What the answers to the first n targets make of endpoints. *)
Found(targets, answer, n) == UNION {EndpointsOf(answer[i], targets[i]) : i \in 1 .. n}

(* The endpoints are those of one answer for each of the first n targets. *)
OfOnePass(targets, n, answers, endpoints) ==
    \E answer \in [1 .. n -> Answers \ {Fails}] :
        /\ \A i \in 1 .. n : answer[i] \in answers[targets[i].host]
        /\ endpoints = Found(targets, answer, n)

IInv ==
    /\ config.targets \in Seq(Target)
    /\ looked \in 0 .. Len(config.targets)
    /\ held \in [Hosts -> SUBSET Answers]
    /\ names \in [Hosts -> Answers]
    /\ \A h \in Hosts : names[h] \in held[h]
    /\ Resolving => OfOnePass(config.targets, looked, held, out)
    /\ EndpointsOfOnePass

(* A pass that has not looked anything up has found nothing. *)
LEMMA NothingYet ==
    ASSUME NEW targets, NEW answers
    PROVE  OfOnePass(targets, 0, answers, {})
<1>1. 1 .. 0 = {}
  OBVIOUS
<1>2. [i \in 1 .. 0 |-> Fails] \in [1 .. 0 -> Answers \ {Fails}]
  BY <1>1
<1> QED BY <1>1, <1>2 DEF OfOnePass, Found

LEMMA InitIInv == Init => IInv
<1> SUFFICES ASSUME Init PROVE IInv
  OBVIOUS
<1>1. config.targets \in Seq(Target)
  BY ConfigsAssumption DEF Init
<1>2. held \in [Hosts -> SUBSET Answers] /\ \A h \in Hosts : names[h] \in held[h]
  BY DEF Init, Current
<1>3. looked \in 0 .. Len(config.targets)
  BY <1>1 DEF Init
<1>4. OfOnePass(config.targets, looked, held, out)
  BY NothingYet DEF Init
<1>5. EndpointsOfOnePass
  BY DEF Init, EndpointsOfOnePass, NoClassifier
<1> QED BY <1>1, <1>2, <1>3, <1>4, <1>5 DEF IInv, Init

LEMMA LookUpKeeps == IInv /\ LookUp => IInv'
<1> SUFFICES ASSUME IInv, LookUp PROVE IInv'
  OBVIOUS
<1>1. PICK n : n = looked + 1
  OBVIOUS
<1>2. PICK new : new = names[config.targets[n].host]
  OBVIOUS
<1>3. /\ Resolving /\ n \in 1 .. Len(config.targets)
      /\ looked' = n /\ n - 1 = looked
      /\ new # Fails
      /\ out' = out \cup EndpointsOf(new, config.targets[n])
      /\ UNCHANGED <<config, names, at, held, installed>>
  BY <1>1, <1>2 DEF IInv, LookUp, NextTarget
<1>4. config.targets[n] \in Target
  BY <1>3 DEF IInv
<1>5. new \in Answers \ {Fails} /\ new \in held[config.targets[n].host]
  BY <1>2, <1>3, <1>4 DEF IInv, Target
<1>6. PICK answer \in [1 .. looked -> Answers \ {Fails}] :
          /\ \A i \in 1 .. looked : answer[i] \in held[config.targets[i].host]
          /\ out = Found(config.targets, answer, looked)
  BY <1>3 DEF IInv, OfOnePass
<1> DEFINE longer == [i \in 1 .. n |-> IF i = n THEN new ELSE answer[i]]
<1>7. longer \in [1 .. n -> Answers \ {Fails}]
  BY <1>3, <1>5, <1>6 DEF IInv
<1>8. \A i \in 1 .. n : longer[i] \in held[config.targets[i].host]
  BY <1>3, <1>5, <1>6 DEF IInv
<1>9. out' = Found(config.targets, longer, n)
  <2>1. \A i \in 1 .. looked : longer[i] = answer[i] /\ i \in 1 .. n
    BY <1>3 DEF IInv
  <2>2. longer[n] = new /\ n \in 1 .. n
    BY <1>3
  <2>3. \A i \in 1 .. n : i \in 1 .. looked \/ i = n
    BY <1>3 DEF IInv
  <2> HIDE DEF longer
  <2> QED BY <2>1, <2>2, <2>3, <1>3, <1>6 DEF Found
<1>10. OfOnePass(config.targets, n, held, out')
  BY <1>7, <1>8, <1>9 DEF OfOnePass
<1>11. EndpointsOfOnePass'
  BY <1>3 DEF IInv, EndpointsOfOnePass, installed
<1>12. OfOnePass(config'.targets, looked', held', out')
  BY <1>3, <1>10
<1>13. /\ config'.targets \in Seq(Target)
       /\ looked' \in 0 .. Len(config'.targets)
       /\ held' \in [Hosts -> SUBSET Answers]
       /\ names' \in [Hosts -> Answers]
       /\ \A h \in Hosts : names'[h] \in held'[h]
  BY <1>3 DEF IInv
<1> QED BY <1>11, <1>12, <1>13 DEF IInv

LEMMA InstallKeeps == IInv /\ Install => IInv'
<1> SUFFICES ASSUME IInv, Install PROVE IInv'
  OBVIOUS
<1>1. /\ Resolving /\ looked = Len(config.targets)
      /\ classifier' = [nil |-> FALSE, endpoints |-> out]
      /\ source' = held
      /\ UNCHANGED <<config, names, looked, out, held>>
      /\ at' \in {"waiting", "ended"}
  BY DEF Install, ReplaceEndpoints, NewClassifier
<1>2. DOMAIN config.targets = 1 .. looked
  BY <1>1 DEF IInv
<1>3. PICK answer \in [1 .. looked -> Answers \ {Fails}] :
          /\ \A i \in 1 .. looked : answer[i] \in held[config.targets[i].host]
          /\ out = Found(config.targets, answer, looked)
  BY <1>1 DEF IInv, OfOnePass
<1>4. EndpointsOfOnePass'
  <2>1. answer \in [DOMAIN config.targets -> Answers \ {Fails}]
    BY <1>2, <1>3
  <2>2. \A i \in DOMAIN config.targets : answer[i] \in source'[config.targets[i].host]
    BY <1>1, <1>2, <1>3
  <2>3. classifier'.endpoints =
            UNION {EndpointsOf(answer[i], config.targets[i]) : i \in DOMAIN config.targets}
    BY <1>1, <1>2, <1>3 DEF Found
  <2> QED BY <2>1, <2>2, <2>3, <1>1 DEF EndpointsOfOnePass, EndpointsOf
<1>5. ~Resolving'
  BY <1>1 DEF Resolving
<1> QED BY <1>1, <1>4, <1>5 DEF IInv

LEMMA RefreshKeeps == IInv /\ Refresh => IInv'
<1> SUFFICES ASSUME IInv, Refresh PROVE IInv'
  OBVIOUS
<1>1. /\ looked' = 0 /\ out' = {} /\ held' = Current
      /\ UNCHANGED <<config, names, installed>>
  BY DEF Refresh
<1>4. OfOnePass(config'.targets, looked', held', out')
  BY <1>1, NothingYet
<1>5. /\ held' \in [Hosts -> SUBSET Answers]
      /\ \A h \in Hosts : names'[h] \in held'[h]
  BY <1>1 DEF IInv, Current
<1>6. EndpointsOfOnePass'
  BY <1>1 DEF IInv, EndpointsOfOnePass, installed
<1>7. looked' \in 0 .. Len(config'.targets)
  BY <1>1 DEF IInv
<1> QED BY <1>1, <1>4, <1>5, <1>6, <1>7 DEF IInv

(* More answers than before have held since the pass began. *)
LEMMA NameChangeKeeps == IInv /\ NameChanges => IInv'
<1> SUFFICES ASSUME IInv, NameChanges PROVE IInv'
  OBVIOUS
<1>1. PICK h \in Hosts, new \in Answers :
          /\ names' = [names EXCEPT ![h] = new]
          /\ held' = [held EXCEPT ![h] = @ \cup {new}]
  BY DEF NameChanges
<1>2. UNCHANGED <<config, at, looked, out, installed>>
  BY DEF NameChanges
<1>3. /\ names' \in [Hosts -> Answers] /\ held' \in [Hosts -> SUBSET Answers]
      /\ \A g \in Hosts : names'[g] \in held'[g]
  BY <1>1 DEF IInv
<1>4. \A g \in Hosts : held[g] \subseteq held'[g]
  BY <1>1 DEF IInv
<1>5. ASSUME Resolving'
      PROVE  OfOnePass(config.targets, looked, held', out)
  <2>1. Resolving
    BY <1>2, <1>5 DEF Resolving
  <2>2. PICK answer \in [1 .. looked -> Answers \ {Fails}] :
            /\ \A i \in 1 .. looked : answer[i] \in held[config.targets[i].host]
            /\ out = Found(config.targets, answer, looked)
    BY <2>1 DEF IInv, OfOnePass
  <2>3. ASSUME NEW i \in 1 .. looked
        PROVE  config.targets[i].host \in Hosts
    <3>1. i \in 1 .. Len(config.targets) /\ config.targets \in Seq(Target)
      BY DEF IInv
    <3>2. config.targets[i] \in Target
      BY <3>1
    <3> QED BY <3>2 DEF Target
  <2>4. \A i \in 1 .. looked : answer[i] \in held'[config.targets[i].host]
    BY <2>2, <2>3, <1>4
  <2> QED BY <2>2, <2>4 DEF OfOnePass
<1>6. EndpointsOfOnePass'
  BY <1>2 DEF IInv, EndpointsOfOnePass, installed
<1> QED BY <1>2, <1>3, <1>5, <1>6 DEF IInv

LEMMA OthersKeep ==
    ASSUME IInv, Resolving' => Resolving,
           UNCHANGED <<config, names, looked, out, held, installed>>
    PROVE  IInv'
<1>1. EndpointsOfOnePass'
  BY DEF IInv, EndpointsOfOnePass, installed
<1> QED BY <1>1 DEF IInv

LEMMA NextIInv == IInv /\ [Next]_vars => IInv'
<1> SUFFICES ASSUME IInv, [Next]_vars PROVE IInv'
  OBVIOUS
<1>1. CASE FailedLookup \/ RefreshEnds
  BY <1>1, OthersKeep DEF FailedLookup, RefreshEnds, Resolving
<1>2. CASE TickerFires \/ Stop \/ UNCHANGED vars
  BY <1>2, OthersKeep DEF TickerFires, Stop, vars, resolving, Resolving
<1> QED BY <1>1, <1>2, LookUpKeeps, InstallKeeps, RefreshKeeps, NameChangeKeeps
        DEF Next, Idle

(* Whatever the names do while they are looked up, one by one, and however many
   passes failed before or since, the endpoints are what one complete pass
   found: neither a gap nor a remnant (resolver.go:35-52, 88-93).           *)
THEOREM EndpointsAreOfOnePass == Spec => []EndpointsOfOnePass
<1>1. IInv => EndpointsOfOnePass
  BY DEF IInv
<1> QED BY <1>1, InitIInv, NextIInv, PTL DEF Spec
=============================================================================
