------------------------ MODULE SessionTrackerProofs ------------------------
(***************************************************************************)
(* Proofs about SessionTracker, for every Pids, Grace and bound.           *)
(*                                                                         *)
(* SingleWindow alone is not inductive: that a sweep or a new session does *)
(* not collide with an ended one needs the ids handed out so far to be     *)
(* partitioned into the live and the ended, and that every Session record  *)
(* is well formed.  IInv is the conjunction, proved once for the sweep     *)
(* that every operation starts with and then for each operation.           *)
(***************************************************************************)
EXTENDS SessionTracker, Sequences, TLAPS

(* Every end was swept with a time beyond its window, and that time was at
   most the skew ahead of the wall clock.                                   *)
EndTimes ==
    \A id \in DOMAIN endLog :
        /\ endLog[id].sweptAt > endLog[id].closedAt
        /\ endLog[id].sweptAt <= endLog[id].wall + MaxSkew

IInv == TypeOK /\ SingleWindow /\ SessionsAccountedFor /\ EndTimes

(* The facts of the sweep with `now`, in the order the proofs use them.     *)
SweepFacts(now) ==
    /\ ExpiredIds(now) \subseteq DOMAIN sessions
    /\ DOMAIN SessionsAfterSweep(now) = DOMAIN sessions \ ExpiredIds(now)
    /\ \A id \in DOMAIN SessionsAfterSweep(now) :
          SessionsAfterSweep(now)[id] = sessions[id]
    /\ DOMAIN SessionsAfterSweep(now) = {ActiveAfterSweep(now)} \ {NoSession}
    /\ ActiveAfterSweep(now) \in Nat

LEMMA SweepLemma ==
    ASSUME IInv, NEW STATE now
    PROVE  SweepFacts(now)
<1>1. ExpiredIds(now) \subseteq DOMAIN sessions
  BY DEF ExpiredIds
<1>2. /\ DOMAIN SessionsAfterSweep(now) = DOMAIN sessions \ ExpiredIds(now)
      /\ \A id \in DOMAIN SessionsAfterSweep(now) :
            SessionsAfterSweep(now)[id] = sessions[id]
  BY DEF SessionsAfterSweep, Restrict
<1>3. DOMAIN SessionsAfterSweep(now) = {ActiveAfterSweep(now)} \ {NoSession}
  BY <1>1, <1>2 DEF IInv, SingleWindow, ActiveAfterSweep, NoSession
<1>4. ActiveAfterSweep(now) \in Nat
  BY DEF IInv, TypeOK, ActiveAfterSweep, NoSession
<1> QED BY <1>1, <1>2, <1>3, <1>4 DEF SweepFacts

(* What the end log becomes under any sweep whose time is at most the skew
   ahead of the wall clock.                                                 *)
LEMMA EndLogLemma ==
    ASSUME IInv, NEW STATE now, now \in Nat, now <= clock + MaxSkew,
           expireSessionsLocked(now)
    PROVE  /\ DOMAIN endLog' = DOMAIN endLog \cup ExpiredIds(now)
           /\ endLog' \in [DOMAIN endLog' -> EndLine]
           /\ EndTimes'
           /\ \A id \in DOMAIN endLog : id \in DOMAIN endLog' /\ endLog'[id] = endLog[id]
<1>1. DOMAIN endLog' = DOMAIN endLog \cup ExpiredIds(now)
  BY DEF expireSessionsLocked
<1>2. ASSUME NEW id \in ExpiredIds(now)
      PROVE  /\ id \notin DOMAIN endLog
             /\ endLog'[id] = [closedAt |-> sessions[id].graceUntil,
                               sweptAt |-> now, wall |-> clock]
             /\ sessions[id].graceUntil \in Nat
             /\ now > sessions[id].graceUntil
  BY DEF expireSessionsLocked, EndLines, ExpiredIds, sessionExpired, IInv, TypeOK,
         SessionsAccountedFor, Session
<1>3. \A id \in DOMAIN endLog : endLog'[id] = endLog[id]
  BY <1>2 DEF expireSessionsLocked
<1>4. ASSUME NEW id \in DOMAIN endLog'
      PROVE  /\ endLog'[id] \in EndLine
             /\ endLog'[id].sweptAt > endLog'[id].closedAt
             /\ endLog'[id].sweptAt <= endLog'[id].wall + MaxSkew
  <2>1. CASE id \in ExpiredIds(now)
    <3>0. /\ endLog'[id] = [closedAt |-> sessions[id].graceUntil,
                            sweptAt |-> now, wall |-> clock]
          /\ sessions[id].graceUntil \in Nat
          /\ now > sessions[id].graceUntil
      BY <1>2, <2>1
    <3>1. clock \in Nat
      BY DEF IInv, TypeOK
    <3>2. /\ endLog'[id].sweptAt = now /\ endLog'[id].wall = clock
          /\ endLog'[id].closedAt = sessions[id].graceUntil
      BY <3>0
    <3>3. endLog'[id] \in EndLine
      BY <3>0, <3>1 DEF EndLine
    <3> QED BY <1>2, <2>1, <3>2, <3>3
  <2>2. CASE id \notin ExpiredIds(now)
    BY <2>2, <1>1, <1>3 DEF IInv, TypeOK, EndTimes
  <2> QED BY <2>1, <2>2
<1>5. endLog' \in [DOMAIN endLog' -> EndLine]
  BY <1>4 DEF expireSessionsLocked
<1>6. EndTimes'
  BY <1>4 DEF EndTimes
<1> QED BY <1>1, <1>3, <1>5, <1>6

LEMMA EventTimesLemma ==
    ASSUME IInv, NEW t \in EventTimes
    PROVE  t \in Nat /\ t <= clock + MaxSkew
  BY BoundsAssumption DEF EventTimes, Times, NoTime, IInv, TypeOK

-----------------------------------------------------------------------------
(* A sweep that changes nothing else keeps the invariant; it covers Expire,
   lookups, joins, and the exits that close nothing.                        *)
LEMMA SweepPreserves ==
    ASSUME IInv, NEW STATE now, now \in Nat, now <= clock + MaxSkew,
           expireSessionsLocked(now),
           sessions' = SessionsAfterSweep(now),
           activeSessionID' = ActiveAfterSweep(now),
           nextSessionID' = nextSessionID, clock' = clock,
           handed' \subseteq DOMAIN endLog \cup ExpiredIds(now),
           joinedClosing' \subseteq Pids
    PROVE  IInv'
<1>1. SweepFacts(now)
  BY SweepLemma
<1>2. /\ DOMAIN endLog' = DOMAIN endLog \cup ExpiredIds(now)
      /\ endLog' \in [DOMAIN endLog' -> EndLine]
      /\ EndTimes'
  BY EndLogLemma
<1>3. sessions' \in [DOMAIN sessions' -> Session]
  <2>1. \A id \in DOMAIN sessions' : sessions'[id] \in Session
    BY <1>1 DEF SweepFacts, IInv, TypeOK
  <2> QED BY <2>1 DEF SessionsAfterSweep, Restrict
<1>4. TypeOK'
  BY <1>1, <1>2, <1>3 DEF SweepFacts, IInv, TypeOK
<1>5. SingleWindow'
  BY <1>1 DEF SweepFacts, SingleWindow
<1>6. SessionsAccountedFor'
  BY <1>1, <1>2 DEF SweepFacts, IInv, SessionsAccountedFor
<1> QED BY <1>2, <1>4, <1>5, <1>6 DEF IInv

LEMMA StartPreserves ==
    ASSUME IInv, NEW pid \in Pids, NEW t \in EventTimes, StartSession(pid, t)
    PROVE  IInv'
<1> DEFINE new == nextSessionID
           record == [sessionPID |-> pid, createdAt |-> t, closingAt |-> NoTime,
                      graceUntil |-> NoTime]
<1>1. SweepFacts(t)
  BY SweepLemma
<1>2. t \in Nat /\ t <= clock + MaxSkew
  BY EventTimesLemma
<1>3. /\ DOMAIN endLog' = DOMAIN endLog \cup ExpiredIds(t)
      /\ endLog' \in [DOMAIN endLog' -> EndLine]
      /\ EndTimes'
  BY <1>2, EndLogLemma DEF StartSession
<1>4. DOMAIN SessionsAfterSweep(t) = {}
  (* no session accepts t, and the sweep with t removed those that do not *)
  <2> SUFFICES ASSUME NEW id \in DOMAIN SessionsAfterSweep(t) PROVE FALSE
    OBVIOUS
  <2>1. id = ActiveAfterSweep(t) /\ id # NoSession
    BY <1>1 DEF SweepFacts
  <2>2. SessionsAfterSweep(t)[id] = sessions[id] /\ id \notin ExpiredIds(t)
        /\ id \in DOMAIN sessions
    BY <1>1 DEF SweepFacts
  <2>3. AcceptsEvents(SessionsAfterSweep(t)[id], t)
    BY <2>2 DEF AcceptsEvents, ExpiredIds, sessionExpired
  <2>4. activeSession(t) = id
    BY <2>1, <2>3 DEF activeSession
  <2> QED BY <2>1, <2>4 DEF StartSession
<1>5. /\ DOMAIN sessions' = {new}
      /\ sessions'[new] = record
      /\ sessions' \in [DOMAIN sessions' -> Session]
  <2>1. record \in Session
    BY <1>2 DEF Session, NoTime
  <2> QED BY <1>4, <2>1 DEF StartSession
<1>6. nextSessionID \in Nat \ {0} /\ nextSessionID' = nextSessionID + 1
      /\ activeSessionID' = new
  BY DEF StartSession, IInv, TypeOK
<1>7. TypeOK'
  <2>1. DOMAIN endLog' \subseteq 1 .. (nextSessionID' - 1)
    BY <1>1, <1>3, <1>6 DEF SweepFacts, IInv, TypeOK
  <2>2. DOMAIN sessions' \subseteq 1 .. (nextSessionID' - 1)
    BY <1>5, <1>6
  <2>3. handed' \subseteq DOMAIN endLog' /\ joinedClosing' \subseteq Pids
        /\ clock' \in Nat \ {0}
    BY <1>3 DEF StartSession, IInv, TypeOK
  <2> QED BY <1>3, <1>5, <1>6, <2>1, <2>2, <2>3 DEF TypeOK
<1>8. SingleWindow'
  BY <1>5, <1>6 DEF SingleWindow, NoSession
<1>9. SessionsAccountedFor'
  <2>1. DOMAIN endLog' = 1 .. (nextSessionID - 1)
    BY <1>1, <1>3, <1>4 DEF SweepFacts, IInv, SessionsAccountedFor
  <2> QED BY <2>1, <1>5, <1>6 DEF SessionsAccountedFor
<1> QED BY <1>3, <1>7, <1>8, <1>9 DEF IInv

LEMMA MarkLemma ==
    ASSUME NEW sess \in Session, NEW t \in Nat
    PROVE  markSessionClosing(sess, t) \in Session
<1>1. t + Grace \in Nat
  BY BoundsAssumption
<1> QED BY <1>1 DEF markSessionClosing, Session

LEMMA ClosePreserves ==
    ASSUME IInv, NEW pid \in Pids, NEW isLeader \in BOOLEAN, NEW t \in EventTimes,
           ObserveExit(pid, isLeader, t), ClosesSession(pid, isLeader, t)
    PROVE  IInv'
<1> DEFINE id == activeSession(t)
<1>1. SweepFacts(t)
  BY SweepLemma
<1>2. t \in Nat /\ t <= clock + MaxSkew
  BY EventTimesLemma
<1>3. /\ expireSessionsLocked(t)
      /\ sessions' = [SessionsAfterSweep(t) EXCEPT
                        ![id] = markSessionClosing(SessionsAfterSweep(t)[id], t)]
      /\ activeSessionID' = ActiveAfterSweep(t)
      /\ UNCHANGED <<nextSessionID, clock, handed, joinedClosing>>
  BY DEF ObserveExit
<1>4. /\ DOMAIN endLog' = DOMAIN endLog \cup ExpiredIds(t)
      /\ endLog' \in [DOMAIN endLog' -> EndLine]
      /\ EndTimes'
  BY <1>2, <1>3, EndLogLemma
<1>5. DOMAIN sessions' = DOMAIN SessionsAfterSweep(t)
  BY <1>3
<1>6. sessions' \in [DOMAIN sessions' -> Session]
  <2>1. \A i \in DOMAIN SessionsAfterSweep(t) :
           /\ SessionsAfterSweep(t)[i] \in Session
           /\ markSessionClosing(SessionsAfterSweep(t)[i], t) \in Session
    <3>1. \A i \in DOMAIN SessionsAfterSweep(t) : SessionsAfterSweep(t)[i] \in Session
      BY <1>1 DEF SweepFacts, IInv, TypeOK
    <3> QED BY <3>1, <1>2, MarkLemma
  <2>2. \A i \in DOMAIN sessions' : sessions'[i] \in Session
    BY <1>3, <2>1
  <2> QED BY <1>3, <2>2 DEF SessionsAfterSweep, Restrict
<1>7. TypeOK'
  BY <1>1, <1>3, <1>4, <1>5, <1>6 DEF SweepFacts, IInv, TypeOK
<1>8. SingleWindow'
  BY <1>1, <1>3, <1>5 DEF SweepFacts, SingleWindow
<1>9. SessionsAccountedFor'
  BY <1>1, <1>3, <1>4, <1>5 DEF SweepFacts, IInv, SessionsAccountedFor
<1> QED BY <1>4, <1>7, <1>8, <1>9 DEF IInv

-----------------------------------------------------------------------------
LEMMA InitIInv == Init => IInv
  BY DEF Init, IInv, TypeOK, SingleWindow, SessionsAccountedFor, EndTimes, Session,
         EndLine, NoSession

(* The invariant is inductive. *)
LEMMA NextIInv == IInv /\ [Next]_vars => IInv'
<1> SUFFICES ASSUME IInv, [Next]_vars PROVE IInv'
  OBVIOUS
<1> USE DEF NoSession
<1>1. CASE Tick
  BY <1>1 DEF Tick, IInv, TypeOK, SingleWindow, SessionsAccountedFor, EndTimes
<1>2. CASE HandleExecve
  <2>1. PICK pid \in Pids, isCLI \in BOOLEAN, t \in EventTimes :
           ObserveExecve(pid, isCLI, t)
    BY <1>2 DEF HandleExecve
  <2>2. t \in Nat /\ t <= clock + MaxSkew
    BY EventTimesLemma
  <2>3. CASE StartSession(pid, t)
    BY <2>3, StartPreserves
  <2>4. CASE JoinSession(pid, t)
    <3>1. joinedClosing' \subseteq Pids
      BY <2>4 DEF JoinSession, IInv, TypeOK
    <3> QED BY <2>2, <2>4, <3>1, SweepPreserves DEF JoinSession, IInv, TypeOK
  <2>5. CASE SweepOnly(t)
    BY <2>2, <2>5, SweepPreserves DEF SweepOnly, IInv, TypeOK
  <2> QED BY <2>1, <2>3, <2>4, <2>5 DEF ObserveExecve
<1>3. CASE HandleExit
  <2>1. PICK pid \in Pids, isLeader \in BOOLEAN, t \in EventTimes :
           ObserveExit(pid, isLeader, t)
    BY <1>3 DEF HandleExit
  <2>2. t \in Nat /\ t <= clock + MaxSkew
    BY EventTimesLemma
  <2>3. CASE ClosesSession(pid, isLeader, t)
    BY <2>1, <2>3, ClosePreserves
  <2>4. CASE SweepOnly(t)
    BY <2>2, <2>4, SweepPreserves DEF SweepOnly, IInv, TypeOK
  <2> QED BY <2>1, <2>3, <2>4 DEF ObserveExit
<1>4. CASE HandleLookup
  <2>1. PICK t \in EventTimes : SweepOnly(t)
    BY <1>4 DEF HandleLookup, ActiveSession
  <2>2. t \in Nat /\ t <= clock + MaxSkew
    BY EventTimesLemma
  <2> QED BY <2>1, <2>2, SweepPreserves DEF SweepOnly, IInv, TypeOK
<1>5. CASE JanitorTick
  <2>1. clock \in Nat /\ clock <= clock + MaxSkew
    BY BoundsAssumption DEF IInv, TypeOK
  <2> QED BY <1>5, <2>1, SweepPreserves DEF JanitorTick, Expire, IInv, TypeOK
<1>6. CASE UNCHANGED vars
  BY <1>6 DEF vars, IInv, TypeOK, SingleWindow, SessionsAccountedFor, EndTimes
<1> QED BY <1>1, <1>2, <1>3, <1>4, <1>5, <1>6 DEF Next

-----------------------------------------------------------------------------
(* The state of the tracker is well formed in every reachable state. *)
THEOREM TypeCorrect == Spec => []TypeOK
<1>1. IInv => TypeOK
  BY DEF IInv
<1> QED BY <1>1, InitIInv, NextIInv, PTL DEF Spec

(* The map of sessions holds the session activeSessionID names, or nothing:
   ObserveExecve never starts a second window beside the first, whichever
   clock the sweeps before it used (session.go:81-112, 143-181).            *)
THEOREM SingleWindowHolds == Spec => []SingleWindow
<1>1. IInv => SingleWindow
  BY DEF IInv
<1> QED BY <1>1, InitIInv, NextIInv, PTL DEF Spec

(* Every id handed out is live or has its end logged, never both. *)
THEOREM SessionsAccounted == Spec => []SessionsAccountedFor
<1>1. IInv => SessionsAccountedFor
  BY DEF IInv
<1> QED BY <1>1, InitIInv, NextIInv, PTL DEF Spec

(* No sweep ends a session before its grace period is over on the wall clock,
   up to the skew of event times, whatever the order of exits and sweeps.   *)
THEOREM GraceIsHonoured == Spec => []GraceHonoured
<1>1. IInv => GraceHonoured
  <2> SUFFICES ASSUME IInv, NEW id \in DOMAIN endLog
               PROVE  endLog[id].wall + MaxSkew > endLog[id].closedAt
    BY DEF GraceHonoured
  <2>1. endLog[id] \in EndLine
    BY DEF IInv, TypeOK
  <2>2. endLog[id].wall \in Nat /\ endLog[id].closedAt \in Nat
        /\ endLog[id].sweptAt \in Nat
    BY <2>1 DEF EndLine
  <2> QED BY <2>2, BoundsAssumption DEF IInv, EndTimes
<1> QED BY <1>1, InitIInv, NextIInv, PTL DEF Spec

-----------------------------------------------------------------------------
(* What one step may do to the end log and to a window that is closing: the
   sweep of the step, whatever operation it belongs to, only appends ends,
   and every branch that assigns sessions' leaves a closing window alone.   *)
LEMMA StepLemma ==
    ASSUME IInv, Next
    PROVE  /\ \A id \in DOMAIN endLog :
                 id \in DOMAIN endLog' /\ endLog'[id] = endLog[id]
           /\ \A id \in DOMAIN sessions \cap DOMAIN sessions' :
                 sessions[id].closingAt # NoTime => sessions'[id] = sessions[id]
<1> DEFINE Kept ==
             /\ \A id \in DOMAIN endLog :
                   id \in DOMAIN endLog' /\ endLog'[id] = endLog[id]
             /\ \A id \in DOMAIN sessions \cap DOMAIN sessions' :
                   sessions[id].closingAt # NoTime => sessions'[id] = sessions[id]
<1>1. ASSUME NEW STATE now, now \in Nat, now <= clock + MaxSkew,
             expireSessionsLocked(now), sessions' = SessionsAfterSweep(now)
      PROVE  Kept
  <2>1. SweepFacts(now)
    BY SweepLemma
  <2>2. \A id \in DOMAIN endLog : id \in DOMAIN endLog' /\ endLog'[id] = endLog[id]
    BY <1>1, EndLogLemma
  <2> QED BY <1>1, <2>1, <2>2 DEF SweepFacts
<1>2. CASE Tick
  BY <1>2 DEF Tick
<1>3. CASE HandleExecve
  <2>1. PICK pid \in Pids, isCLI \in BOOLEAN, t \in EventTimes :
           ObserveExecve(pid, isCLI, t)
    BY <1>3 DEF HandleExecve
  <2>2. t \in Nat /\ t <= clock + MaxSkew
    BY EventTimesLemma
  <2>3. CASE StartSession(pid, t)
    <3>1. SweepFacts(t)
      BY SweepLemma
    <3>2. \A id \in DOMAIN endLog : id \in DOMAIN endLog' /\ endLog'[id] = endLog[id]
      BY <2>2, <2>3, EndLogLemma DEF StartSession
    <3>3. \A id \in DOMAIN sessions : id # nextSessionID
      BY DEF IInv, TypeOK
    <3> QED BY <2>3, <3>2, <3>3 DEF StartSession
  <2>4. CASE JoinSession(pid, t)
    BY <1>1, <2>2, <2>4 DEF JoinSession
  <2>5. CASE SweepOnly(t)
    BY <1>1, <2>2, <2>5 DEF SweepOnly
  <2> QED BY <2>1, <2>3, <2>4, <2>5 DEF ObserveExecve
<1>4. CASE HandleExit
  <2>1. PICK pid \in Pids, isLeader \in BOOLEAN, t \in EventTimes :
           ObserveExit(pid, isLeader, t)
    BY <1>4 DEF HandleExit
  <2>2. t \in Nat /\ t <= clock + MaxSkew
    BY EventTimesLemma
  <2>3. CASE ClosesSession(pid, isLeader, t)
    <3>1. /\ expireSessionsLocked(t)
          /\ sessions' = [SessionsAfterSweep(t) EXCEPT ![activeSession(t)] =
                            markSessionClosing(SessionsAfterSweep(t)[activeSession(t)], t)]
      BY <2>1, <2>3 DEF ObserveExit
    <3>2. SweepFacts(t)
      BY SweepLemma
    <3>3. \A id \in DOMAIN endLog : id \in DOMAIN endLog' /\ endLog'[id] = endLog[id]
      BY <2>2, <3>1, EndLogLemma
    <3>4. \A id \in DOMAIN sessions \cap DOMAIN sessions' :
            sessions[id].closingAt # NoTime => sessions'[id] = sessions[id]
      BY <3>1, <3>2 DEF SweepFacts, markSessionClosing
    <3> QED BY <3>3, <3>4
  <2>4. CASE SweepOnly(t)
    BY <1>1, <2>2, <2>4 DEF SweepOnly
  <2> QED BY <2>1, <2>3, <2>4 DEF ObserveExit
<1>5. CASE HandleLookup
  <2>1. PICK t \in EventTimes : SweepOnly(t)
    BY <1>5 DEF HandleLookup, ActiveSession
  <2>2. t \in Nat /\ t <= clock + MaxSkew
    BY EventTimesLemma
  <2> QED BY <1>1, <2>1, <2>2 DEF SweepOnly
<1>6. CASE JanitorTick
  <2>1. clock \in Nat /\ clock <= clock + MaxSkew
    BY BoundsAssumption DEF IInv, TypeOK
  <2> QED BY <1>1, <1>6, <2>1 DEF JanitorTick, Expire
<1> QED BY <1>2, <1>3, <1>4, <1>5, <1>6 DEF Next

(* The end of a session is logged once and that line never changes
   (session.go:157-159, "logged once").                                     *)
THEOREM EndsAreLoggedOnce == Spec => EndLoggedOnce
<1>1. IInv /\ [Next]_vars =>
        [\A id \in DOMAIN endLog :
            id \in DOMAIN endLog' /\ endLog'[id] = endLog[id]]_vars
  BY StepLemma
<1> QED BY <1>1, InitIInv, NextIInv, PTL DEF Spec, EndLoggedOnce

(* No event and no sweep moves, extends or reopens a window that is closing
   (session.go:199-205).                                                    *)
THEOREM ClosingStaysFinal == Spec => ClosingIsFinal
<1>1. IInv /\ [Next]_vars =>
        [\A id \in DOMAIN sessions \cap DOMAIN sessions' :
            sessions[id].closingAt # NoTime => sessions'[id] = sessions[id]]_vars
  BY StepLemma
<1> QED BY <1>1, InitIInv, NextIInv, PTL DEF Spec, ClosingIsFinal

-----------------------------------------------------------------------------
(* The refinement of SessionLife.  A sweep maps to End of the one session it
   removes, or to a stutter; the other operations add to it what they do.   *)
LEMMA LivesDomain ==
    ASSUME IInv
    PROVE  /\ DOMAIN Lives = 1 .. (nextSessionID - 1)
           /\ Len(Lives) = nextSessionID - 1
           /\ nextSessionID - 1 \in Nat
           /\ \A id \in DOMAIN Lives : Lives[id] = LifeOf(id)
<1>1. nextSessionID - 1 \in Nat
  BY DEF IInv, TypeOK
<1> QED BY <1>1 DEF Lives

(* The end of a session under a sweep, and the session that outlives it. *)
LEMMA SweepOfLives ==
    ASSUME IInv, NEW STATE now, now \in Nat, now <= clock + MaxSkew,
           expireSessionsLocked(now)
    PROVE  /\ \A id \in ExpiredIds(now) :
                 /\ id \in DOMAIN sessions /\ id \in DOMAIN Lives
                 /\ LifeOf(id).phase = "closing"
                 /\ endLog'[id].closedAt = LifeOf(id).until
                 /\ LifeOf(id) = [phase |-> "closing",
                                  until |-> sessions[id].graceUntil]
           /\ \A id \in DOMAIN endLog : endLog'[id] = endLog[id]
           /\ \A i, j \in ExpiredIds(now) : i = j
<1>1. \A id \in ExpiredIds(now) :
         /\ id \in DOMAIN sessions
         /\ sessions[id].closingAt # NoTime
         /\ endLog'[id] = [closedAt |-> sessions[id].graceUntil,
                           sweptAt |-> now, wall |-> clock]
  BY DEF expireSessionsLocked, EndLines, ExpiredIds, sessionExpired
<1>2. DOMAIN sessions \subseteq DOMAIN Lives
  BY LivesDomain DEF IInv, TypeOK
<1>3. \A id \in DOMAIN endLog : endLog'[id] = endLog[id]
  BY EndLogLemma
<1>4. \A i, j \in ExpiredIds(now) : i = j
  BY <1>1 DEF IInv, SingleWindow
<1>5. \A id \in ExpiredIds(now) :
         LifeOf(id) = [phase |-> "closing", until |-> sessions[id].graceUntil]
  BY <1>1 DEF LifeOf
<1>6. \A id \in ExpiredIds(now) :
         LifeOf(id).phase = "closing" /\ LifeOf(id).until = sessions[id].graceUntil
  BY <1>5
<1>7. \A id \in ExpiredIds(now) : endLog'[id].closedAt = sessions[id].graceUntil
  <2> SUFFICES ASSUME NEW id \in ExpiredIds(now)
               PROVE  endLog'[id].closedAt = sessions[id].graceUntil
    OBVIOUS
  <2>1. endLog'[id] = [closedAt |-> sessions[id].graceUntil,
                       sweptAt |-> now, wall |-> clock]
    BY <1>1
  <2> QED BY <2>1
<1> QED BY <1>1, <1>2, <1>3, <1>4, <1>5, <1>6, <1>7

LEMMA SweepIsEnd ==
    ASSUME IInv, NEW STATE now, now \in Nat, now <= clock + MaxSkew,
           expireSessionsLocked(now),
           sessions' = SessionsAfterSweep(now), nextSessionID' = nextSessionID
    PROVE  Lives' = Lives \/ \E id \in DOMAIN Lives : Life!End(id)
<1>1. SweepFacts(now)
  BY SweepLemma
<1>2. \A id \in DOMAIN sessions' : LifeOf(id)' = LifeOf(id)
  BY <1>1 DEF SweepFacts, LifeOf
<1>3. \A id \in DOMAIN Lives : id \notin DOMAIN sessions =>
         id \in DOMAIN endLog /\ LifeOf(id)' = LifeOf(id)
  BY <1>1, LivesDomain, SweepOfLives DEF SweepFacts, LifeOf, IInv, SessionsAccountedFor
<1>4. DOMAIN Lives' = DOMAIN Lives /\ \A id \in DOMAIN Lives : Lives'[id] = LifeOf(id)'
  BY LivesDomain DEF Lives
<1>5. CASE ExpiredIds(now) = {}
  <2>1. \A id \in DOMAIN Lives : Lives'[id] = Lives[id]
    BY <1>1, <1>2, <1>3, <1>4, <1>5, LivesDomain DEF SweepFacts
  <2> QED BY <1>4, <2>1 DEF Lives
<1>6. CASE ExpiredIds(now) # {}
  <2>1. PICK id \in ExpiredIds(now) : TRUE
    BY <1>6
  <2>2. /\ id \in DOMAIN Lives /\ id \in DOMAIN sessions
        /\ LifeOf(id).phase = "closing"
        /\ endLog'[id].closedAt = LifeOf(id).until
        /\ LifeOf(id) = [phase |-> "closing", until |-> sessions[id].graceUntil]
    BY <2>1, SweepOfLives
  <2>3. ExpiredIds(now) = {id}
    BY <2>1, SweepOfLives
  <2>4. LifeOf(id)' = [phase |-> "ended", until |-> LifeOf(id).until]
    BY <1>1, <2>1, <2>2 DEF SweepFacts, LifeOf
  <2>5. Lives[id].phase = "closing" /\ Lives'[id] = Life!Ended(Lives[id])
    BY <1>4, <2>2, <2>4, LivesDomain DEF Life!Ended
  <2>6. \A i \in DOMAIN Lives : i # id => Lives'[i] = Lives[i]
    BY <1>1, <1>2, <1>3, <1>4, <2>3, LivesDomain DEF SweepFacts
  <2>7. Lives' = [Lives EXCEPT ![id] = Life!Ended(@)]
    BY <1>4, <2>5, <2>6 DEF Lives
  <2> QED BY <2>2, <2>5, <2>7 DEF Life!End
<1> QED BY <1>5, <1>6

LEMMA StartIsOpen ==
    ASSUME IInv, NEW pid \in Pids, NEW t \in EventTimes, StartSession(pid, t)
    PROVE  Life!Open
<1>0. PICK new : new = nextSessionID
  OBVIOUS
<1>1. SweepFacts(t)
  BY SweepLemma
<1>2. t \in Nat /\ t <= clock + MaxSkew
  BY EventTimesLemma
<1>3. DOMAIN SessionsAfterSweep(t) = {}
  <2> SUFFICES ASSUME NEW id \in DOMAIN SessionsAfterSweep(t) PROVE FALSE
    OBVIOUS
  <2>1. id = ActiveAfterSweep(t) /\ id # NoSession
    BY <1>1 DEF SweepFacts
  <2>2. AcceptsEvents(SessionsAfterSweep(t)[id], t)
    BY <1>1 DEF SweepFacts, AcceptsEvents, ExpiredIds, sessionExpired
  <2>3. activeSession(t) = id
    BY <2>1, <2>2 DEF activeSession
  <2> QED BY <2>1, <2>3 DEF StartSession
<1>4. /\ nextSessionID' = nextSessionID + 1
      /\ DOMAIN sessions' = {nextSessionID}
      /\ sessions'[nextSessionID].closingAt = NoTime
      /\ expireSessionsLocked(t)
  BY <1>3 DEF StartSession
<1>5. DOMAIN sessions = ExpiredIds(t)
  BY <1>1, <1>3 DEF SweepFacts
<1>6. \A id \in DOMAIN Lives :
         Lives[id].phase # "open" /\ LifeOf(id)' = Life!Ended(Lives[id])
  <2> SUFFICES ASSUME NEW id \in DOMAIN Lives
               PROVE  /\ Lives[id].phase # "open"
                      /\ LifeOf(id)' = Life!Ended(Lives[id])
    OBVIOUS
  <2>1. id # nextSessionID /\ id \notin DOMAIN sessions' /\ Lives[id] = LifeOf(id)
    BY <1>4, LivesDomain
  <2>2. LifeOf(id)' = [phase |-> "ended", until |-> endLog'[id].closedAt]
    BY <2>1 DEF LifeOf
  <2>3. CASE id \in DOMAIN sessions
    <3>1. /\ LifeOf(id) = [phase |-> "closing", until |-> sessions[id].graceUntil]
          /\ endLog'[id].closedAt = LifeOf(id).until
      BY <1>2, <1>4, <1>5, <2>3, SweepOfLives
    <3> QED BY <2>1, <2>2, <3>1 DEF Life!Ended
  <2>4. CASE id \notin DOMAIN sessions
    <3>1. id \in DOMAIN endLog /\ endLog'[id] = endLog[id]
      BY <1>2, <1>4, <2>4, SweepOfLives, LivesDomain DEF IInv, SessionsAccountedFor
    <3> QED BY <2>1, <2>2, <2>4, <3>1 DEF LifeOf, Life!Ended
  <2> QED BY <2>3, <2>4
<1>7. /\ nextSessionID - 1 \in Nat /\ nextSessionID \in Nat
      /\ nextSessionID' - 1 = (nextSessionID - 1) + 1
      /\ nextSessionID \notin DOMAIN Lives
      /\ Len(Lives) + 1 = nextSessionID
  BY <1>4, LivesDomain DEF IInv, TypeOK
<1>8. LifeOf(new)' = Life!Opened
  BY <1>0, <1>4 DEF LifeOf, Life!Opened, Life!NoDeadline
<1>9. Lives' = [id \in 1 .. (Len(Lives) + 1) |-> LifeOf(id)']
  BY <1>4, <1>7 DEF Lives
<1>10. \A id \in 1 .. (Len(Lives) + 1) :
          LifeOf(id)' = IF id \in DOMAIN Lives THEN Life!Ended(Lives[id])
                                               ELSE Life!Opened
  <2> SUFFICES ASSUME NEW id \in 1 .. (Len(Lives) + 1)
               PROVE  LifeOf(id)' = IF id \in DOMAIN Lives THEN Life!Ended(Lives[id])
                                                           ELSE Life!Opened
    OBVIOUS
  <2>1. id \in DOMAIN Lives \/ id = new
    BY <1>0, <1>7, LivesDomain
  <2> QED BY <1>0, <1>6, <1>7, <1>8, <2>1
<1> QED BY <1>6, <1>9, <1>10 DEF Life!Open

LEMMA CloseIsLeave ==
    ASSUME IInv, NEW pid \in Pids, NEW isLeader \in BOOLEAN, NEW t \in EventTimes,
           ObserveExit(pid, isLeader, t), ClosesSession(pid, isLeader, t)
    PROVE  Lives' = Lives \/ \E id \in DOMAIN Lives : Life!Leave(id)
<1>0. PICK id : id = activeSession(t)
  OBVIOUS
<1>1. SweepFacts(t)
  BY SweepLemma
<1>2. t \in Nat /\ t <= clock + MaxSkew
  BY EventTimesLemma
<1>3. /\ expireSessionsLocked(t)
      /\ sessions' = [SessionsAfterSweep(t) EXCEPT
                        ![id] = markSessionClosing(SessionsAfterSweep(t)[id], t)]
      /\ nextSessionID' = nextSessionID
  BY <1>0 DEF ObserveExit
<1>4. id \in DOMAIN SessionsAfterSweep(t) /\ id \in DOMAIN sessions
  BY <1>0, <1>1 DEF SweepFacts, ClosesSession, activeSession, NoSession
<1>5. ExpiredIds(t) = {} /\ DOMAIN sessions = {id}
  BY <1>1, <1>4 DEF SweepFacts, IInv, SingleWindow
<1>6. /\ SessionsAfterSweep(t)[id] = sessions[id]
      /\ sessions[id] \in Session
      /\ DOMAIN sessions' = DOMAIN sessions
      /\ sessions'[id] = markSessionClosing(sessions[id], t)
  BY <1>1, <1>3, <1>4, <1>5 DEF SweepFacts, IInv, TypeOK
<1>7. DOMAIN Lives' = DOMAIN Lives /\ \A i \in DOMAIN Lives : Lives'[i] = LifeOf(i)'
  BY <1>3, LivesDomain DEF Lives
<1>8. id \in DOMAIN Lives
  BY <1>4, LivesDomain DEF IInv, TypeOK
<1>9. \A i \in DOMAIN Lives : i # id => Lives'[i] = Lives[i]
  <2> SUFFICES ASSUME NEW i \in DOMAIN Lives, i # id PROVE Lives'[i] = Lives[i]
    OBVIOUS
  <2>1. i \notin DOMAIN sessions /\ i \notin DOMAIN sessions' /\ i \in DOMAIN endLog
    BY <1>5, <1>6, LivesDomain DEF IInv, SessionsAccountedFor
  <2>2. endLog'[i] = endLog[i]
    BY <1>2, <1>3, <2>1, SweepOfLives
  <2> QED BY <1>7, <2>1, <2>2, LivesDomain DEF LifeOf
<1>10. CASE sessions[id].closingAt # NoTime \/ t = NoTime
  (* the window was closing already, or the exit carries the zero time *)
  <2>1. LifeOf(id)' = LifeOf(id)
    BY <1>4, <1>6, <1>10 DEF LifeOf, markSessionClosing, Session
  <2>2. \A i \in DOMAIN Lives : Lives'[i] = Lives[i]
    BY <1>7, <1>8, <1>9, <2>1, LivesDomain
  <2> QED BY <1>7, <2>2 DEF Lives
<1>11. CASE sessions[id].closingAt = NoTime /\ t # NoTime
  <2>1. t + Grace \in Nat \ {0}
    BY <1>2, <1>11, BoundsAssumption DEF NoTime
  <2>2. sessions'[id].closingAt = t /\ sessions'[id].graceUntil = t + Grace
    BY <1>6, <1>11 DEF markSessionClosing, Session
  <2>3. LifeOf(id)' = Life!Closing(t + Grace) /\ LifeOf(id).phase = "open"
    BY <1>4, <1>6, <1>11, <2>2 DEF LifeOf, Life!Closing
  <2>4. Lives[id].phase = "open" /\ Lives'[id] = Life!Closing(t + Grace)
    BY <1>7, <1>8, <2>3, LivesDomain
  <2>5. Lives'[id].until = t + Grace
    BY <2>4 DEF Life!Closing
  <2>6. Lives' = [Lives EXCEPT ![id] = Life!Closing(Lives'[id].until)]
    BY <1>7, <1>9, <2>4, <2>5 DEF Lives
  <2> QED BY <1>8, <2>1, <2>4, <2>5, <2>6 DEF Life!Leave, Life!NoDeadline
<1> QED BY <1>10, <1>11

LEMMA StepIsLife ==
    ASSUME IInv, [Next]_vars
    PROVE  [Life!Next]_Lives
<1>1. CASE Tick \/ UNCHANGED vars
  BY <1>1 DEF Tick, vars, Lives, LifeOf
<1>2. ASSUME NEW STATE now, now \in Nat, now <= clock + MaxSkew,
             expireSessionsLocked(now), sessions' = SessionsAfterSweep(now),
             nextSessionID' = nextSessionID
      PROVE  [Life!Next]_Lives
  BY <1>2, SweepIsEnd DEF Life!Next
<1>3. CASE HandleExecve
  <2>1. PICK pid \in Pids, isCLI \in BOOLEAN, t \in EventTimes :
           ObserveExecve(pid, isCLI, t)
    BY <1>3 DEF HandleExecve
  <2>2. t \in Nat /\ t <= clock + MaxSkew
    BY EventTimesLemma
  <2>3. CASE StartSession(pid, t)
    BY <2>3, StartIsOpen DEF Life!Next
  <2>4. CASE JoinSession(pid, t)
    BY <1>2, <2>2, <2>4 DEF JoinSession
  <2>5. CASE SweepOnly(t)
    BY <1>2, <2>2, <2>5 DEF SweepOnly
  <2> QED BY <2>1, <2>3, <2>4, <2>5 DEF ObserveExecve
<1>4. CASE HandleExit
  <2>1. PICK pid \in Pids, isLeader \in BOOLEAN, t \in EventTimes :
           ObserveExit(pid, isLeader, t)
    BY <1>4 DEF HandleExit
  <2>2. t \in Nat /\ t <= clock + MaxSkew
    BY EventTimesLemma
  <2>3. CASE ClosesSession(pid, isLeader, t)
    BY <2>1, <2>3, CloseIsLeave DEF Life!Next
  <2>4. CASE SweepOnly(t)
    BY <1>2, <2>2, <2>4 DEF SweepOnly
  <2> QED BY <2>1, <2>3, <2>4 DEF ObserveExit
<1>5. CASE HandleLookup
  <2>1. PICK t \in EventTimes : SweepOnly(t)
    BY <1>5 DEF HandleLookup, ActiveSession
  <2>2. t \in Nat /\ t <= clock + MaxSkew
    BY EventTimesLemma
  <2> QED BY <1>2, <2>1, <2>2 DEF SweepOnly
<1>6. CASE JanitorTick
  <2>1. clock \in Nat /\ clock <= clock + MaxSkew
    BY BoundsAssumption DEF IInv, TypeOK
  <2> QED BY <1>2, <1>6, <2>1 DEF JanitorTick, Expire
<1> QED BY <1>1, <1>3, <1>4, <1>5, <1>6 DEF Next

(* The tracker implements SessionLife: its maps, its two clocks and its sweeps
   give every invocation one life, whatever the order of operations.        *)
THEOREM TrackerImplementsLife == Spec => ImplementsSessionLife
<1>1. Init => Life!Init
  BY DEF Init, Life!Init, Lives
<1>2. IInv /\ [Next]_vars => [Life!Next]_Lives
  BY StepIsLife
<1> QED BY <1>1, <1>2, InitIInv, NextIInv, PTL DEF Spec, ImplementsSessionLife, Life!Spec
=============================================================================
