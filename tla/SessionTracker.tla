--------------------------- MODULE SessionTracker ---------------------------
(***************************************************************************)
(* The CLI-invocation session window of user/internal/process/session.go.  *)
(*                                                                         *)
(* One execve of the OpenClaw CLI opens a session; the exit of that very   *)
(* process (leader thread) opens a grace window; a sweep that runs with a  *)
(* time beyond the window removes the session.  Every operation holds      *)
(* st.mu from its first to its last line, so an operation is one action.   *)
(*                                                                         *)
(* Two clocks drive the sweeps.  The pipeline sweeps with the timestamp of *)
(* the event it handles (boot time + ktime, possibly old, possibly ahead   *)
(* by the rounding of btime, the zero time when the boot time could not be *)
(* read); the janitor sweeps with the wall clock.  Only the janitor hands  *)
(* what it removed to the close-out callback.                              *)
(***************************************************************************)
EXTENDS Integers, FiniteSets, Functions

CONSTANTS
    Pids,          \* process ids that may appear in events
    Grace,         \* sessionGracePeriod, in ticks
    MaxTime,       \* bound: events stop arriving once the wall clock is here
    MaxLag,        \* bound: how far behind the wall clock an event time may be
    MaxSkew,       \* bound: how far ahead of it an event time may be
    MaxSessions,   \* bound: sessions started in one behaviour
    BootTimeKnown  \* FALSE: /proc/stat had no btime, every event time is zero

ASSUME BoundsAssumption ==
    /\ Grace \in Nat /\ MaxTime \in Nat \ {0} /\ MaxLag \in Nat
    /\ MaxSkew \in Nat /\ MaxSessions \in Nat
    /\ BootTimeKnown \in BOOLEAN
ASSUME PidsAreNotNumbers == 0 \notin Pids

VARIABLES
    sessions,         \* SessionTracker.sessions: id -> Session
    activeSessionID,  \* SessionTracker.activeSessionID, 0 when there is none
    nextSessionID,    \* SessionTracker.nextSessionID
    clock,            \* the wall clock
    endLog,           \* id -> the "[SESSION] end" line of closeSessionLocked
    handed,           \* ids that Expire returned to the janitor's callback
    joinedClosing     \* CLI invocations executed after the leader of the still
                      \* active session exited: they opened no session

vars == <<sessions, activeSessionID, nextSessionID, clock, endLog, handed,
          joinedClosing>>

NoTime == 0                                  \* time.Time{}.IsZero()
NoSession == 0
Times == 0 .. (MaxTime + MaxSkew)
LastTime == MaxTime + MaxSkew + Grace + 1

Session == [sessionPID : Pids, createdAt : Nat, closingAt : Nat,
            graceUntil : Nat]
EndLine == [closedAt : Nat, sweptAt : Nat, wall : Nat]

(***************************************************************************)
(* The times an event read from the ring buffer can carry now.             *)
(***************************************************************************)
EventTimes ==
    IF BootTimeKnown
    THEN {t \in Times \ {NoTime} : clock - MaxLag <= t /\ t <= clock + MaxSkew}
    ELSE {NoTime}

-----------------------------------------------------------------------------
(* Mutant: the window is closed at its last instant, one comparison early. *)
sessionExpiredEarly(sess, now) ==
    /\ sess.closingAt # NoTime
    /\ now >= sess.graceUntil

sessionExpired(sess, now) ==
    /\ sess.closingAt # NoTime
    /\ now > sess.graceUntil

ExpiredIds(now) == {id \in DOMAIN sessions : sessionExpired(sessions[id], now)}

(* Mutants: the sweep forgets to delete, or to clear the active pointer. *)
SessionsNotDeleted(now) == sessions
ActivePointerKept(now) == activeSessionID

(* What expireSessionsLocked leaves behind. *)
SessionsAfterSweep(now) == Restrict(sessions, DOMAIN sessions \ ExpiredIds(now))
ActiveAfterSweep(now) ==
    IF activeSessionID \in ExpiredIds(now) THEN NoSession ELSE activeSessionID

(* closeSessionLocked: one log line for every session the sweep removes.    *)
EndLines(now) ==
    [id \in ExpiredIds(now) |->
        [closedAt |-> sessions[id].graceUntil, sweptAt |-> now, wall |-> clock]]

(* Mutant: only sessions swept exactly on the wall clock are logged. *)
expireUnlogged(now) ==
    endLog' = IF now = clock
              THEN [id \in DOMAIN endLog \cup ExpiredIds(now) |->
                       IF id \in ExpiredIds(now) THEN EndLines(now)[id]
                                                 ELSE endLog[id]]
              ELSE endLog

expireSessionsLocked(now) ==
    endLog' = [id \in DOMAIN endLog \cup ExpiredIds(now) |->
                  IF id \in ExpiredIds(now) THEN EndLines(now)[id]
                                            ELSE endLog[id]]

(* activeSessionLocked(now), on the state the sweep with `now` left.        *)
AcceptsEvents(sess, now) == ~(sess.closingAt # NoTime /\ now > sess.graceUntil)
activeSession(now) ==
    LET act == ActiveAfterSweep(now)
    IN  IF /\ act # NoSession
           /\ act \in DOMAIN SessionsAfterSweep(now)
           /\ AcceptsEvents(SessionsAfterSweep(now)[act], now)
        THEN act ELSE NoSession

-----------------------------------------------------------------------------
Init ==
    /\ sessions = << >>
    /\ activeSessionID = NoSession
    /\ nextSessionID = 1
    /\ clock = 1
    /\ endLog = << >>
    /\ handed = {}
    /\ joinedClosing = {}

(* Mutant: the janitor reports what is due but does not evict it. *)
ExpireReportsOnly(now) ==
    /\ handed' = handed \cup ExpiredIds(now)
    /\ UNCHANGED <<sessions, activeSessionID, nextSessionID, clock, endLog,
                   joinedClosing>>

(* The janitor's sweep and the callbacks it is owed. *)
Expire(now) ==
    /\ expireSessionsLocked(now)
    /\ sessions' = SessionsAfterSweep(now)
    /\ activeSessionID' = ActiveAfterSweep(now)
    /\ handed' = handed \cup ExpiredIds(now)
    /\ UNCHANGED <<nextSessionID, clock, joinedClosing>>

(* ObserveExecve of a CLI invocation while no session accepts its time.     *)
StartSession(pid, t) ==
    /\ expireSessionsLocked(t)
    /\ activeSession(t) = NoSession
    /\ nextSessionID <= MaxSessions
    /\ sessions' = [id \in DOMAIN SessionsAfterSweep(t) \cup {nextSessionID} |->
                       IF id = nextSessionID
                       THEN [sessionPID |-> pid, createdAt |-> t,
                             closingAt |-> NoTime, graceUntil |-> NoTime]
                       ELSE sessions[id]]
    /\ activeSessionID' = nextSessionID
    /\ nextSessionID' = nextSessionID + 1
    /\ UNCHANGED <<clock, handed, joinedClosing>>

(* ObserveExecve of a CLI invocation that an active session absorbs.        *)
JoinSession(pid, t) ==
    /\ expireSessionsLocked(t)
    /\ activeSession(t) # NoSession
    /\ sessions' = SessionsAfterSweep(t)
    /\ activeSessionID' = ActiveAfterSweep(t)
    /\ LET sess == sessions[activeSession(t)]
       IN  joinedClosing' = IF sess.closingAt # NoTime /\ t > sess.closingAt
                            THEN joinedClosing \cup {pid} ELSE joinedClosing
    /\ UNCHANGED <<nextSessionID, clock, handed>>

(* The sweep every operation of the pipeline starts with: the list of what
   it removed is thrown away (session.go:85, 121, 137).                     *)
SweepOnly(t) ==
    /\ expireSessionsLocked(t)
    /\ sessions' = SessionsAfterSweep(t)
    /\ activeSessionID' = ActiveAfterSweep(t)
    /\ UNCHANGED <<nextSessionID, clock, handed, joinedClosing>>

ObserveExecve(pid, isCLI, t) ==
    \/ isCLI /\ (StartSession(pid, t) \/ JoinSession(pid, t))
    \/ ~isCLI /\ SweepOnly(t)

(* Mutant: every leader exit moves the window. *)
markSessionClosingAgain(sess, t) ==
    [sess EXCEPT !.closingAt = t, !.graceUntil = t + Grace]

(* markSessionClosing: the first leader exit fixes the window.              *)
markSessionClosing(sess, t) ==
    IF sess.closingAt # NoTime THEN sess
    ELSE [sess EXCEPT !.closingAt = t, !.graceUntil = t + Grace]

ClosesSession(pid, isLeader, t) ==
    /\ activeSession(t) # NoSession
    /\ isLeader
    /\ sessions[activeSession(t)].sessionPID = pid

ObserveExit(pid, isLeader, t) ==
    \/ /\ ~ClosesSession(pid, isLeader, t)
       /\ SweepOnly(t)
    \/ /\ ClosesSession(pid, isLeader, t)
       /\ expireSessionsLocked(t)
       /\ sessions' = [SessionsAfterSweep(t) EXCEPT
                         ![activeSession(t)] = markSessionClosing(@, t)]
       /\ activeSessionID' = ActiveAfterSweep(t)
       /\ UNCHANGED <<nextSessionID, clock, handed, joinedClosing>>

(* ActiveSession sweeps too; its answer is activeSession(t).                *)
ActiveSession(t) == SweepOnly(t)

-----------------------------------------------------------------------------
(* The environment: time, and events handled in any order and at any lag.   *)
EventsArrive == clock <= MaxTime

Tick ==
    /\ clock < LastTime
    /\ clock' = clock + 1
    /\ UNCHANGED <<sessions, activeSessionID, nextSessionID, endLog, handed,
                   joinedClosing>>

HandleExecve ==
    /\ EventsArrive
    /\ \E pid \in Pids, isCLI \in BOOLEAN, t \in EventTimes :
          ObserveExecve(pid, isCLI, t)

HandleExit ==
    /\ EventsArrive
    /\ \E pid \in Pids, isLeader \in BOOLEAN, t \in EventTimes :
          ObserveExit(pid, isLeader, t)

HandleLookup ==
    /\ EventsArrive
    /\ \E t \in EventTimes : ActiveSession(t)

JanitorTick == Expire(clock)

Next == Tick \/ HandleExecve \/ HandleExit \/ HandleLookup \/ JanitorTick

Spec == Init /\ [][Next]_vars

(* The wall clock runs and the 500 ms ticker of the janitor keeps firing.
   Events carry no fairness: nothing obliges the kernel to produce one.     *)
FairSpec == Spec /\ WF_vars(Tick) /\ WF_vars(JanitorTick)

-----------------------------------------------------------------------------
(* The state is well formed. *)
TypeOK ==
    /\ sessions \in [DOMAIN sessions -> Session]
    /\ DOMAIN sessions \subseteq 1 .. (nextSessionID - 1)
    /\ activeSessionID \in Nat
    /\ nextSessionID \in Nat \ {0}
    /\ clock \in Nat \ {0}
    /\ endLog \in [DOMAIN endLog -> EndLine]
    /\ DOMAIN endLog \subseteq 1 .. (nextSessionID - 1)
    /\ handed \subseteq DOMAIN endLog
    /\ joinedClosing \subseteq Pids

(* There is never more than one session window, and the active pointer names
   it: the map of sessions and activeSessionID cannot drift apart, although
   they are assigned in different branches, by sweeps with different clocks. *)
SingleWindow ==
    DOMAIN sessions = {activeSessionID} \ {NoSession}

(* Every id ever given out is either the window or has ended, never both: no
   session vanishes without its end being logged, and one that ended is gone
   for good, so that no event can be attached to it any more
   (closeSessionLocked's "terminal transition").                            *)
SessionsAccountedFor ==
    /\ 1 .. (nextSessionID - 1) = DOMAIN endLog \cup DOMAIN sessions
    /\ DOMAIN endLog \cap DOMAIN sessions = {}

(* The grace window is honoured on the wall clock: a session ends only when
   the wall clock, give or take the skew of event times, is past the leader's
   exit plus the grace period.                                              *)
GraceHonoured ==
    \A id \in DOMAIN endLog : endLog[id].wall + MaxSkew > endLog[id].closedAt

(* A closing window never moves: a second leader exit (a reused pid, a
   duplicate) neither extends nor shortens the grace period, and a window
   that is closing never reopens.                                           *)
ClosingIsFinal ==
    [][\A id \in DOMAIN sessions \cap DOMAIN sessions' :
          sessions[id].closingAt # NoTime => sessions'[id] = sessions[id]]_vars

(* An ended session is logged once, never rewritten (session.go:157-159). *)
EndLoggedOnce ==
    [][\A id \in DOMAIN endLog :
          id \in DOMAIN endLog' /\ endLog'[id] = endLog[id]]_vars

(* The life of every session handed out so far, as SessionLife tells it.    *)
LifeOf(id) ==
    IF id \notin DOMAIN sessions
    THEN [phase |-> "ended", until |-> endLog[id].closedAt]
    ELSE IF sessions[id].closingAt = NoTime
    THEN [phase |-> "open", until |-> 0]
    ELSE [phase |-> "closing", until |-> sessions[id].graceUntil]

Lives == [id \in 1 .. (nextSessionID - 1) |-> LifeOf(id)]

Life == INSTANCE SessionLife WITH life <- Lives

(* Whatever the order of executions, exits, lookups and sweeps, and however
   far the two clocks are apart, the tracker gives every invocation one life:
   open, closing under a deadline that never moves, ended once and for good,
   and no second session while one is open (session.go:81-205).             *)
ImplementsSessionLife == Life!Spec

(* When the leader's exit has been seen the session does end, whether or not
   another event ever arrives: the janitor is what guarantees it.           *)
ClosingSessionEnds ==
    \A id \in 1 .. MaxSessions :
        (id \in DOMAIN sessions /\ sessions[id].closingAt # NoTime)
            ~> (id \in DOMAIN endLog)

-----------------------------------------------------------------------------
(* What the code's comments and documents say, and the code does not do.    *)

(* isOpenClawCLIInvocation's comment: such an execve "defines a new evaluation
   session".  One that comes after the leader's exit opens none.            *)
InvocationAfterExitOpensSession == joinedClosing = {}

(* session_test.go:177: a leader exit is expected "to start closing window".
   With the zero time of an unreadable boot time it does not.               *)
LeaderExitStartsGrace ==
    [][\A pid \in Pids, t \in EventTimes :
          LET id == activeSession(t)
          IN  (ClosesSession(pid, TRUE, t) /\ ObserveExit(pid, TRUE, t))
                  => sessions'[id].closingAt # NoTime]_vars
=============================================================================
