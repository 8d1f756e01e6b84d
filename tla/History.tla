------------------------------- MODULE History -------------------------------
(***************************************************************************)
(* The detectors of user/internal/context/history.go: what a session's     *)
(* recent events say it has already done.  Each is one pass over the       *)
(* events, oldest first, with a few remembered values; each is translated  *)
(* here as that pass.  RecentEvents compares them with definitions that    *)
(* look at all events at once.                                             *)
(*                                                                         *)
(* A path or an address is one of a few targets, classified by the         *)
(* heuristics as the string tests of the code would do.                    *)
(***************************************************************************)
EXTENDS Integers, Sequences, SequencesExt

CONSTANTS
    SensitiveTargets,        \* isSensitivePath
    QuietTargets,            \* shouldIgnoreBurstOpen, shouldIgnoreBurstConnect
    BurstThreshold,          \* event type -> the burst threshold
    BurstWindow,
    SensitiveHistoryWindow

ASSUME HeuristicsAssumption ==                    \* normalizeHeuristics
    /\ DOMAIN BurstThreshold = {"openat", "connect", "execve"}
    /\ \A type \in DOMAIN BurstThreshold : BurstThreshold[type] \in Nat \ {0}
    /\ BurstWindow \in Nat \ {0} /\ SensitiveHistoryWindow \in Nat \ {0}

ZeroTime == 0                                     \* time.Time{}

Abs(n) == IF n < 0 THEN -n ELSE n

(* The two times are known and at most the window apart, in either order. *)
withinHistoryWindow(a, b) ==
    a # ZeroTime /\ b # ZeroTime /\ Abs(a - b) <= SensitiveHistoryWindow

isWrite(e) == e.type = "openat" /\ e.writes
isSensitiveOpen(e) == e.type = "openat" /\ e.target \in SensitiveTargets

(* Mutant: the order of the write and the exec does not matter. *)
writtenOrExecuted(recent) ==
    \E i, j \in DOMAIN recent : /\ isWrite(recent[i]) /\ recent[j].type = "execve"
                                /\ recent[i].target = recent[j].target

noteWriteThenExec(seen, e) ==
    [written |-> IF isWrite(e) THEN seen.written \cup {e.target} ELSE seen.written,
     found |-> seen.found \/ (e.type = "execve" /\ e.target \in seen.written)]

detectWriteThenExecSamePath(recent) ==
    FoldLeft(noteWriteThenExec, [written |-> {}, found |-> FALSE], recent).found

noteConnectThenExec(seen, e) ==
    [connect |-> seen.connect \/ e.type = "connect",
     found |-> seen.found \/ (seen.connect /\ e.type = "execve")]

detectConnectThenExec(recent) ==
    FoldLeft(noteConnectThenExec, [connect |-> FALSE, found |-> FALSE], recent).found

(* Mutant: the first sensitive open is remembered instead of the last. *)
sensitiveNearFirst(recent, type) ==
    FoldLeft(LAMBDA last, e :
        LET sensitive == IF isSensitiveOpen(e) /\ last.sensitive = ZeroTime
                         THEN e.time ELSE last.sensitive
            other == IF e.type = type THEN e.time ELSE last.other
        IN  [sensitive |-> sensitive, other |-> other,
             found |-> last.found \/ withinHistoryWindow(sensitive, other)],
        [sensitive |-> ZeroTime, other |-> ZeroTime, found |-> FALSE], recent).found

(* detectSensitiveThenNetwork (type connect) and detectSensitiveThenExecve
   (type execve), which share this pass: only the last sensitive open and the
   last other event are remembered.                                         *)
noteSensitive(last, e, type) ==
    LET sensitive == IF isSensitiveOpen(e) THEN e.time ELSE last.sensitive
        other == IF e.type = type THEN e.time ELSE last.other
    IN  [sensitive |-> sensitive, other |-> other,
         found |-> last.found \/ withinHistoryWindow(sensitive, other)]

sensitiveNear(recent, type) ==
    FoldLeft(LAMBDA last, e : noteSensitive(last, e, type),
        [sensitive |-> ZeroTime, other |-> ZeroTime, found |-> FALSE], recent).found

(* The items of a list that are in a set, appended one by one. *)
keepIn(kept, x, set) == IF x \in set THEN Append(kept, x) ELSE kept
only(items, set) ==
    FoldLeft(LAMBDA kept, x : keepIn(kept, x, set), << >>, items)

countsForBurst(e, type) ==
    /\ e.type = type
    /\ ~(type \in {"openat", "connect"} /\ e.target \in QuietTargets)

burstEvents(recent, type) == only(recent, {e \in Range(recent) : countsForBurst(e, type)})

(* Mutant: the window begins one event too late. *)
detectBurstShort(recent, type) ==
    LET window == burstEvents(recent, type)
        n == BurstThreshold[type]
    IN  \/ n <= 1
        \/ \E k \in DOMAIN window :
              k >= n - 1 /\ window[k].time - window[k - n + 2].time <= BurstWindow

(* A threshold of one or less needs no event at all. *)
detectBurstEvent(recent, type) ==
    LET window == burstEvents(recent, type)
        n == BurstThreshold[type]
    IN  \/ n <= 1
        \/ \E k \in DOMAIN window :
              k >= n /\ window[k].time - window[k - n + 1].time <= BurstWindow

(* The part of BuildHistoricalContext that reads the recent events, as the
   set of the flags that are true.                                          *)
HistoryOf(recent) ==
    {flag \in {"ConnectThenExec", "SensitiveThenNetwork", "SensitiveThenExecve",
               "BurstOpen", "BurstConnect", "BurstExec", "WriteThenExecSamePath"} :
       CASE flag = "ConnectThenExec" -> detectConnectThenExec(recent)
         [] flag = "SensitiveThenNetwork" -> sensitiveNear(recent, "connect")
         [] flag = "SensitiveThenExecve" -> sensitiveNear(recent, "execve")
         [] flag = "BurstOpen" -> detectBurstEvent(recent, "openat")
         [] flag = "BurstConnect" -> detectBurstEvent(recent, "connect")
         [] flag = "BurstExec" -> detectBurstEvent(recent, "execve")
         [] flag = "WriteThenExecSamePath" -> detectWriteThenExecSamePath(recent)}
=============================================================================
