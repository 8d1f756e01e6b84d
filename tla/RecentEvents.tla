---------------------------- MODULE RecentEvents ----------------------------
(***************************************************************************)
(* Every list of events a session may have to look back on, for comparing  *)
(* the detectors of History with what they are meant to detect.            *)
(*                                                                         *)
(* The timestamps of events that different CPUs produce may be slightly    *)
(* out of order: the probes take the time after they reserved their place  *)
(* in the ring buffer (exit.c:7-14).  No event is older than an earlier    *)
(* one by more than MaxBack.                                               *)
(***************************************************************************)
EXTENDS History, FiniteSetsExt

CONSTANTS
    Shapes,    \* what is known of an event beside its time: type, target, writes
    MaxBack,   \* how far back the time of a later event may be
    MaxLen,    \* bound: events
    MaxTime    \* bound: times

ASSUME RecordAssumption ==
    /\ \A shape \in Shapes : shape.writes \in BOOLEAN
    /\ MaxBack \in Nat /\ MaxLen \in Nat /\ MaxTime \in Nat

VARIABLE recent

RecordInit == recent = << >>
RecordNext ==
    /\ Len(recent) < MaxLen
    /\ \E shape \in Shapes, t \in 1 .. MaxTime :
          /\ \A i \in DOMAIN recent : recent[i].time - t <= MaxBack
          /\ recent' = Append(recent, [type |-> shape.type, target |-> shape.target,
                                       writes |-> shape.writes, time |-> t])
RecordSpec == RecordInit /\ [][RecordNext]_recent

-----------------------------------------------------------------------------
(* A write of a path and a later exec of it, and a connect and a later exec. *)
WriteExecPair(events) ==
    \E i, j \in DOMAIN events :
        /\ i < j /\ isWrite(events[i])
        /\ events[j].type = "execve" /\ events[i].target = events[j].target

ConnectExecPair(events) ==
    \E i, j \in DOMAIN events :
        i < j /\ events[i].type = "connect" /\ events[j].type = "execve"

(* A sensitive open and an event of the type at most the window apart. *)
SensitivePair(events, type, window) ==
    \E i, j \in DOMAIN events :
        /\ isSensitiveOpen(events[i]) /\ events[j].type = type
        /\ Abs(events[i].time - events[j].time) <= window

(* As many counted events as the threshold, no two further apart than that. *)
Burst(events, type, window) ==
    \E group \in SUBSET {i \in DOMAIN events : countsForBurst(events[i], type)} :
        /\ Cardinality(group) = BurstThreshold[type]
        /\ \A i, j \in group : events[i].time - events[j].time <= window

-----------------------------------------------------------------------------
(* A write and a later exec of one path are found, and so are a connect and
   any later exec, between any two processes and whatever lies between them,
   and nothing else is (history_test.go:62, 107).                           *)
ThenExecIsPair ==
    /\ detectWriteThenExecSamePath(recent) <=> WriteExecPair(recent)
    /\ detectConnectThenExec(recent) <=> ConnectExecPair(recent)

(* Remembering only the last sensitive open and the last connect or exec loses
   no pair: whatever the order and however many of each there are, a pair is
   found if it is within the window, up to the disorder of the timestamps, and
   only if it is (history_test.go:138, 175).  Times are known here, not zero. *)
SensitivePairIsFound ==
    \A type \in {"connect", "execve"} :
        /\ sensitiveNear(recent, type)
               => SensitivePair(recent, type, SensitiveHistoryWindow)
        /\ SensitivePair(recent, type, SensitiveHistoryWindow - MaxBack)
               => sensitiveNear(recent, type)

(* A burst is any group of threshold counted events within the window, not
   only a group of neighbours, up to the disorder of the timestamps: the first
   and the last of the window are compared, and two events between them may
   each be off by MaxBack.  A threshold of one needs no event at all.       *)
BurstIsGroup ==
    \A type \in DOMAIN BurstThreshold :
        /\ detectBurstEvent(recent, type)
               => \/ BurstThreshold[type] = 1
                  \/ Burst(recent, type, BurstWindow + 2 * MaxBack)
        /\ Burst(recent, type, BurstWindow - MaxBack) => detectBurstEvent(recent, type)
=============================================================================
