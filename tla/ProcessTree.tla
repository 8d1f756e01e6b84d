----------------------------- MODULE ProcessTree -----------------------------
(***************************************************************************)
(* Which events of which processes reach session state: the process        *)
(* tracker, the pending shell wrappers, the security snapshot cache, and   *)
(* the gates of pipeline.Run that use them (pipeline.go:54-117).           *)
(*                                                                         *)
(* The tracker knows processes by pid only and learns of them from execve  *)
(* and exit events, while pids are reused, parents die before their        *)
(* children, and a fork makes no event at all.  The machine's processes    *)
(* are part of the model, as of the event being handled: events arrive in  *)
(* order and none is lost here (EventPath models their loss).  Sessions    *)
(* are those of SessionTracker, reduced to which id ActiveSession returns; *)
(* the janitor clears a session's wrappers between any two steps of Run.   *)
(***************************************************************************)
EXTENDS Integers, FiniteSets, Sequences, Functions, SequencesExt

CONSTANTS
    Pids,             \* process ids
    OpenClaw,         \* the OpenClaw processes that the bootstrap finds
    LineageMaxDepth,  \* analysis.lineage_max_depth
    MaxSessions,      \* bound: sessions
    MaxBirths         \* bound: processes started

NoPid == 0   \* the parent of a process whose parent is not of interest: init

ASSUME ConstantsAssumption ==
    /\ NoPid \notin Pids /\ OpenClaw \subseteq Pids
    /\ LineageMaxDepth \in Nat \ {0}                  \* Config.Validate
    /\ MaxSessions \in Nat /\ MaxBirths \in Nat

VARIABLES
    parent,       \* live pid -> its parent, NoPid once orphaned
    forebears,    \* live pid -> those of its true ancestors that are alive
    inTree,       \* live pids that are, or descend from, an OpenClaw process
    programs,     \* live pids whose last execve ran a program of its own, no
                  \* routine command, under a parent that was tracked then
    births,       \* processes started
    tracked,      \* Tracker.tracked: pid -> TrackedInfo
    roots,        \* Tracker.roots
    items,        \* pendingShellWrappers.items: session -> pid -> parent
    snapshots,    \* SecurityStore.snapshots: pid -> whose posture it shows, the
                  \* "present" bearer of the pid or a "former" one
    session,      \* the id that ActiveSession returns, 0 for none
    lastSession,  \* the last id given out
    expired,      \* ids for which the janitor owes a ClearSession
    run           \* where Run is: [at, e, id]

machine == <<parent, forebears, inTree, programs, births>>
sessionVars == <<session, lastSession, expired>>
vars == <<machine, tracked, roots, items, snapshots, sessionVars, run>>

(* Of the cached Depth it matters here whether it is zero. *)
TrackedInfo == [ppid : Pids \cup {NoPid}, rootDepth : BOOLEAN, transparent : BOOLEAN]

(* What the gates tell apart in an event: a bare shell, one of the routine
   commands, a filtered path or address, a connect to a configured endpoint
   by a thread of any name or of an OpenClaw name, the exit of the thread
   group leader.                                                            *)
Kinds == [execve |-> {"shell", "routine", "ordinary"},
          openat |-> {"noise", "ordinary"},
          connect |-> {"noise", "ordinary", "configured", "runtime"},
          exit |-> {"leader", "thread"}]

isTransparentRoutineExec(e) == e.type = "execve" /\ e.kind = "routine"
isPendingShellExecve(e) == e.type = "execve" /\ e.kind = "shell"
ShouldIngestIntoContext(e) == e.kind \notin {"noise", "routine"}

(* Mutant: no open promotes a pending shell. *)
isPendingShellNoiseOpen(e) == e.type \in {"exit", "openat"}

isPendingShellNoise(e) ==
    e.type = "exit" \/ (e.type = "openat" /\ ~ShouldIngestIntoContext(e))
LeaderExit(e) == e.type = "exit" /\ e.kind = "leader"

Receiving == [at |-> "receive", e |-> << >>, id |-> 0]

Init ==
    /\ parent = [p \in OpenClaw |-> NoPid]
    /\ forebears = [p \in OpenClaw |-> {}]
    /\ inTree = OpenClaw
    /\ programs = {}
    /\ births = 0
    (* BootstrapOpenClaw *)
    /\ tracked = [p \in OpenClaw |->
                     [ppid |-> NoPid, rootDepth |-> TRUE, transparent |-> FALSE]]
    /\ roots = OpenClaw
    /\ snapshots = [p \in OpenClaw |-> "present"]
    /\ items = << >>
    /\ session = 0 /\ lastSession = 0 /\ expired = {}
    /\ run = Receiving

-----------------------------------------------------------------------------
(* The assignment m[x] = v of a Go map. *)
Put(m, x, v) == [y \in DOMAIN m \cup {x} |-> IF y = x THEN v ELSE m[y]]

(* The tracker; Untrack is its Remove. *)
Propagate(pid, ppid, transparent) ==
    IF ppid \in DOMAIN tracked
    THEN Put(tracked, pid, [ppid |-> ppid,
                            rootDepth |-> transparent /\ tracked[ppid].rootDepth,
                            transparent |-> transparent])
    ELSE tracked

SetTransparent(info, pid, transparent) ==
    IF pid \in DOMAIN info THEN [info EXCEPT ![pid].transparent = transparent] ELSE info

Untrack(pid) ==
    /\ tracked' = Restrict(tracked, DOMAIN tracked \ {pid})
    /\ roots' = roots \ {pid}

(* Mutant: a thread that exits takes its process with it. *)
ForgetOnAnyExit(e) ==
    IF e.type = "exit" THEN Untrack(e.pid) ELSE UNCHANGED <<tracked, roots>>

(* The end of every path an exit event can take through the loop. *)
ForgetOnLeaderExit(e) ==
    IF LeaderExit(e) THEN Untrack(e.pid) ELSE UNCHANGED <<tracked, roots>>

(* BuildLineage: up the cached parents, at most LineageMaxDepth + 1 steps, to
   a root or to a process that is not cached; transparent ones are skipped. *)
Walk(pid) ==
    LET at[i \in 0 .. LineageMaxDepth] ==
          IF i = 0 THEN pid
          ELSE LET p == at[i - 1]
               IN  IF p \in DOMAIN tracked /\ p \notin roots THEN tracked[p].ppid
                                                             ELSE NoPid
    IN  [i \in 1 .. LineageMaxDepth + 1 |-> at[i - 1]]
BuildLineage(pid) ==
    SelectSeq(Walk(pid), LAMBDA p : p \in DOMAIN tracked /\ ~tracked[p].transparent)

-----------------------------------------------------------------------------
(* The pending shell wrappers. *)
Pending(id) == IF id \in DOMAIN items THEN items[id] ELSE << >>

RemovePending(id, pid) ==
    LET left == Restrict(Pending(id), DOMAIN Pending(id) \ {pid})
    IN  items' = IF DOMAIN left = {} THEN Restrict(items, DOMAIN items \ {id})
                                     ELSE Put(items, id, left)

-----------------------------------------------------------------------------
(* The machine.  A fork makes no event: the child is not tracked before it
   executes something.  A process that has nothing to do with OpenClaw may
   start too, with a pid that was used before.                              *)
Fork(p, c) ==
    /\ run.at = "receive" /\ births < MaxBirths
    /\ p \in DOMAIN parent \cup {NoPid} /\ c \in Pids \ DOMAIN parent
    /\ parent' = Put(parent, c, p)
    /\ forebears' = Put(forebears, c, IF p = NoPid THEN {} ELSE forebears[p] \cup {p})
    /\ inTree' = IF p \in inTree THEN inTree \cup {c} ELSE inTree
    /\ births' = births + 1
    /\ UNCHANGED <<programs, tracked, roots, items, snapshots, sessionVars, run>>

(* The event of a live process, with the parent it has at that moment. *)
EventsOf(p) ==
    UNION {{[type |-> type, kind |-> kind, pid |-> p, ppid |-> parent[p]] :
              kind \in Kinds[type]} : type \in DOMAIN Kinds}

(* The exit of a process orphans its children and frees its pid. *)
MachineAfter(e) ==
    IF LeaderExit(e)
    THEN /\ parent' = [p \in DOMAIN parent \ {e.pid} |->
                          IF parent[p] = e.pid THEN NoPid ELSE parent[p]]
         /\ forebears' = [p \in DOMAIN forebears \ {e.pid} |->
                             forebears[p] \ {e.pid}]
         /\ inTree' = inTree \ {e.pid}
         /\ programs' = programs \ {e.pid}
         /\ snapshots' = [p \in DOMAIN snapshots |->
                             IF p = e.pid THEN "former" ELSE snapshots[p]]
         /\ UNCHANGED births
    ELSE /\ programs' =
               IF e.type # "execve" THEN programs
               ELSE IF isTransparentRoutineExec(e) \/ e.ppid \notin DOMAIN tracked
                    THEN programs \ {e.pid} ELSE programs \cup {e.pid}
         /\ UNCHANGED <<parent, forebears, inTree, births, snapshots>>

-----------------------------------------------------------------------------
(* pipeline.Run. *)

(* Mutant: an exit outside of any session is dropped like any other event. *)
ReceiveDropsExit(e) ==
    /\ run.at = "receive"
    /\ MachineAfter(e)
    /\ LET known == IF e.type = "execve"
                    THEN Propagate(e.pid, e.ppid, isTransparentRoutineExec(e))
                    ELSE tracked
           passes == {e.pid, e.ppid} \cap DOMAIN known # {} /\ session # 0
       IN  /\ run' = IF passes THEN [at |-> "rewrite", e |-> e, id |-> session] ELSE run
           /\ tracked' = known /\ UNCHANGED roots
    /\ UNCHANGED <<items, sessionVars>>

(* The lifecycle update for an execve, then the first two gates. *)
Receive(e) ==
    /\ run.at = "receive"
    /\ MachineAfter(e)
    /\ LET known == IF e.type = "execve"
                    THEN Propagate(e.pid, e.ppid, isTransparentRoutineExec(e))
                    ELSE tracked
           passes == {e.pid, e.ppid} \cap DOMAIN known # {} /\ session # 0
       IN  \/ /\ passes
              /\ run' = [at |-> "rewrite", e |-> e, id |-> session]
              /\ tracked' = known /\ UNCHANGED roots
           \/ /\ ~passes
              /\ IF LeaderExit(e) THEN Untrack(e.pid)
                                  ELSE tracked' = known /\ UNCHANGED roots
              /\ UNCHANGED run
    /\ UNCHANGED <<items, sessionVars>>

(* Mutant: the rewrite gives the child the depth its new parent implies. *)
RewriteWithDepth ==
    /\ run.at = "rewrite"
    /\ LET e == run.e
           ppid == IF e.ppid \in DOMAIN Pending(run.id)
                   THEN Pending(run.id)[e.ppid] ELSE e.ppid
       IN  /\ run' = [run EXCEPT !.at = "promote", !.e.ppid = ppid]
           /\ tracked' = IF ppid # e.ppid /\ e.pid \in DOMAIN tracked
                         THEN [tracked EXCEPT ![e.pid].ppid = ppid,
                                              ![e.pid].rootDepth = ppid \in roots]
                         ELSE tracked
    /\ UNCHANGED <<machine, roots, items, snapshots, sessionVars>>

(* RewriteParent: the parent of a pending shell's child is the shell's own
   parent, in the event and, when the child is tracked, in the tracker.     *)
Rewrite ==
    /\ run.at = "rewrite"
    /\ LET e == run.e
           ppid == IF e.ppid \in DOMAIN Pending(run.id)
                   THEN Pending(run.id)[e.ppid] ELSE e.ppid
       IN  /\ run' = [run EXCEPT !.at = "promote", !.e.ppid = ppid]
           /\ tracked' = IF ppid # e.ppid /\ e.pid \in DOMAIN tracked
                         THEN [tracked EXCEPT ![e.pid].ppid = ppid] ELSE tracked
    /\ UNCHANGED <<machine, roots, items, snapshots, sessionVars>>

(* PromoteIfMeaningful. *)
Promote ==
    /\ run.at = "promote"
    /\ run' = [run EXCEPT !.at = "dispatch"]
    /\ IF run.e.pid \in DOMAIN Pending(run.id) /\ ~isPendingShellNoise(run.e)
       THEN /\ RemovePending(run.id, run.e.pid)
            /\ tracked' = SetTransparent(tracked, run.e.pid, FALSE)
       ELSE UNCHANGED <<items, tracked>>
    /\ UNCHANGED <<machine, roots, snapshots, sessionVars>>

(* A bare shell is put aside until it does something. *)
PendShell ==
    /\ run.at = "dispatch" /\ isPendingShellExecve(run.e)
    /\ items' = Put(items, run.id, Put(Pending(run.id), run.e.pid, run.e.ppid))
    /\ tracked' = SetTransparent(tracked, run.e.pid, TRUE)
    /\ run' = Receiving
    /\ UNCHANGED <<machine, roots, snapshots, sessionVars>>

(* A shell that exits without having done anything leaves nothing behind. *)
ForgetShell ==
    /\ run.at = "dispatch" /\ ~isPendingShellExecve(run.e)
    /\ LeaderExit(run.e) /\ run.e.pid \in DOMAIN Pending(run.id)
    /\ RemovePending(run.id, run.e.pid)
    /\ Untrack(run.e.pid)
    /\ run' = Receiving
    /\ UNCHANGED <<machine, snapshots, sessionVars>>

ReachesFilters ==
    /\ run.at = "dispatch"
    /\ ~isPendingShellExecve(run.e)
    /\ ~(LeaderExit(run.e) /\ run.e.pid \in DOMAIN Pending(run.id))

(* The classifier of connects to configured endpoints, which goes by the depth
   of the process, or of its parent when it has executed nothing yet.       *)
ShouldIgnoreConfiguredConnect(e) ==
    LET known == IF e.pid \in DOMAIN tracked THEN e.pid ELSE e.ppid
    IN  /\ e.type = "connect" /\ e.kind \in {"configured", "runtime"}
        /\ known \in DOMAIN tracked
        /\ tracked[known].rootDepth \/ e.kind = "runtime"

(* shouldIgnoreSecurityPipelineEvent: a configured connect, what is not worth
   ingesting, the exit of a shell suppressed in the context manager, which is
   decided there.                                                           *)
Ignore ==
    /\ ReachesFilters
    /\ \/ ShouldIgnoreConfiguredConnect(run.e)
       \/ ~ShouldIngestIntoContext(run.e)
       \/ run.e.type = "exit"
    /\ IF LeaderExit(run.e) THEN RemovePending(run.id, run.e.pid) ELSE UNCHANGED items
    /\ ForgetOnLeaderExit(run.e)
    /\ run' = Receiving
    /\ UNCHANGED <<machine, snapshots, sessionVars>>

(* securityStore.Ensure, when an accepted execve gets its lineage. *)
Enrich ==
    /\ ReachesFilters
    /\ ShouldIngestIntoContext(run.e) /\ ~ShouldIgnoreConfiguredConnect(run.e)
    /\ run' = [run EXCEPT !.at = "observe"]
    /\ snapshots' = IF run.e.type = "execve" /\ run.e.pid \notin DOMAIN snapshots
                    THEN Put(snapshots, run.e.pid, "present") ELSE snapshots
    /\ UNCHANGED <<machine, tracked, roots, items, sessionVars>>

(* The event is folded, evaluated and recorded; then an exit is cleaned up. *)
Observe ==
    /\ run.at = "observe"
    /\ IF LeaderExit(run.e) THEN RemovePending(run.id, run.e.pid) ELSE UNCHANGED items
    /\ ForgetOnLeaderExit(run.e)
    /\ run' = Receiving
    /\ UNCHANGED <<machine, snapshots, sessionVars>>

-----------------------------------------------------------------------------
(* Sessions come and go; only the janitor's sweep leads to a ClearSession. *)
SessionStarts ==
    /\ session = 0 /\ lastSession < MaxSessions
    /\ run.at = "receive"
    /\ session' = lastSession + 1 /\ lastSession' = lastSession + 1
    /\ UNCHANGED <<machine, tracked, roots, items, snapshots, expired, run>>

SessionEnds ==
    /\ session # 0
    /\ session' = 0
    /\ \/ expired' = expired \cup {session}              \* Expire, the janitor
       \/ run.at = "receive" /\ UNCHANGED expired        \* the sweep of Run
    /\ UNCHANGED <<machine, tracked, roots, items, snapshots, lastSession, run>>

(* The janitor's callback: pendingShells.ClearSession. *)
ClearSession ==
    /\ \E id \in expired : /\ items' = Restrict(items, DOMAIN items \ {id})
                           /\ expired' = expired \ {id}
    /\ UNCHANGED <<machine, tracked, roots, snapshots, session, lastSession, run>>

Handle == \E p \in DOMAIN parent : \E e \in EventsOf(p) : Receive(e)
Machine == \E p \in Pids \cup {NoPid}, c \in Pids : Fork(p, c)
Idle == run.at = "receive" /\ UNCHANGED vars

Next ==
    \/ Machine \/ Handle
    \/ Rewrite \/ Promote \/ PendShell \/ ForgetShell \/ Ignore \/ Enrich \/ Observe
    \/ SessionStarts \/ SessionEnds \/ ClearSession
    \/ Idle

Spec == Init /\ [][Next]_vars

-----------------------------------------------------------------------------
(* The state is well formed; lineage ends at cached processes only. *)
TypeOK ==
    /\ DOMAIN parent \subseteq Pids /\ DOMAIN forebears = DOMAIN parent
    /\ inTree \subseteq DOMAIN parent
    /\ DOMAIN tracked \subseteq Pids
    /\ \A p \in DOMAIN tracked : tracked[p] \in TrackedInfo
    /\ roots \subseteq DOMAIN tracked
    /\ DOMAIN items \subseteq 1 .. lastSession
    /\ \A id \in DOMAIN items : items[id] # << >> /\ DOMAIN items[id] \subseteq Pids
    /\ session \in {0, lastSession}
    /\ run.at \in {"receive", "rewrite", "promote", "dispatch", "observe"}

(* Every cached process is alive and belongs to OpenClaw's tree, whatever the
   path its ancestors' exits took through the gates and however often its pid
   was used before: the five returns of the loop all clean up.              *)
TrackedIsInTree ==
    run.at = "receive" => DOMAIN tracked \subseteq inTree

(* The first gate lets nothing in from outside (pipeline.go:21): an event that
   reaches session state comes from a process of OpenClaw's tree, although it
   is let in on the strength of a pid, or of its parent's pid, alone.       *)
OnlyTreeIsObserved ==
    (run.at = "observe" /\ ~LeaderExit(run.e)) => run.e.pid \in inTree

(* A shell that is put aside in the current session is invisible until it is
   promoted: it is in nobody's lineage, and what it does leaves no trace in
   session state.  (The exit of a single thread of it does.)                *)
PendingIsInvisible ==
    /\ (run.at = "receive" /\ session # 0) =>
           \A p \in DOMAIN Pending(session) :
               p \in DOMAIN tracked /\ tracked[p].transparent
    /\ (run.at = "observe" /\ run.e.type # "exit") =>
           run.e.pid \notin DOMAIN Pending(run.id)

(* A process that ran a program of its own as a child of OpenClaw's tree is
   never taken for OpenClaw itself: its connects to the configured endpoints
   are reported, whatever became of its parent, of the pids of both and of
   the shell it was started from (classifier.go:31, shell.go:129;
   provider_test.go:83).                                                    *)
ChildConnectIsReported ==
    (run.at = "dispatch" /\ run.e.kind = "configured" /\ run.e.pid \in programs) =>
        ~ShouldIgnoreConfiguredConnect(run.e)

(* A live process that was tracked stays tracked: only its own exit, not that
   of one of its threads or of its parent, ends its tracking
   (pipeline_exit_test.go:10).                                              *)
TrackedUntilExit ==
    [][\A p \in DOMAIN tracked \cap DOMAIN parent' : p \in DOMAIN tracked']_vars

-----------------------------------------------------------------------------
(* What the comments say, and the code does not do. *)

(* tracker.go:125: Remove drops a pid "so exited processes do not leak stale
   lineage".  Its children keep it as their parent, and when the pid is used
   again their lineage runs through a process that is not their ancestor.   *)
LineageIsAncestry ==
    (run.at = "observe" /\ run.e.type = "execve") =>
        \A p \in Range(BuildLineage(run.e.pid)) :
            p = run.e.pid \/ p \in forebears[run.e.pid]

(* provider_test.go:83: "expected non-root-depth configured connect not to be
   ignored".  What a pending shell forks, and executes nothing, is given the
   parent of the shell (shell.go:129); when that is an OpenClaw process, the
   connect of the fork is ignored as if it were OpenClaw's own.             *)
ForkOfChildIsReported ==
    (/\ run.at = "dispatch" /\ run.e.kind = "configured"
     /\ run.e.pid \notin DOMAIN tracked /\ parent[run.e.pid] \in programs) =>
        ~ShouldIgnoreConfiguredConnect(run.e)

(* security.go:9: the snapshot is "the last known security posture for a
   tracked pid".  It is the first one read for the pid, whoever had it.     *)
SnapshotIsOfTrackedProcess ==
    (run.at = "observe" /\ run.e.type = "execve") =>
        snapshots[run.e.pid] = "present"
=============================================================================
