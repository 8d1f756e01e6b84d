---------------------------- MODULE ContextManager ----------------------------
(***************************************************************************)
(* The session state of user/internal/context/manager.go: the processes    *)
(* and recent events of a session, and the flags derived from them that    *)
(* the rules read.                                                         *)
(*                                                                         *)
(* The pipeline folds an accepted event with Observe and then asks for the *)
(* derived flags with ApplyEvent; for an ignored one it calls              *)
(* ObserveIgnored, which may prune a shell wrapper from the state.  The    *)
(* janitor calls CloseSession between any two of these calls.  Each call   *)
(* holds m.mu.  The flags are kept up to date by adding the flags of the   *)
(* process an event is about; after a prune they are rebuilt from the      *)
(* processes that are left.                                                *)
(*                                                                         *)
(* A path stands for its base name too.  Only the exit of a leader thread  *)
(* is an exit of the process.  Metadata that no derived flag reads (PPID,  *)
(* UID, Args, timestamps but ClosedAt) is left out.                        *)
(***************************************************************************)
EXTENDS History, Functions, FiniteSets

CONSTANTS
    SessionIDs, Pids,
    Files,                    \* targets of openat
    Executables,              \* targets of execve
    Shells,                   \* those isShellProcess names: sh, bash, dash, zsh
    ShellNames,               \* those in shell_names
    NetworkTools,             \* those in network_tool_names
    SuspiciousPaths,          \* isSuspiciousPath
    DeletedFiles,             \* isDeletedPath
    Postures,                 \* what the security store may have read of a process
    DeepChainThreshold,
    RecentEventLimit,         \* fixed when the manager is created
    MaxPerProcessArtifacts,
    MaxEvents                 \* bound: events accepted per session

ASSUME LimitsAssumption ==                        \* normalizeHeuristics
    /\ DeepChainThreshold \in Nat \ {0} /\ RecentEventLimit \in Nat \ {0}
    /\ MaxPerProcessArtifacts \in Nat \ {0} /\ MaxEvents \in Nat
    /\ Shells \subseteq Executables
    /\ Postures \subseteq {"unread", "confined", "capable", "unfiltered", "privileged"}

VARIABLES
    sessions,          \* id -> [processes, recentEvents, closed]
    contexts,          \* id -> [execution, capability, history]: sets of flags
    dirtyContexts,     \* ids whose flags must be rebuilt
    suppressedShells,  \* id -> pids whose exit is to be swallowed
    applying,          \* the Observe without its ApplyEvent yet: << >> or
                       \* <<[id, pid, type]>>
    accepted,          \* id -> the events folded, oldest first, each with
                       \* whether it was pruned since
    scored             \* id -> the flags the rules were ever shown

contextVars == <<sessions, contexts, dirtyContexts, suppressedShells, applying,
                 accepted, scored>>

(* The assignment m[x] = v of a Go map. *)
Put(m, x, v) == [y \in DOMAIN m \cup {x} |-> IF y = x THEN v ELSE m[y]]

Unnamed == ""
NoContext == [execution |-> {}, capability |-> {}, history |-> {}]
NewSession == [processes |-> << >>, recentEvents |-> << >>, closed |-> FALSE]
NewProcess(comm) ==
    [comm |-> comm, execPath |-> Unnamed, lineage |-> << >>, opens |-> << >>,
     connected |-> FALSE, security |-> "unread", exited |-> FALSE]

SessionOf(id) == IF id \in DOMAIN sessions THEN sessions[id] ELSE NewSession
ContextOf(id) == IF id \in DOMAIN contexts THEN contexts[id] ELSE NoContext
Suppressed(id) == IF id \in DOMAIN suppressedShells THEN suppressedShells[id] ELSE {}
AcceptedOf(id) == IF id \in DOMAIN accepted THEN accepted[id] ELSE << >>
EventsIn(log) == [i \in DOMAIN log |-> log[i].e]
unpruned(log) == only(log, {a \in Range(log) : ~a.pruned})
Kept(id) == EventsIn(unpruned(AcceptedOf(id)))

-----------------------------------------------------------------------------
(* Mutant: the oldest items are kept. *)
trimNewest(items, limit) == SubSeq(items, 1, IF Len(items) < limit THEN Len(items) ELSE limit)

(* trimRecentEvents, trimOpenEvents: the latest `limit` items. *)
trim(items, limit) ==
    IF Len(items) <= limit THEN items
    ELSE SubSeq(items, Len(items) - limit + 1, Len(items))

(* rebuildLineage: the names in the lineage are those known at the execve. *)
NameOf(proc) == IF proc.execPath # Unnamed THEN proc.execPath ELSE proc.comm
rebuildLineage(processes, pid, lineage) ==
    [i \in DOMAIN lineage |->
        IF lineage[i] \in DOMAIN processes THEN NameOf(processes[lineage[i]])
                                           ELSE Unnamed]

Chain(proc) == IF proc.lineage = << >> THEN {NameOf(proc)} ELSE Range(proc.lineage)

BuildExecutionChainContext(proc) ==
    {flag \in {"SuspiciousPathExec", "DeepChain", "ShellInChain", "NetworkToolInChain"} :
       CASE flag = "SuspiciousPathExec" -> proc.execPath \in SuspiciousPaths
         [] flag = "DeepChain" -> Len(proc.lineage) - 1 >= DeepChainThreshold
         [] flag = "ShellInChain" -> Chain(proc) \cap ShellNames # {}
         [] flag = "NetworkToolInChain" -> Chain(proc) \cap NetworkTools # {}}

(* Without DangerousCount, how many capabilities it is. *)
BuildCapabilityContext(proc) ==
    {flag \in {"CapabilityUnknown", "HasDangerousCaps", "SeccompDisabled"} :
       CASE flag = "CapabilityUnknown" -> proc.security = "unread"
         [] flag = "HasDangerousCaps" -> proc.security \in {"capable", "privileged"}
         [] flag = "SeccompDisabled" -> proc.security \in {"unfiltered", "privileged"}}

(* BuildHistoricalContext: what the recent events show, and the opens. *)
BuildHistoricalContext(sess) ==
    HistoryOf(sess.recentEvents) \cup
    (IF \E pid \in DOMAIN sess.processes :
           Range(sess.processes[pid].opens) \cap DeletedFiles # {}
     THEN {"OpenedDeletedPath"} ELSE {})

(* FeatureMap: what the rules see of a context. *)
FeaturesOf(flags) ==
    flags.execution \cup (flags.capability \ {"CapabilityUnknown"}) \cup flags.history

-----------------------------------------------------------------------------
Init ==
    /\ sessions = << >> /\ contexts = << >>
    /\ dirtyContexts = {} /\ suppressedShells = << >>
    /\ applying = << >>
    /\ accepted = << >> /\ scored = [id \in SessionIDs |-> {}]

(* The process an event is about, after the event.  `lineage` is what
   BuildLineage returned and `security` what the store has for the pid.     *)
processAfter(processes, e, comm, lineage, security) ==
    LET proc == IF e.pid \in DOMAIN processes THEN processes[e.pid]
                                              ELSE NewProcess(comm)
        renamed == [proc EXCEPT !.execPath = e.target, !.comm = e.target]
    IN  CASE e.type = "execve" ->
               [renamed EXCEPT
                  !.lineage = rebuildLineage(Put(processes, e.pid, renamed), e.pid, lineage),
                  !.security = security, !.exited = FALSE]
          [] e.type = "openat" ->
               [proc EXCEPT !.opens = trim(Append(@, e.target), MaxPerProcessArtifacts)]
          [] e.type = "connect" -> [proc EXCEPT !.connected = TRUE]
          [] e.type = "exit" -> [proc EXCEPT !.exited = @ \/ e.target = "leader"]

Observe(id, e, comm, lineage, security) ==
    /\ applying = << >>
    /\ LET sess == SessionOf(id)
           proc == processAfter(sess.processes, e, comm, lineage, security)
       IN  sessions' = Put(sessions, id,
                           [sess EXCEPT
                              !.processes = Put(@, e.pid, proc),
                              !.recentEvents = trim(Append(@, e), RecentEventLimit)])
    /\ contexts' = Put(contexts, id, ContextOf(id))
    /\ applying' = <<[id |-> id, pid |-> e.pid, type |-> e.type]>>
    /\ accepted' = Put(accepted, id, Append(AcceptedOf(id), [e |-> e, pruned |-> FALSE]))
    /\ UNCHANGED <<dirtyContexts, suppressedShells, scored>>

rebuildExecutionAggregate(sess) ==
    UNION {BuildExecutionChainContext(p) : p \in Range(sess.processes)}
rebuildCapabilityAggregate(sess) ==
    UNION {BuildCapabilityContext(p) : p \in Range(sess.processes)}

(* Mutant: a context that is not dirty keeps its flags. *)
ApplyEventIfDirty ==
    /\ applying # << >>
    /\ LET id == applying[1].id
           sess == sessions[id]
           flags == IF id \in dirtyContexts
                    THEN [execution |-> rebuildExecutionAggregate(sess),
                          capability |-> rebuildCapabilityAggregate(sess),
                          history |-> BuildHistoricalContext(sess)]
                    ELSE [contexts[id] EXCEPT !.history = BuildHistoricalContext(sess)]
       IN  /\ contexts' = [contexts EXCEPT ![id] = flags]
           /\ scored' = [scored EXCEPT ![id] = @ \cup FeaturesOf(flags)]
           /\ dirtyContexts' = dirtyContexts \ {id}
    /\ applying' = << >>
    /\ UNCHANGED <<sessions, suppressedShells, accepted>>

ApplyEvent ==
    /\ applying # << >>
    /\ LET id == applying[1].id
           sess == sessions[id]
           proc == sess.processes[applying[1].pid]
           known == IF id \in dirtyContexts
                    THEN [execution |-> rebuildExecutionAggregate(sess),
                          capability |-> rebuildCapabilityAggregate(sess)]
                    ELSE contexts[id]
           flags == [execution |-> known.execution \cup
                         (IF applying[1].type \in {"execve", "exit"}
                          THEN BuildExecutionChainContext(proc) ELSE {}),
                     capability |-> known.capability \cup
                         (IF applying[1].type = "execve"
                          THEN BuildCapabilityContext(proc) ELSE {}),
                     history |-> BuildHistoricalContext(sess)]
       IN  /\ contexts' = [contexts EXCEPT ![id] = flags]
           /\ scored' = [scored EXCEPT ![id] = @ \cup FeaturesOf(flags)]
           /\ dirtyContexts' = dirtyContexts \ {id}
    /\ applying' = << >>
    /\ UNCHANGED <<sessions, suppressedShells, accepted>>

-----------------------------------------------------------------------------
isShellProcess(proc) ==
    (IF proc.comm # Unnamed THEN proc.comm ELSE proc.execPath) \in Shells

isTransparentShellWrapperProcess(proc) ==
    /\ ~proc.connected
    /\ isShellProcess(proc)
    /\ Range(proc.opens) \subseteq QuietTargets

withoutPid(events, pid) == only(events, {e \in Range(events) : e.pid # pid})

(* Mutant: the process record of a pruned shell stays. *)
pruneEventsOnly(sess, pid) ==
    [sess EXCEPT !.recentEvents = withoutPid(@, pid)]

prune(sess, pid) ==
    [sess EXCEPT !.processes = Restrict(@, DOMAIN @ \ {pid}),
                 !.recentEvents = withoutPid(@, pid)]

markPruned(log, pid) ==
    [i \in DOMAIN log |-> [log[i] EXCEPT !.pruned = @ \/ log[i].e.pid = pid]]

(* ObserveIgnored for a routine command such as whoami: if its parent is a
   shell that has done nothing else, the shell goes, and neither the exit of
   the shell nor that of the command will be folded.                        *)
IgnoreRoutineExec(id, pid, ppid) ==
    /\ applying = << >>
    /\ IF /\ ppid \in DOMAIN SessionOf(id).processes
          /\ isTransparentShellWrapperProcess(sessions[id].processes[ppid])
       THEN /\ sessions' = [sessions EXCEPT ![id] = prune(@, ppid)]
            /\ suppressedShells' = Put(suppressedShells, id, Suppressed(id) \cup {ppid, pid})
            /\ dirtyContexts' = dirtyContexts \cup {id}
            /\ accepted' = [accepted EXCEPT ![id] = markPruned(@, ppid)]
       ELSE UNCHANGED <<sessions, suppressedShells, dirtyContexts, accepted>>
    /\ UNCHANGED <<contexts, applying, scored>>

unsuppress(id, pid) ==
    suppressedShells' = IF Suppressed(id) = {pid}
                        THEN Restrict(suppressedShells, DOMAIN suppressedShells \ {id})
                        ELSE [suppressedShells EXCEPT ![id] = @ \ {pid}]

(* ObserveIgnored for an exit: any thread's exit uses up the suppression. *)
IgnoreExit(id, pid) ==
    /\ applying = << >>
    /\ id \in DOMAIN sessions /\ pid \in Suppressed(id)
    /\ unsuppress(id, pid)
    /\ dirtyContexts' = dirtyContexts \cup {id}
    /\ UNCHANGED <<sessions, contexts, applying, accepted, scored>>

CloseSession(id) ==
    /\ id \in DOMAIN sessions
    /\ sessions' = [sessions EXCEPT ![id].closed = TRUE]
    /\ suppressedShells' = Restrict(suppressedShells, DOMAIN suppressedShells \ {id})
    /\ UNCHANGED <<contexts, dirtyContexts, applying, accepted, scored>>

-----------------------------------------------------------------------------
(* The events the filters let through.  An ObservedEvent keeps the type, the
   pid, the target and the flags; the time is the number of the event.      *)
EventsOf(id, pid) ==
    {[type |-> shape[1], target |-> shape[2], writes |-> shape[3], pid |-> pid,
      time |-> Len(AcceptedOf(id)) + 1] :
        shape \in ({"openat"} \X Files \X {FALSE})
             \cup ({"openat"} \X (Files \cap Executables) \X {TRUE})
             \cup ({"execve"} \X Executables \X {FALSE})
             \cup ({"connect"} \X {"remote"} \X {FALSE})
             \cup ({"exit"} \X {"leader", "thread"} \X {FALSE})}

Lineages(pid) == {<< >>, <<pid>>} \cup {<<pid, other>> : other \in Pids \ {pid}}

Accept ==
    \E id \in SessionIDs, pid \in Pids :
        /\ Len(AcceptedOf(id)) < MaxEvents
        /\ \E e \in EventsOf(id, pid), comm \in Executables :
             /\ e.type = "exit" => pid \notin Suppressed(id)
             /\ pid \in DOMAIN SessionOf(id).processes => comm = CHOOSE c \in Executables : TRUE
             /\ IF e.type = "execve"
                THEN \E lineage \in Lineages(pid), security \in Postures :
                        Observe(id, e, comm, lineage, security)
                ELSE Observe(id, e, comm, << >>, "unread")

Ignore ==
    \E id \in SessionIDs, pid \in Pids :
        \/ \E ppid \in Pids \ {pid} : IgnoreRoutineExec(id, pid, ppid)
        \/ IgnoreExit(id, pid)

JanitorCloses == \E id \in SessionIDs : CloseSession(id)

Next == Accept \/ ApplyEvent \/ Ignore \/ JanitorCloses

Spec == Init /\ [][Next]_contextVars

-----------------------------------------------------------------------------
(* The state is well formed. *)
TypeOK ==
    /\ DOMAIN contexts = DOMAIN sessions /\ DOMAIN sessions \subseteq SessionIDs
    /\ dirtyContexts \subseteq DOMAIN sessions
    /\ \A id \in DOMAIN suppressedShells :
          suppressedShells[id] # {} /\ suppressedShells[id] \subseteq Pids
    /\ \A id \in DOMAIN sessions :
          /\ Len(sessions[id].recentEvents) <= RecentEventLimit
          /\ \A pid \in DOMAIN sessions[id].processes :
                Len(sessions[id].processes[pid].opens) <= MaxPerProcessArtifacts

(* The recent events are the end of the session's events without the pruned
   ones, in order and complete: trimming and pruning, in any order, neither
   resurrect an event nor drop one of the last RecentEventLimit.            *)
RecentIsEndOfHistory ==
    \A id \in DOMAIN sessions :
        LET recent == sessions[id].recentEvents
            latest == trim(AcceptedOf(id), RecentEventLimit)
        IN  /\ IsSuffix(recent, Kept(id))
            /\ Len(recent) >= Len(unpruned(latest))

(* The two views of a session agree: it has a process for exactly the pids of
   the events that were not pruned, so a pruned shell leaves no trace unless
   it does something again, and no other process loses its record.          *)
ProcessesAreThoseOfEvents ==
    \A id \in DOMAIN sessions :
        DOMAIN sessions[id].processes =
            {a.e.pid : a \in {a \in Range(AcceptedOf(id)) : ~a.pruned}}

(* No flag is invented: what the history shows after trimming and pruning did
   happen in the session, although events between two others are missing.
   It rests on the order of the times: EventsOf numbers the events.         *)
HistoryHappened ==
    \A id \in DOMAIN contexts :
        contexts[id].history \ {"OpenedDeletedPath"}
            \subseteq HistoryOf(EventsIn(AcceptedOf(id)))

(* Once the flags are applied they cover every process that was executed in
   the session and is still in it, whether they were added one by one or
   rebuilt after a prune, and wherever the close-out fell.                  *)
FlagsCoverProcesses ==
    (applying = << >>) =>
        \A id \in DOMAIN sessions \ dirtyContexts : \A pid \in DOMAIN sessions[id].processes :
            LET proc == sessions[id].processes[pid]
            IN  proc.execPath # Unnamed =>
                    /\ BuildExecutionChainContext(proc) \subseteq contexts[id].execution
                    /\ BuildCapabilityContext(proc) \subseteq contexts[id].capability

-----------------------------------------------------------------------------
(* What the documents say, and the code does not do. *)

(* README.md:52: the flags on a session's span "explain why the session ended
   in that state".  A flag that the rules were given may be gone by then.    *)
FlagsExplainScore ==
    (applying = << >>) =>
        \A id \in DOMAIN contexts :
            scored[id] \subseteq FeaturesOf(contexts[id])

(* manager.go:72: what is pruned is "a pure shell wrapper".  With it goes
   whatever its pid did earlier, be it meaningful.                          *)
PrunedIsPureShell ==
    \A id \in DOMAIN accepted : \A i \in DOMAIN accepted[id] :
        accepted[id][i].pruned =>
            CASE accepted[id][i].e.type = "execve" -> accepted[id][i].e.target \in Shells
              [] accepted[id][i].e.type = "openat" -> accepted[id][i].e.target \in QuietTargets
              [] accepted[id][i].e.type = "connect" -> FALSE
              [] OTHER -> TRUE
=============================================================================
