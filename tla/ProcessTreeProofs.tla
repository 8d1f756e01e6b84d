-------------------------- MODULE ProcessTreeProofs --------------------------
(***************************************************************************)
(* Proofs about ProcessTree, for every set of pids, of OpenClaw processes, *)
(* and every number of births and sessions.                                *)
(*                                                                         *)
(* The inductive invariant says what holds of the machine, of the tracked  *)
(* processes and of the pending shells in the middle of an iteration of    *)
(* Run, when the event's own process is the one exception to each rule: it *)
(* may have exited already, or have just executed something.               *)
(***************************************************************************)
EXTENDS ProcessTree, TLAPS

Handling == run.at # "receive"
Exiting == Handling /\ LeaderExit(run.e)

(* Events and entries of the tracker are records. *)
Shape ==
    /\ run = [at |-> run.at, e |-> run.e, id |-> run.id]
    /\ run.at \in {"receive", "rewrite", "promote", "dispatch", "observe"}
    /\ Handling => run.e = [type |-> run.e.type, kind |-> run.e.kind,
                            pid |-> run.e.pid, ppid |-> run.e.ppid]
    /\ \A p \in DOMAIN tracked :
          tracked[p] = [ppid |-> tracked[p].ppid, rootDepth |-> tracked[p].rootDepth,
                        transparent |-> tracked[p].transparent]

(* The children of a process of the tree are in the tree. *)
MachineInv ==
    /\ DOMAIN parent \subseteq Pids
    /\ \A p \in DOMAIN parent : parent[p] \in DOMAIN parent \cup {NoPid}
    /\ inTree \subseteq DOMAIN parent
    /\ \A p \in DOMAIN parent : parent[p] \in inTree => p \in inTree
    /\ Exiting => run.e.pid \notin DOMAIN parent

(* A process that has exited is tracked until its exit was handled. *)
TreeInv ==
    /\ \A p \in DOMAIN tracked : p \in inTree \/ (Exiting /\ p = run.e.pid)
    /\ (Handling /\ ~LeaderExit(run.e)) => run.e.pid \in inTree
    /\ (Handling /\ run.e.type = "execve") => run.e.pid \in DOMAIN tracked

DepthInv ==
    /\ \A p \in programs : p \in DOMAIN tracked /\ ~tracked[p].rootDepth
    /\ Exiting => run.e.pid \notin programs

(* The session whose shells matter: that of the event, or the current one. *)
Concerned == IF Handling THEN run.id ELSE session
Shells == DOMAIN Pending(Concerned)

SessionInv ==
    /\ lastSession \in Nat /\ session \in {0, lastSession}
    /\ DOMAIN items \subseteq 1 .. lastSession
    /\ Handling => run.id = lastSession /\ run.id # 0

(* A pending shell is in the tracker, and in no lineage, unless it has just
   executed something and is about to be promoted.                          *)
PendingInv ==
    /\ Concerned # 0 =>
          \A p \in Shells :
              /\ p \in DOMAIN tracked
              /\ \/ tracked[p].transparent
                 \/ run.at \in {"rewrite", "promote"} /\ p = run.e.pid
                    /\ run.e.type = "execve"
    /\ (run.at \in {"dispatch", "observe"} /\ run.e.pid \in Shells) =>
          isPendingShellNoise(run.e)
    /\ run.at = "observe" => ShouldIngestIntoContext(run.e)

IInv == Shape /\ MachineInv /\ TreeInv /\ DepthInv /\ SessionInv /\ PendingInv

-----------------------------------------------------------------------------
(* What the steps of Run do to the event, the tracker and the wrappers.     *)

SameEvent ==
    /\ run'.id = run.id /\ run'.e.pid = run.e.pid
    /\ run'.e.type = run.e.type /\ run'.e.kind = run.e.kind

(* The pids tracked, and what the gates read of them, but for one of them. *)
TrackedBut(S) ==
    \A p \in DOMAIN tracked \ S :
        /\ p \in DOMAIN tracked'
        /\ tracked'[p].rootDepth = tracked[p].rootDepth
        /\ tracked'[p].transparent = tracked[p].transparent

LEMMA EventIsRecord ==
    ASSUME NEW p \in DOMAIN parent, NEW e \in EventsOf(p)
    PROVE  /\ e = [type |-> e.type, kind |-> e.kind, pid |-> p, ppid |-> parent[p]]
           /\ e.pid = p /\ e.ppid = parent[p]
<1>1. PICK type \in DOMAIN Kinds :
          \E kind \in Kinds[type] :
              e = [type |-> type, kind |-> kind, pid |-> p, ppid |-> parent[p]]
  BY DEF EventsOf
<1> QED BY <1>1

LEMMA InitIInv == Init => IInv
<1> SUFFICES ASSUME Init PROVE IInv
  OBVIOUS
<1> USE DEF Init, Receiving, Handling, Exiting, Concerned, Shells
<1>1. Shape
  BY DEF Shape
<1>2. MachineInv
  BY ConstantsAssumption DEF MachineInv, NoPid
<1>3. TreeInv
  BY DEF TreeInv
<1>4. DepthInv
  BY DEF DepthInv
<1>5. SessionInv
  BY DEF SessionInv
<1>6. PendingInv
  BY DEF PendingInv
<1> QED BY <1>1, <1>2, <1>3, <1>4, <1>5, <1>6 DEF IInv

(* The middle of an iteration: the machine stands still.  A step that keeps
   the event, removes nothing from the tracker and only takes away wrappers
   keeps the invariant of the machine, the tree and the depth.              *)
LEMMA MiddleStep ==
    ASSUME IInv, Handling, Handling', SameEvent, UNCHANGED machine,
           DOMAIN tracked' = DOMAIN tracked,
           \A p \in DOMAIN tracked : tracked'[p].rootDepth = tracked[p].rootDepth
    PROVE  MachineInv' /\ TreeInv' /\ DepthInv'
<1> USE DEF Exiting, LeaderExit, SameEvent, machine
<1>1. MachineInv'
  BY DEF IInv, MachineInv
<1>2. TreeInv'
  BY DEF IInv, TreeInv
<1>3. DepthInv'
  BY DEF IInv, DepthInv
<1> QED BY <1>1, <1>2, <1>3

LEMMA ShellsKept ==
    ASSUME Concerned' = Concerned, UNCHANGED items
    PROVE  Shells' = Shells
BY DEF Shells, Pending

LEMMA RewriteKeeps == IInv /\ Rewrite => IInv'
<1> SUFFICES ASSUME IInv, Rewrite PROVE IInv'
  OBVIOUS
<1> DEFINE e == run.e
           ppid == IF e.ppid \in DOMAIN Pending(run.id)
                   THEN Pending(run.id)[e.ppid] ELSE e.ppid
<1>1. PICK new : new = ppid
  OBVIOUS
<1>2. /\ run.at = "rewrite"
      /\ run' = [run EXCEPT !.at = "promote", !.e.ppid = new]
      /\ tracked' = IF new # run.e.ppid /\ run.e.pid \in DOMAIN tracked
                    THEN [tracked EXCEPT ![run.e.pid].ppid = new] ELSE tracked
      /\ UNCHANGED <<machine, roots, items, snapshots, sessionVars>>
  BY <1>1 DEF Rewrite
<1>3. /\ run = [at |-> run.at, e |-> run.e, id |-> run.id]
      /\ run.e = [type |-> run.e.type, kind |-> run.e.kind,
                  pid |-> run.e.pid, ppid |-> run.e.ppid]
  BY <1>2 DEF IInv, Shape, Handling
<1>4. run' = [at |-> "promote", id |-> run.id,
              e |-> [type |-> run.e.type, kind |-> run.e.kind,
                     pid |-> run.e.pid, ppid |-> new]]
  BY <1>2, <1>3
<1>5. run'.at = "promote" /\ SameEvent /\ Handling /\ Handling'
  <2>1. Handling
    BY <1>2 DEF Handling
  <2>2. run'.at = "promote" /\ SameEvent /\ Handling'
    BY <1>4 DEF SameEvent, Handling
  <2> QED BY <2>1, <2>2
<1>6. \A p \in DOMAIN tracked :
          tracked[p] = [ppid |-> tracked[p].ppid, rootDepth |-> tracked[p].rootDepth,
                        transparent |-> tracked[p].transparent]
  BY DEF IInv, Shape
<1>7. /\ DOMAIN tracked' = DOMAIN tracked
      /\ \A p \in DOMAIN tracked :
            \E q : tracked'[p] = [ppid |-> q, rootDepth |-> tracked[p].rootDepth,
                                 transparent |-> tracked[p].transparent]
  <2>1. CASE tracked' = tracked
    BY <2>1, <1>6
  <2>2. CASE /\ run.e.pid \in DOMAIN tracked
             /\ tracked' = [tracked EXCEPT ![run.e.pid].ppid = new]
    <3>1. DOMAIN tracked' = DOMAIN tracked
      BY <2>2
    <3>2. ASSUME NEW p \in DOMAIN tracked, p # run.e.pid
          PROVE  tracked'[p] = tracked[p]
      BY <2>2, <3>2
    <3>3. tracked'[run.e.pid] = [tracked[run.e.pid] EXCEPT !.ppid = new]
      BY <2>2
    <3>4. tracked'[run.e.pid] = [ppid |-> new,
                                 rootDepth |-> tracked[run.e.pid].rootDepth,
                                 transparent |-> tracked[run.e.pid].transparent]
      BY <2>2, <3>3, <1>6
    <3> QED BY <3>1, <3>2, <3>4, <1>6
  <2> QED BY <1>2, <2>1, <2>2
<1>8. TrackedBut({})
  BY <1>7 DEF TrackedBut
<1>9. Shape'
  BY <1>4, <1>7 DEF Shape
<1>10. MachineInv' /\ TreeInv' /\ DepthInv'
  BY <1>2, <1>5, <1>7, <1>8, MiddleStep DEF TrackedBut
<1>11. SessionInv'
  BY <1>2, <1>5 DEF IInv, SessionInv, SameEvent, sessionVars
<1>12. PendingInv'
  <2>1. Concerned' = Concerned /\ Concerned = run.id
    BY <1>5 DEF Concerned, SameEvent
  <2>2. Shells' = Shells
    BY <1>2, <2>1, ShellsKept
  <2> QED BY <1>2, <1>5, <1>7, <1>8, <2>1, <2>2 DEF IInv, PendingInv, SameEvent, TrackedBut
<1> QED BY <1>9, <1>10, <1>11, <1>12 DEF IInv

LEMMA RemovePendingEffect ==
    ASSUME NEW id, NEW pid, RemovePending(id, pid)
    PROVE  /\ DOMAIN items' \subseteq DOMAIN items
           /\ DOMAIN Pending(id)' \subseteq DOMAIN Pending(id) \ {pid}
<1> DEFINE left == Restrict(Pending(id), DOMAIN Pending(id) \ {pid})
<1>1. DOMAIN left = DOMAIN Pending(id) \ {pid}
  BY DEF Restrict
<1>2. items' = IF DOMAIN left = {} THEN Restrict(items, DOMAIN items \ {id})
                                   ELSE Put(items, id, left)
  BY DEF RemovePending
<1> HIDE DEF left
<1>3. CASE DOMAIN left = {}
  BY <1>1, <1>2, <1>3 DEF Restrict, Pending
<1>4. CASE DOMAIN left # {}
  <2>1. id \in DOMAIN items
    BY <1>1, <1>4 DEF Pending
  <2>2. items' = [y \in DOMAIN items |-> IF y = id THEN left ELSE items[y]]
    BY <1>2, <1>4, <2>1 DEF Put
  <2> QED BY <1>1, <2>1, <2>2 DEF Pending
<1> QED BY <1>3, <1>4

LEMMA SetTransparentEffect ==
    ASSUME Shape, NEW pid, NEW b, tracked' = SetTransparent(tracked, pid, b)
    PROVE  /\ DOMAIN tracked' = DOMAIN tracked
           /\ \A p \in DOMAIN tracked :
                 /\ tracked'[p] = [ppid |-> tracked'[p].ppid,
                                   rootDepth |-> tracked'[p].rootDepth,
                                   transparent |-> tracked'[p].transparent]
                 /\ tracked'[p].rootDepth = tracked[p].rootDepth
                 /\ p # pid => tracked'[p].transparent = tracked[p].transparent
                 /\ p = pid => tracked'[p].transparent = b
<1>1. \A p \in DOMAIN tracked :
          tracked[p] = [ppid |-> tracked[p].ppid, rootDepth |-> tracked[p].rootDepth,
                        transparent |-> tracked[p].transparent]
  BY DEF Shape
<1>2. CASE pid \notin DOMAIN tracked
  BY <1>1, <1>2 DEF SetTransparent
<1>3. CASE pid \in DOMAIN tracked
  <2>1. tracked' = [tracked EXCEPT ![pid].transparent = b]
    BY <1>3 DEF SetTransparent
  <2>2. DOMAIN tracked' = DOMAIN tracked
    BY <2>1
  <2>3. ASSUME NEW p \in DOMAIN tracked, p # pid
        PROVE  tracked'[p] = tracked[p]
    BY <2>1, <2>3
  <2>4. tracked'[pid] = [tracked[pid] EXCEPT !.transparent = b]
    BY <1>3, <2>1
  <2>5. tracked'[pid] = [ppid |-> tracked[pid].ppid, rootDepth |-> tracked[pid].rootDepth,
                         transparent |-> b]
    BY <1>1, <1>3, <2>4
  <2> QED BY <1>1, <2>2, <2>3, <2>5
<1> QED BY <1>2, <1>3

LEMMA ShellsRemoved ==
    ASSUME Handling, Concerned' = Concerned, RemovePending(run.id, run.e.pid)
    PROVE  Shells' \subseteq Shells \ {run.e.pid} /\ DOMAIN items' \subseteq DOMAIN items
<1>1. PICK id, pid : id = run.id /\ pid = run.e.pid
  OBVIOUS
<1>2. RemovePending(id, pid)
  BY <1>1
<1>3. Concerned = id /\ Concerned' = id
  BY <1>1 DEF Concerned
<1>4. Shells = DOMAIN Pending(id) /\ Shells' = DOMAIN Pending(id)'
  BY <1>3 DEF Shells, Pending
<1> QED BY <1>1, <1>2, <1>4, RemovePendingEffect

LEMMA PromoteKeeps == IInv /\ Promote => IInv'
<1> SUFFICES ASSUME IInv, Promote PROVE IInv'
  OBVIOUS
<1>1. PICK id : id = run.id
  OBVIOUS
<1>2. PICK pid : pid = run.e.pid
  OBVIOUS
<1>3. /\ run.at = "promote"
      /\ run' = [run EXCEPT !.at = "dispatch"]
      /\ UNCHANGED machine /\ UNCHANGED sessionVars
  BY DEF Promote
<1>4. run' = [at |-> "dispatch", e |-> run.e, id |-> run.id]
  BY <1>3 DEF IInv, Shape
<1>5. run'.at = "dispatch" /\ run'.e = run.e /\ SameEvent
  BY <1>4 DEF SameEvent
<1>6. Handling /\ Handling'
  BY <1>3, <1>5 DEF Handling
<1>7. Concerned' = Concerned /\ Concerned = run.id
  BY <1>5, <1>6 DEF Concerned, SameEvent
<1>8. \/ /\ pid \in Shells /\ ~isPendingShellNoise(run.e)
         /\ RemovePending(run.id, run.e.pid) /\ tracked' = SetTransparent(tracked, pid, FALSE)
      \/ /\ ~(pid \in Shells /\ ~isPendingShellNoise(run.e))
         /\ UNCHANGED <<items, tracked>>
  BY <1>2, <1>7 DEF Promote, Shells
<1>9. /\ DOMAIN tracked' = DOMAIN tracked
      /\ \A p \in DOMAIN tracked :
            /\ tracked'[p] = [ppid |-> tracked'[p].ppid,
                              rootDepth |-> tracked'[p].rootDepth,
                              transparent |-> tracked'[p].transparent]
            /\ tracked'[p].rootDepth = tracked[p].rootDepth
            /\ p # pid => tracked'[p].transparent = tracked[p].transparent
  <2>1. CASE UNCHANGED tracked
    BY <2>1 DEF IInv, Shape
  <2>2. CASE tracked' = SetTransparent(tracked, pid, FALSE)
    <3>1. PICK b : b = FALSE
      OBVIOUS
    <3>2. tracked' = SetTransparent(tracked, pid, b)
      BY <2>2, <3>1
    <3> QED BY <3>2, SetTransparentEffect DEF IInv
  <2> QED BY <1>8, <2>1, <2>2
<1>10. /\ DOMAIN items' \subseteq DOMAIN items
       /\ Shells' \subseteq Shells
       /\ pid \in Shells' => isPendingShellNoise(run.e) /\ UNCHANGED tracked
  BY <1>2, <1>6, <1>7, <1>8, ShellsKept, ShellsRemoved
<1>11. Shape'
  BY <1>4, <1>6, <1>9 DEF IInv, Shape
<1>12. MachineInv' /\ TreeInv' /\ DepthInv'
  BY <1>3, <1>5, <1>6, <1>9, MiddleStep
<1>13. SessionInv'
  BY <1>3, <1>5, <1>6, <1>10 DEF IInv, SessionInv, SameEvent, sessionVars
<1>14. PendingInv'
  <2>1. ASSUME NEW p \in Shells'
        PROVE  p \in DOMAIN tracked' /\ tracked'[p].transparent
    <3>1. /\ p \in DOMAIN tracked
          /\ tracked[p].transparent \/ (p = pid /\ run.e.type = "execve")
      BY <1>2, <1>6, <1>7, <1>10 DEF IInv, PendingInv, SessionInv
    <3>2. CASE p # pid
      BY <3>1, <3>2, <1>9
    <3>3. CASE p = pid
      <4>1. isPendingShellNoise(run.e) /\ UNCHANGED tracked
        BY <3>3, <1>10
      <4>2. run.e.type # "execve"
        BY <4>1 DEF isPendingShellNoise
      <4> QED BY <4>1, <4>2, <3>1
    <3> QED BY <3>2, <3>3
  <2>2. run'.e.pid \in Shells' => isPendingShellNoise(run.e)'
    BY <1>2, <1>5, <1>10 DEF isPendingShellNoise, ShouldIngestIntoContext
  <2> QED BY <2>1, <2>2, <1>5 DEF PendingInv
<1> QED BY <1>11, <1>12, <1>13, <1>14 DEF IInv

(* The end of an iteration: the event's process is forgotten if it exited. *)
LEMMA LastStep ==
    ASSUME IInv, Handling, ~Handling', UNCHANGED machine,
           DOMAIN tracked' = IF LeaderExit(run.e) THEN DOMAIN tracked \ {run.e.pid}
                                                  ELSE DOMAIN tracked,
           \A p \in DOMAIN tracked' : tracked'[p].rootDepth = tracked[p].rootDepth
    PROVE  MachineInv' /\ TreeInv' /\ DepthInv'
<1> USE DEF Exiting, machine
<1>1. MachineInv'
  BY DEF IInv, MachineInv
<1>2. TreeInv'
  BY DEF IInv, TreeInv
<1>3. DepthInv'
  BY DEF IInv, DepthInv
<1> QED BY <1>1, <1>2, <1>3

LEMMA IterationEnds ==
    ASSUME IInv, run.at \in {"dispatch", "observe"}, run' = Receiving,
           UNCHANGED machine, UNCHANGED sessionVars,
           DOMAIN tracked' = IF LeaderExit(run.e) THEN DOMAIN tracked \ {run.e.pid}
                                                  ELSE DOMAIN tracked,
           \A p \in DOMAIN tracked' :
               /\ tracked'[p] = [ppid |-> tracked'[p].ppid,
                                 rootDepth |-> tracked'[p].rootDepth,
                                 transparent |-> tracked'[p].transparent]
               /\ tracked'[p].rootDepth = tracked[p].rootDepth,
           DOMAIN items' \subseteq DOMAIN items \cup {run.id},
           Concerned' = Concerned =>
               \A p \in Shells' : p \in DOMAIN tracked' /\ tracked'[p].transparent
    PROVE  IInv'
<1>1. run'.at = "receive" /\ Handling /\ ~Handling'
  BY DEF Receiving, Handling
<1>2. Shape'
  BY <1>1 DEF Shape, Receiving
<1>3. MachineInv' /\ TreeInv' /\ DepthInv'
  BY <1>1, LastStep
<1>4. SessionInv'
  BY <1>1 DEF IInv, SessionInv, sessionVars
<1>5. Concerned' # 0 => Concerned' = Concerned
  BY <1>1 DEF IInv, SessionInv, sessionVars, Concerned
<1>6. PendingInv'
  BY <1>1, <1>5 DEF PendingInv
<1> QED BY <1>2, <1>3, <1>4, <1>6 DEF IInv

LEMMA UntrackEffect ==
    ASSUME NEW pid, Untrack(pid)
    PROVE  /\ DOMAIN tracked' = DOMAIN tracked \ {pid}
           /\ \A p \in DOMAIN tracked' : tracked'[p] = tracked[p]
BY DEF Untrack, Restrict

(* An exit takes the pid out of the tracker and out of the wrappers. *)
LEMMA IterationCleansUp ==
    ASSUME IInv, run.at \in {"dispatch", "observe"}, run' = Receiving,
           UNCHANGED machine, UNCHANGED sessionVars,
           IF LeaderExit(run.e) THEN RemovePending(run.id, run.e.pid) /\ Untrack(run.e.pid)
                                ELSE UNCHANGED <<items, tracked>>
    PROVE  IInv'
<1>1. PICK pid : pid = run.e.pid
  OBVIOUS
<1>2. PICK id : id = run.id
  OBVIOUS
<1>3. /\ DOMAIN tracked' = IF LeaderExit(run.e) THEN DOMAIN tracked \ {run.e.pid}
                                                ELSE DOMAIN tracked
      /\ \A p \in DOMAIN tracked' : tracked'[p] = tracked[p]
  <2>1. CASE LeaderExit(run.e)
    <3>1. Untrack(pid)
      BY <2>1, <1>1
    <3> QED BY <2>1, <3>1, <1>1, UntrackEffect
  <2> QED BY <2>1
<1>4. \A p \in DOMAIN tracked' :
          /\ tracked'[p] = [ppid |-> tracked'[p].ppid, rootDepth |-> tracked'[p].rootDepth,
                            transparent |-> tracked'[p].transparent]
          /\ tracked'[p].rootDepth = tracked[p].rootDepth
  BY <1>3 DEF IInv, Shape
<1>5. DOMAIN items' \subseteq DOMAIN items
  <2>1. CASE LeaderExit(run.e)
    <3>1. RemovePending(id, pid)
      BY <2>1, <1>1, <1>2
    <3> QED BY <3>1, RemovePendingEffect
  <2> QED BY <2>1
<1>6. Handling
  BY DEF Handling
<1>7. ASSUME Concerned' = Concerned
      PROVE  \A p \in Shells' : p \in DOMAIN tracked' /\ tracked'[p].transparent
  <2>1. Shells' \subseteq Shells /\ (LeaderExit(run.e) => run.e.pid \notin Shells')
    BY <1>6, <1>7, ShellsKept, ShellsRemoved
  <2>2. Concerned # 0
    BY <1>6 DEF IInv, SessionInv, Concerned
  <2>3. \A p \in Shells : p \in DOMAIN tracked /\ tracked[p].transparent
    BY <2>2 DEF IInv, PendingInv
  <2> QED BY <1>3, <2>1, <2>3
<1> QED BY <1>3, <1>4, <1>5, <1>7, IterationEnds

LEMMA ForgetShellKeeps == IInv /\ ForgetShell => IInv'
BY IterationCleansUp DEF ForgetShell

LEMMA IgnoreKeeps == IInv /\ Ignore => IInv'
BY IterationCleansUp DEF Ignore, ReachesFilters, ForgetOnLeaderExit

LEMMA ObserveKeeps == IInv /\ Observe => IInv'
BY IterationCleansUp DEF Observe, ForgetOnLeaderExit

LEMMA PendShellKeeps == IInv /\ PendShell => IInv'
<1> SUFFICES ASSUME IInv, PendShell PROVE IInv'
  OBVIOUS
<1>1. PICK pid : pid = run.e.pid
  OBVIOUS
<1>2. PICK id : id = run.id
  OBVIOUS
<1>3. PICK b : b = TRUE
  OBVIOUS
<1>4. /\ run.at = "dispatch" /\ run' = Receiving
      /\ run.e.type = "execve" /\ ~LeaderExit(run.e)
      /\ UNCHANGED machine /\ UNCHANGED sessionVars
      /\ tracked' = SetTransparent(tracked, pid, b)
      /\ items' = Put(items, id, Put(Pending(id), pid, run.e.ppid))
  BY <1>1, <1>2, <1>3 DEF PendShell, isPendingShellExecve, LeaderExit
<1>5. Handling /\ pid \in DOMAIN tracked
  BY <1>1, <1>4 DEF IInv, TreeInv, Handling
<1>6. /\ DOMAIN tracked' = DOMAIN tracked
      /\ \A p \in DOMAIN tracked :
            /\ tracked'[p] = [ppid |-> tracked'[p].ppid,
                              rootDepth |-> tracked'[p].rootDepth,
                              transparent |-> tracked'[p].transparent]
            /\ tracked'[p].rootDepth = tracked[p].rootDepth
            /\ p # pid => tracked'[p].transparent = tracked[p].transparent
            /\ p = pid => tracked'[p].transparent = b
  BY <1>4, SetTransparentEffect DEF IInv
<1>7. DOMAIN items' \subseteq DOMAIN items \cup {run.id}
  BY <1>2, <1>4 DEF Put
<1>8. DOMAIN Pending(id)' = DOMAIN Pending(id) \cup {pid}
  BY <1>4 DEF Pending, Put
<1>9. ASSUME Concerned' = Concerned
      PROVE  \A p \in Shells' : p \in DOMAIN tracked' /\ tracked'[p].transparent
  <2>1. Concerned = id /\ Concerned' = id /\ Concerned # 0
    BY <1>2, <1>5, <1>9 DEF Concerned, IInv, SessionInv
  <2>2. Shells = DOMAIN Pending(id) /\ Shells' = DOMAIN Pending(id)'
    BY <2>1 DEF Shells, Pending
  <2>3. \A p \in Shells : p \in DOMAIN tracked /\ tracked[p].transparent
    BY <1>4, <2>1 DEF IInv, PendingInv
  <2> QED BY <1>3, <1>5, <1>6, <1>8, <2>2, <2>3
<1> QED BY <1>4, <1>6, <1>7, <1>9, IterationEnds

LEMMA EnrichKeeps == IInv /\ Enrich => IInv'
<1> SUFFICES ASSUME IInv, Enrich PROVE IInv'
  OBVIOUS
<1>1. /\ run.at = "dispatch" /\ ShouldIngestIntoContext(run.e)
      /\ run' = [run EXCEPT !.at = "observe"]
      /\ UNCHANGED machine /\ UNCHANGED sessionVars /\ UNCHANGED <<tracked, items>>
  BY DEF Enrich, ReachesFilters
<1>2. run' = [at |-> "observe", e |-> run.e, id |-> run.id]
  BY <1>1 DEF IInv, Shape
<1>3. run'.at = "observe" /\ run'.e = run.e /\ SameEvent /\ Handling /\ Handling'
  BY <1>1, <1>2 DEF SameEvent, Handling
<1>4. Shape'
  BY <1>1, <1>2, <1>3 DEF IInv, Shape
<1>5. MachineInv' /\ TreeInv' /\ DepthInv'
  BY <1>1, <1>3, MiddleStep
<1>6. SessionInv'
  BY <1>1, <1>3 DEF IInv, SessionInv, SameEvent, sessionVars
<1>7. Concerned' = Concerned /\ Shells' = Shells
  BY <1>1, <1>3, ShellsKept DEF Concerned, SameEvent
<1>8. PendingInv'
  BY <1>1, <1>3, <1>7
     DEF IInv, PendingInv, isPendingShellNoise, ShouldIngestIntoContext
<1> QED BY <1>4, <1>5, <1>6, <1>8 DEF IInv

-----------------------------------------------------------------------------
(* Sessions, the machine, and the first two gates. *)

LEMMA SessionsKeep == IInv /\ (SessionStarts \/ SessionEnds \/ ClearSession) => IInv'
<1> SUFFICES ASSUME IInv, SessionStarts \/ SessionEnds \/ ClearSession PROVE IInv'
  OBVIOUS
<1>1. UNCHANGED machine /\ UNCHANGED run /\ UNCHANGED tracked
  BY DEF SessionStarts, SessionEnds, ClearSession
<1>2. (Handling <=> Handling') /\ (Exiting <=> Exiting')
  BY <1>1 DEF Handling, Exiting, LeaderExit
<1>3. Shape' /\ MachineInv' /\ TreeInv' /\ DepthInv'
  BY <1>1, <1>2 DEF IInv, Shape, MachineInv, TreeInv, DepthInv, LeaderExit, machine
<1>4. /\ DOMAIN items' \subseteq DOMAIN items
      /\ \A id \in DOMAIN items' : items'[id] = items[id]
  BY DEF SessionStarts, SessionEnds, ClearSession, Restrict
<1>5. SessionInv'
  BY <1>1, <1>2, <1>4
     DEF IInv, SessionInv, Handling, SessionStarts, SessionEnds, ClearSession
<1>6. ASSUME Concerned' # 0
      PROVE  Shells' \subseteq Shells /\ (Shells' # {} => Concerned' = Concerned)
  <2>1. CASE Concerned' = Concerned
    BY <2>1, <1>4 DEF Shells, Pending
  <2>2. CASE Concerned' # Concerned
    <3>1. SessionStarts /\ ~Handling'
      BY <1>1, <1>2, <1>6, <2>2 DEF Concerned, SessionStarts, SessionEnds, ClearSession
    <3>2. Concerned' \notin DOMAIN items'
      BY <3>1, <1>4 DEF IInv, SessionInv, SessionStarts, Concerned
    <3> QED BY <3>2 DEF Shells, Pending
  <2> QED BY <2>1, <2>2
<1>7. PendingInv'
  <2>1. ASSUME NEW p \in Shells', Concerned' # 0
        PROVE  /\ p \in DOMAIN tracked'
               /\ \/ tracked'[p].transparent
                  \/ run'.at \in {"rewrite", "promote"} /\ p = run'.e.pid
                     /\ run'.e.type = "execve"
    BY <2>1, <1>1, <1>6 DEF IInv, PendingInv
  <2>2. ASSUME run'.at \in {"dispatch", "observe"}, run'.e.pid \in Shells'
        PROVE  isPendingShellNoise(run.e)'
    <3>1. Concerned' # 0
      BY <1>1, <2>2 DEF IInv, SessionInv, Concerned, Handling
    <3> QED BY <3>1, <2>2, <1>1, <1>6
            DEF IInv, PendingInv, isPendingShellNoise, ShouldIngestIntoContext
  <2> QED BY <2>1, <2>2, <1>1 DEF IInv, PendingInv, ShouldIngestIntoContext
<1> QED BY <1>3, <1>5, <1>7 DEF IInv

LEMMA ForkKeeps ==
    ASSUME NEW p, NEW c, IInv, Fork(p, c)
    PROVE  IInv'
<1>1. /\ run.at = "receive" /\ c \in Pids \ DOMAIN parent
      /\ p \in DOMAIN parent \cup {NoPid}
      /\ parent' = Put(parent, c, p)
      /\ inTree' = IF p \in inTree THEN inTree \cup {c} ELSE inTree
      /\ UNCHANGED <<programs, tracked, items, sessionVars, run>>
  BY DEF Fork
<1>2. ~Handling /\ ~Handling' /\ ~Exiting'
  BY <1>1 DEF Handling, Exiting
<1>3. MachineInv'
  <2>1. /\ DOMAIN parent' = DOMAIN parent \cup {c}
        /\ parent'[c] = p
        /\ \A q \in DOMAIN parent : parent'[q] = parent[q]
    BY <1>1 DEF Put
  <2>2. NoPid \notin Pids
    BY ConstantsAssumption
  <2> QED BY <1>1, <1>2, <2>1, <2>2 DEF IInv, MachineInv
<1>4. Shape' /\ TreeInv' /\ DepthInv'
  BY <1>1, <1>2 DEF IInv, Shape, TreeInv, DepthInv, Exiting
<1>5. SessionInv'
  BY <1>1, <1>2 DEF IInv, SessionInv, sessionVars
<1>6. PendingInv'
  <2>1. Concerned' = Concerned /\ Shells' = Shells
    BY <1>1, <1>2, ShellsKept DEF Concerned, sessionVars
  <2> QED BY <1>1, <2>1 DEF IInv, PendingInv
<1> QED BY <1>3, <1>4, <1>5, <1>6 DEF IInv

(* An execve changes the tracker at its own pid only, and adds it only below a
   tracked parent.                                                          *)
LEMMA PropagateEffect ==
    ASSUME Shape, NEW pid, NEW ppid, NEW transparent,
           NEW known, known = Propagate(pid, ppid, transparent)
    PROVE  /\ \A q \in DOMAIN known :
                 known[q] = [ppid |-> known[q].ppid, rootDepth |-> known[q].rootDepth,
                             transparent |-> known[q].transparent]
           /\ DOMAIN tracked \subseteq DOMAIN known
           /\ \A q \in DOMAIN known \ {pid} : q \in DOMAIN tracked /\ known[q] = tracked[q]
           /\ ppid \notin DOMAIN tracked => known = tracked
           /\ ppid \in DOMAIN tracked =>
                 pid \in DOMAIN known /\ (known[pid].rootDepth => transparent)
<1>1. \A p \in DOMAIN tracked :
          tracked[p] = [ppid |-> tracked[p].ppid, rootDepth |-> tracked[p].rootDepth,
                        transparent |-> tracked[p].transparent]
  BY DEF Shape
<1>2. CASE ppid \notin DOMAIN tracked
  BY <1>1, <1>2 DEF Propagate
<1>3. CASE ppid \in DOMAIN tracked
  <2>1. PICK depth : depth = (transparent /\ tracked[ppid].rootDepth)
    OBVIOUS
  <2>2. PICK info : info = [ppid |-> ppid, rootDepth |-> depth, transparent |-> transparent]
    OBVIOUS
  <2>3. known = [y \in DOMAIN tracked \cup {pid} |-> IF y = pid THEN info ELSE tracked[y]]
    BY <1>3, <2>1, <2>2 DEF Propagate, Put
  <2>4. info.rootDepth => transparent
    BY <2>1, <2>2
  <2>5. info = [ppid |-> info.ppid, rootDepth |-> info.rootDepth,
                transparent |-> info.transparent]
    BY <2>2
  <2> HIDE <2>1, <2>2
  <2> QED BY <1>1, <1>3, <2>3, <2>4, <2>5
<1> QED BY <1>2, <1>3

LEMMA ReceiveKeeps ==
    ASSUME IInv, NEW p \in DOMAIN parent, NEW e \in EventsOf(p), Receive(e)
    PROVE  IInv'
<1>1. /\ e = [type |-> e.type, kind |-> e.kind, pid |-> p, ppid |-> parent[p]]
      /\ e.pid = p /\ e.ppid = parent[p]
  BY EventIsRecord
<1>2. PICK known : known = IF e.type = "execve"
                           THEN Propagate(e.pid, e.ppid, isTransparentRoutineExec(e))
                           ELSE tracked
  OBVIOUS
<1>3. PICK passes : passes = ({e.pid, e.ppid} \cap DOMAIN known # {} /\ session # 0)
  OBVIOUS
<1>4. /\ run.at = "receive" /\ MachineAfter(e) /\ UNCHANGED <<items, sessionVars>>
      /\ \/ /\ passes
            /\ run' = [at |-> "rewrite", e |-> e, id |-> session] /\ tracked' = known
         \/ /\ ~passes /\ run' = run
            /\ LeaderExit(e) /\ Untrack(e.pid)
         \/ /\ ~passes /\ run' = run
            /\ ~LeaderExit(e) /\ tracked' = known
  BY <1>2, <1>3 DEF Receive
<1>5. passes <=> ((p \in DOMAIN known \/ parent[p] \in DOMAIN known) /\ session # 0)
  BY <1>1, <1>3
<1>6. PICK routine : routine = isTransparentRoutineExec(e)
  OBVIOUS
<1>7. /\ \A q \in DOMAIN known :
            known[q] = [ppid |-> known[q].ppid, rootDepth |-> known[q].rootDepth,
                        transparent |-> known[q].transparent]
      /\ DOMAIN tracked \subseteq DOMAIN known
      /\ \A q \in DOMAIN known \ {p} : q \in DOMAIN tracked /\ known[q] = tracked[q]
      /\ (e.type # "execve" \/ parent[p] \notin DOMAIN tracked) => known = tracked
      /\ (e.type = "execve" /\ parent[p] \in DOMAIN tracked) =>
            p \in DOMAIN known /\ (known[p].rootDepth => routine)
  <2>1. CASE e.type # "execve"
    BY <2>1, <1>2 DEF IInv, Shape
  <2>2. CASE e.type = "execve"
    <3>1. PICK ppid : ppid = parent[p]
      OBVIOUS
    <3>2. known = Propagate(p, ppid, routine)
      BY <1>1, <1>2, <1>6, <2>2, <3>1
    <3> QED BY <2>2, <3>1, <3>2, PropagateEffect DEF IInv
  <2> QED BY <2>1, <2>2
<1>8. /\ LeaderExit(e) =>
            /\ e.type = "exit"
            /\ parent' = [q \in DOMAIN parent \ {p} |->
                             IF parent[q] = p THEN NoPid ELSE parent[q]]
            /\ inTree' = inTree \ {p} /\ programs' = programs \ {p}
      /\ ~LeaderExit(e) => parent' = parent /\ inTree' = inTree
      /\ (~LeaderExit(e) /\ e.type # "execve") => programs' = programs
      /\ (e.type = "execve" /\ (routine \/ parent[p] \notin DOMAIN tracked)) =>
            programs' = programs \ {p}
      /\ (e.type = "execve" /\ ~routine) => programs' \subseteq programs \cup {p}
  <2>1. MachineAfter(e)
    BY <1>4
  <2>2. CASE LeaderExit(e)
    <3>1. e.type = "exit"
      BY <2>2 DEF LeaderExit
    <3>2. /\ parent' = [q \in DOMAIN parent \ {p} |->
                          IF parent[q] = p THEN NoPid ELSE parent[q]]
          /\ inTree' = inTree \ {p} /\ programs' = programs \ {p}
      BY <1>1, <2>1, <2>2 DEF MachineAfter
    <3> QED BY <2>2, <3>1, <3>2
  <2>3. CASE ~LeaderExit(e)
    <3>1. parent' = parent /\ inTree' = inTree
      BY <2>1, <2>3 DEF MachineAfter
    <3>2. programs' = IF e.type # "execve" THEN programs
                      ELSE IF routine \/ parent[p] \notin DOMAIN tracked
                           THEN programs \ {p} ELSE programs \cup {p}
      BY <1>1, <1>6, <2>1, <2>3 DEF MachineAfter
    <3>3. e.type # "execve" => programs' = programs
      BY <3>2
    <3>4. (e.type = "execve" /\ (routine \/ parent[p] \notin DOMAIN tracked)) =>
              programs' = programs \ {p}
      BY <3>2
    <3>5. (e.type = "execve" /\ ~routine) => programs' \subseteq programs \cup {p}
      BY <3>2
    <3> QED BY <2>3, <3>1, <3>3, <3>4, <3>5
  <2> QED BY <2>2, <2>3
<1>9. /\ passes => run'.at = "rewrite" /\ run'.e = e /\ run'.id = session
      /\ ~passes => run'.at = "receive"
  BY <1>4
<1>10. ~Handling /\ ~Exiting /\ (Handling' <=> passes) /\ (Exiting' <=> passes /\ LeaderExit(e))
  BY <1>4, <1>9 DEF Handling, Exiting, LeaderExit
<1>11. /\ DOMAIN tracked' = IF ~passes /\ LeaderExit(e) THEN DOMAIN tracked \ {p}
                                                      ELSE DOMAIN known
       /\ \A q \in DOMAIN tracked' : tracked'[q] = known[q]
  <2>1. CASE tracked' = known /\ ~(~passes /\ LeaderExit(e))
    BY <2>1
  <2>2. CASE ~passes /\ LeaderExit(e) /\ Untrack(p)
    BY <2>2, <1>7, <1>8, UntrackEffect
  <2> QED BY <1>1, <1>4, <2>1, <2>2
<1>12. parent[p] \in DOMAIN known => parent[p] \in DOMAIN tracked \/ parent[p] = p
  BY <1>7
<1>13. Shape'
  <2>1. run' = [at |-> run'.at, e |-> run'.e, id |-> run'.id]
    BY <1>4 DEF IInv, Shape
  <2>2. \A q \in DOMAIN tracked' :
            tracked'[q] = [ppid |-> tracked'[q].ppid, rootDepth |-> tracked'[q].rootDepth,
                           transparent |-> tracked'[q].transparent]
    BY <1>7, <1>11
  <2>3. Handling' => run'.e = [type |-> run'.e.type, kind |-> run'.e.kind,
                               pid |-> run'.e.pid, ppid |-> run'.e.ppid]
    BY <1>1, <1>9, <1>10
  <2> QED BY <2>1, <2>2, <2>3, <1>9 DEF Shape
<1>14. MachineInv'
  <2>1. NoPid \notin Pids
    BY ConstantsAssumption
  <2> QED BY <2>1, <1>1, <1>8, <1>9, <1>10 DEF IInv, MachineInv
<1>15. DOMAIN tracked \subseteq inTree
  BY <1>10 DEF IInv, TreeInv
<1>16. TreeInv'
  <2>1. parent[p] \in DOMAIN tracked => p \in inTree
    BY <1>15 DEF IInv, MachineInv
  <2>2. p \in DOMAIN known => p \in inTree
    BY <2>1, <1>7, <1>15
  <2>3. \A q \in DOMAIN known \ {p} : q \in inTree
    BY <1>7, <1>15
  <2>4. LeaderExit(e)' <=> LeaderExit(e)
    BY DEF LeaderExit
  <2>5. passes => run'.e.pid = p /\ (LeaderExit(run.e)' <=> LeaderExit(e))
    BY <1>1, <1>9 DEF LeaderExit
  <2>6. \A q \in DOMAIN tracked' : q \in inTree' \/ (Exiting' /\ q = run'.e.pid)
    BY <2>2, <2>3, <2>5, <1>7, <1>8, <1>10, <1>11
  <2>7. (Handling' /\ ~LeaderExit(run.e)') => run'.e.pid \in inTree'
    BY <2>1, <2>2, <2>5, <1>5, <1>8, <1>10, <1>12
  <2>8. (Handling' /\ run'.e.type = "execve") => run'.e.pid \in DOMAIN tracked'
    BY <2>5, <1>5, <1>7, <1>9, <1>10, <1>11, <1>12
  <2> QED BY <2>6, <2>7, <2>8 DEF TreeInv
<1>17. DepthInv'
  <2>1. \A q \in programs : q \in DOMAIN tracked /\ ~tracked[q].rootDepth
    BY DEF IInv, DepthInv
  <2>2. \A q \in programs' : q \in DOMAIN tracked' /\ ~known[q].rootDepth
    BY <2>1, <1>7, <1>8, <1>11
  <2>3. Exiting' => run'.e.pid \notin programs'
    BY <1>1, <1>8, <1>9, <1>10
  <2> QED BY <2>2, <2>3, <1>11 DEF DepthInv
<1>18. SessionInv'
  BY <1>4, <1>5, <1>9, <1>10 DEF IInv, SessionInv, sessionVars
<1>19. PendingInv'
  <2>1. Concerned' = Concerned /\ Concerned = session
    BY <1>4, <1>9, <1>10 DEF Concerned, sessionVars
  <2>2. Shells' = Shells
    BY <1>4, <2>1, ShellsKept
  <2>3. ASSUME NEW q \in Shells, session # 0
        PROVE  /\ q \in DOMAIN tracked'
               /\ tracked'[q].transparent \/ (passes /\ q = p /\ e.type = "execve")
    <3>1. q \in DOMAIN tracked /\ tracked[q].transparent
      BY <2>1, <2>3, <1>4 DEF IInv, PendingInv
    <3>2. CASE q # p
      BY <3>1, <3>2, <1>7, <1>11
    <3>3. CASE q = p
      BY <2>3, <3>1, <3>3, <1>5, <1>7, <1>11
    <3> QED BY <3>2, <3>3
  <2> QED BY <2>1, <2>2, <2>3, <1>1, <1>9 DEF PendingInv
<1> QED BY <1>13, <1>14, <1>16, <1>17, <1>18, <1>19 DEF IInv

LEMMA NextIInv == IInv /\ [Next]_vars => IInv'
<1> SUFFICES ASSUME IInv, [Next]_vars PROVE IInv'
  OBVIOUS
<1>1. CASE Machine
  BY <1>1, ForkKeeps DEF Machine
<1>2. CASE Handle
  BY <1>2, ReceiveKeeps DEF Handle
<1>3. CASE UNCHANGED vars
  <2>1. /\ UNCHANGED <<parent, inTree, programs, tracked, items, session, lastSession>>
        /\ UNCHANGED run
    BY <1>3 DEF vars, machine, sessionVars
  <2>2. Shape' /\ MachineInv' /\ TreeInv' /\ DepthInv' /\ SessionInv'
    BY <2>1 DEF IInv, Shape, MachineInv, TreeInv, DepthInv, SessionInv, Handling, Exiting,
                LeaderExit
  <2>3. Concerned' = Concerned /\ Shells' = Shells
    BY <2>1, ShellsKept DEF Concerned, Handling
  <2>4. PendingInv'
    BY <2>1, <2>3 DEF IInv, PendingInv, isPendingShellNoise, ShouldIngestIntoContext
  <2> QED BY <2>2, <2>4 DEF IInv
<1> QED BY <1>1, <1>2, <1>3, RewriteKeeps, PromoteKeeps, PendShellKeeps, ForgetShellKeeps,
           IgnoreKeeps, EnrichKeeps, ObserveKeeps, SessionsKeep
        DEF Next, Idle

LEMMA IInvHolds == Spec => []IInv
BY InitIInv, NextIInv, PTL DEF Spec

-----------------------------------------------------------------------------
(* Whatever forks, dies, is reused or is lost on the way through the gates,
   between two events only live processes of OpenClaw's tree are tracked: all
   returns of the loop body of Run clean up after an exit.                  *)
THEOREM TrackedAreInTree == Spec => []TrackedIsInTree
<1>1. IInv => TrackedIsInTree
  BY DEF IInv, TreeInv, TrackedIsInTree, Exiting, Handling
<1> QED BY <1>1, IInvHolds, PTL

(* The first gate lets nothing in from outside the tree (pipeline.go:21). *)
THEOREM OnlyTreeObserved == Spec => []OnlyTreeIsObserved
<1>1. IInv => OnlyTreeIsObserved
  BY DEF IInv, TreeInv, OnlyTreeIsObserved, Handling
<1> QED BY <1>1, IInvHolds, PTL

(* A program started in the tree is never taken for OpenClaw by the classifier
   of configured connects: the depth cached when it was started outlives the
   shell, the parent and every reuse of their pids.                         *)
THEOREM ChildConnectsAreReported == Spec => []ChildConnectIsReported
<1>1. ASSUME IInv PROVE ChildConnectIsReported
  <2>1. ASSUME run.e.pid \in programs, run.e.kind = "configured"
        PROVE  ~ShouldIgnoreConfiguredConnect(run.e)
    <3>1. run.e.pid \in DOMAIN tracked /\ ~tracked[run.e.pid].rootDepth
      BY <1>1, <2>1 DEF IInv, DepthInv
    <3>2. run.e.kind # "runtime"
      BY <2>1
    <3> QED BY <3>1, <3>2 DEF ShouldIgnoreConfiguredConnect
  <2> QED BY <2>1 DEF ChildConnectIsReported
<1> QED BY <1>1, IInvHolds, PTL

(* A shell that was put aside is in no lineage and makes no record before it is
   promoted, although wrappers and tracker are updated by separate calls and
   the janitor clears wrappers between any two of them.                     *)
THEOREM PendingShellsAreInvisible == Spec => []PendingIsInvisible
<1>1. ASSUME IInv PROVE PendingIsInvisible
  <2>1. ASSUME run.at = "receive", session # 0, NEW p \in DOMAIN Pending(session)
        PROVE  p \in DOMAIN tracked /\ tracked[p].transparent
    <3>1. Concerned = session /\ p \in Shells
      BY <2>1 DEF Concerned, Shells, Handling
    <3> QED BY <1>1, <2>1, <3>1 DEF IInv, PendingInv
  <2>2. ASSUME run.at = "observe", run.e.type # "exit"
        PROVE  run.e.pid \notin DOMAIN Pending(run.id)
    <3>1. Shells = DOMAIN Pending(run.id)
      BY <2>2 DEF Shells, Concerned, Handling
    <3>2. ~isPendingShellNoise(run.e)
      BY <1>1, <2>2 DEF IInv, PendingInv, isPendingShellNoise
    <3> QED BY <1>1, <2>2, <3>1, <3>2 DEF IInv, PendingInv
  <2> QED BY <2>1, <2>2 DEF PendingIsInvisible
<1> QED BY <1>1, IInvHolds, PTL

(* What lives and was tracked stays tracked: the exit of one of its threads, or
   of its parent, is never taken for its own (pipeline_exit_test.go:10).    *)
THEOREM LiveStaysTracked == Spec => TrackedUntilExit
<1>1. ASSUME IInv, [Next]_vars, NEW q \in DOMAIN tracked, q \in DOMAIN parent'
      PROVE  q \in DOMAIN tracked'
  <2>1. CASE UNCHANGED tracked
    BY <2>1
  <2>2. CASE Handle
    <3>1. PICK p \in DOMAIN parent : \E e \in EventsOf(p) : Receive(e)
      BY <2>2 DEF Handle
    <3>2. PICK e \in EventsOf(p) : Receive(e)
      BY <3>1
    <3>3. e.pid = p
      BY EventIsRecord
    <3>4. PICK known : known = IF e.type = "execve"
                               THEN Propagate(e.pid, e.ppid, isTransparentRoutineExec(e))
                               ELSE tracked
      OBVIOUS
    <3>5. DOMAIN tracked \subseteq DOMAIN known
      BY <3>4 DEF Propagate, Put
    <3>6. MachineAfter(e) /\ (tracked' = known \/ (LeaderExit(e) /\ Untrack(e.pid)))
      BY <3>2, <3>4 DEF Receive
    <3>7. LeaderExit(e) => p \notin DOMAIN parent'
      BY <3>3, <3>6 DEF MachineAfter
    <3> QED BY <1>1, <3>3, <3>5, <3>6, <3>7, UntrackEffect
  <2>3. CASE Rewrite \/ Promote \/ PendShell
    <3>1. DOMAIN tracked' = DOMAIN tracked
      BY <2>3 DEF Rewrite, Promote, PendShell, SetTransparent
    <3> QED BY <3>1
  <2>4. CASE ForgetShell \/ Ignore \/ Observe
    <3>1. PICK pid : pid = run.e.pid
      OBVIOUS
    <3>2. /\ Handling /\ UNCHANGED machine
          /\ UNCHANGED tracked \/ (LeaderExit(run.e) /\ Untrack(pid))
      BY <2>4, <3>1 DEF ForgetShell, Ignore, Observe, ReachesFilters, ForgetOnLeaderExit, Handling
    <3>3. LeaderExit(run.e) => pid \notin DOMAIN parent'
      BY <1>1, <3>1, <3>2 DEF IInv, MachineInv, Exiting, machine
    <3> QED BY <1>1, <3>2, <3>3, UntrackEffect
  <2> QED BY <1>1, <2>1, <2>2, <2>3, <2>4
          DEF Next, vars, Machine, Fork, Enrich, SessionStarts, SessionEnds, ClearSession, Idle
<1>2. IInv /\ [Next]_vars => [\A p \in DOMAIN tracked \cap DOMAIN parent' : p \in DOMAIN tracked']_vars
  BY <1>1
<1> QED BY <1>2, IInvHolds, PTL DEF Spec, TrackedUntilExit
=============================================================================
