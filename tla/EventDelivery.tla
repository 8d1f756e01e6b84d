---------------------------- MODULE EventDelivery ----------------------------
(***************************************************************************)
(* What the analysis loop may assume of the way events reach it: one queue *)
(* from the kernel to pipeline.Run.  Events may be refused at the entrance *)
(* (no room in the ring buffer) and removed while they wait (an undecodable*)
(* sample, a ring buffer that is closed with events in it), but those that *)
(* are delivered are delivered once, in the order they were captured.      *)
(***************************************************************************)
EXTENDS Integers, Sequences

CONSTANT MaxEvents   \* bound: events the kernel produces, numbered from 1

VARIABLES
    produced,   \* events the kernel produced so far
    waiting,    \* the queue between capture and the analysis loop
    handled     \* what the analysis loop received

deliveryVars == <<produced, waiting, handled>>

Init == produced = 0 /\ waiting = << >> /\ handled = << >>

Capture ==
    /\ produced < MaxEvents
    /\ produced' = produced + 1
    /\ waiting' = Append(waiting, produced + 1)
    /\ UNCHANGED handled

Refuse ==
    /\ produced < MaxEvents
    /\ produced' = produced + 1
    /\ UNCHANGED <<waiting, handled>>

(* A run of neighbours is removed, the others keep their order. *)
Discard ==
    /\ \E i \in 0 .. Len(waiting), j \in 1 .. Len(waiting) + 1 :
          /\ i < j
          /\ waiting' = SubSeq(waiting, 1, i) \o SubSeq(waiting, j, Len(waiting))
    /\ UNCHANGED <<produced, handled>>

Deliver ==
    /\ waiting # << >>
    /\ handled' = Append(handled, Head(waiting))
    /\ waiting' = Tail(waiting)
    /\ UNCHANGED produced

Next == Capture \/ Refuse \/ Discard \/ Deliver

Spec == Init /\ [][Next]_deliveryVars
=============================================================================
