----------------------------- MODULE SessionLife -----------------------------
(***************************************************************************)
(* What the session tracker promises of an OpenClaw invocation, without    *)
(* clocks, sweeps, events or the active pointer: sessions are numbered in  *)
(* the order they open; each is open, then closing under a deadline fixed  *)
(* once, then ended for good; and the next one opens only when all before  *)
(* it have left.                                                           *)
(***************************************************************************)
EXTENDS Naturals, Sequences

VARIABLE life   \* life[id] is what became of session id

NoDeadline == 0
Opened == [phase |-> "open", until |-> NoDeadline]
Closing(until) == [phase |-> "closing", until |-> until]
Ended(l) == [l EXCEPT !.phase = "ended"]

Init == life = << >>

(* A session that was closing may give way in the very step that opens the
   next one; an open one never does.                                        *)
Open ==
    /\ \A id \in DOMAIN life : life[id].phase # "open"
    /\ life' = [id \in 1 .. (Len(life) + 1) |->
                   IF id \in DOMAIN life THEN Ended(life[id]) ELSE Opened]

Leave(id) ==
    /\ life[id].phase = "open"
    /\ life'[id].until \in Nat \ {NoDeadline}
    /\ life' = [life EXCEPT ![id] = Closing(life'[id].until)]

End(id) ==
    /\ life[id].phase = "closing"
    /\ life' = [life EXCEPT ![id] = Ended(@)]

Next == Open \/ \E id \in DOMAIN life : Leave(id) \/ End(id)

Spec == Init /\ [][Next]_life
=============================================================================
