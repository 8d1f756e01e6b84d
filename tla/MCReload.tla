------------------------------ MODULE MCReload ------------------------------
(***************************************************************************)
(* Three rule files, chosen so that a result that mixes two of them is one *)
(* that neither could give; Validate rejects the third.  Two entries of    *)
(* the first have one name, and the second does not set the knob.          *)
(***************************************************************************)
EXTENDS Reload, TLC

CONSTANTS r1, r2, r3

MCRules == {r1, r2, r3}
MCRuleName == [r \in MCRules |-> IF r = r3 THEN r2 ELSE r]

First == [log |-> 2, alert |-> 3, weight |-> (r1 :> 1 @@ r2 :> 2 @@ r3 :> 2)]
Second == [log |-> 1, alert |-> 5, weight |-> (r1 :> 4 @@ r2 :> -1)]
Rejected == [log |-> 4, alert |-> 1, weight |-> (r1 :> 1)]

MCConfigs == {First, Second, Rejected}
MCKnob == [c \in MCConfigs |-> IF c = First THEN 2 ELSE 0]
=============================================================================
