-------------------------------- MODULE MCVault --------------------------------
(***************************************************************************)
(* Instances of Vault for TLC.  Each run takes the core of the contract    *)
(* and the group of settings it asks about.                                *)
(***************************************************************************)
EXTENDS VaultProperties

CONSTANTS alice, bob, shop, treasury, usdc, eurc

CoreSpec  == Init /\ [][CoreNext]_vars
GateSpec  == Init /\ [][CoreNext \/ GateNext]_vars
LiveSpec  == GateSpec /\ Fairness

NoPlans == << >>
NoReplies == {}
NoCaps == {None}
NoExpiries == {None}
UnitScale == [t \in Tokens |-> 1]
Funds2 == [t \in Tokens |-> 2]
Funds4 == [t \in Tokens |-> IF t = usdc THEN 4 ELSE 0]
CapChoices == {None, 3}
ExpiryChoices == {None, 4}

\* 1 and 2 are two versions of a plan: the second is dearer, slower and
\* capped.  3 has the amount create_plan_template does not refuse: zero; 4 a
\* negative one.
PlanChoices ==
  LET plan(a, i, cap, key, v) ==
        [merchant |-> shop, token |-> usdc, amount |-> a, interval |-> i,
         usage |-> FALSE, cap |-> cap, key |-> key, version |-> v]
  IN  << plan(1, 1, None, 1, 1), plan(2, 2, 3, 1, 2),
         plan(0, 1, None, 3, 1), plan(-1, 1, None, 4, 1) >>

OnePlan == << [PlanChoices[1] EXCEPT !.amount = 2] >>

\* Two units per token: a price that divides the amount, one that leaves a
\* remainder, one that is soon stale, an invalid one.  No two usable ones
\* resolve to the same charge.
TwoUnits == [t \in Tokens |-> 2]
ReplyChoices == {[price |-> 1, timestamp |-> 3], [price |-> 3, timestamp |-> 3],
                 [price |-> 5, timestamp |-> 1], [price |-> 0, timestamp |-> 3]}
===============================================================================
