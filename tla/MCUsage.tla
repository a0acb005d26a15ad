-------------------------------- MODULE MCUsage --------------------------------
(***************************************************************************)
(* One metered subscription under changing limits.                         *)
(***************************************************************************)
EXTENDS UsageLimits, TLC

CONSTANTS alice, shop, treasury, usdc, plain, call1, call2, call3

\* The part of the vault that metering depends on: time, funds, other charges.
MeteredNext ==
  \/ MeterNext
  \/ /\ \/ Tick
        \/ \E cap \in Caps :
             CreateSubscription(alice, shop, usdc, 2, 2, TRUE, cap, None)
        \/ \E id \in Ids : ChargeSubscription(id)
        \/ \E id \in Ids : DepositFunds(id, Funds[usdc])
     /\ UNCHANGED usageVars
MeteredSpec == MInit /\ [][MeteredNext]_meteredVars

NoPlans == << >>
NoReplies == {}
NoExpiries == {None}
CapChoices == {None, 4}
UnitScale == [t \in Tokens |-> 1]
Funds5 == [t \in Tokens |-> 5]

\* One of each limit alone, and all of them together.
LimitSettings ==
  { [max |-> 1, window |-> 2, burst |-> 0, cap_units |-> None],
    [max |-> None, window |-> 0, burst |-> 2, cap_units |-> None],
    [max |-> None, window |-> 0, burst |-> 0, cap_units |-> 2],
    [max |-> 2, window |-> 3, burst |-> 1, cap_units |-> 3] }

ResentCalls == Permutations({call1, call2, call3})
===============================================================================
