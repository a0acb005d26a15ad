------------------------------ MODULE UsageLimits ------------------------------
(***************************************************************************)
(* Metered usage in front of the vault: the idempotency reference of a     *)
(* usage charge, and the rate window, burst interval and unit cap that a   *)
(* merchant sets on a subscription.  charge_usage_one consults them after  *)
(* the checks of Vault's ChargeUsage and before it moves any money; a call *)
(* they refuse returns Ok and writes nothing.                              *)
(*                                                                         *)
(* The vault's other entry points leave this state alone, so a behaviour   *)
(* of this module is one of the vault with the limits filled in            *)
(* (UsageLimitsProofs: MeteredImplementsVault).                            *)
(***************************************************************************)
EXTENDS Vault

CONSTANTS
  References, DefaultReference, \* idempotency keys; the one charge_usage sends
  LimitChoices                  \* what a merchant may configure

Limits == [max: Nat \cup {None}, window: Nat, burst: Nat,
           cap_units: Int \cup {None}]
UsageState == [last: Nat, window_start: Nat, calls: Nat, units: Int, period: Nat]
Receipt == [ref: References, amount: Int, at: Nat]

ASSUME UsageAssumption ==
  /\ DefaultReference \in References
  /\ LimitChoices \subseteq Limits
  /\ None \notin Limits /\ None \notin UsageState

VARIABLES
  limits,   \* UsageLimits(id), or None
  usage,    \* UsageState(id), or None
  refs,     \* the ("usage_ref", id, reference) keys
  receipts, \* history: the usage charges of id that moved money, in order
  mark      \* history: how many of them precede the limits now in force

usageVars   == <<limits, usage, refs, receipts, mark>>
meteredVars == <<vars, usageVars>>

MInit ==
  /\ Init
  /\ limits = [id \in Ids |-> None]
  /\ usage = [id \in Ids |-> None]
  /\ refs = [id \in Ids |-> {}]
  /\ receipts = [id \in Ids |-> << >>]
  /\ mark = [id \in Ids |-> 0]

-------------------------------------------------------------------------------
(***************************************************************************)
(* The limiter.  u is the usage state a call finds, l the limits in force. *)
(***************************************************************************)
FreshUsage(s) ==
  [last |-> 0, window_start |-> now, calls |-> 0, units |-> 0,
   period |-> PeriodIndex(s)]

Found(id) == IF usage[id] = None THEN FreshUsage(subs[id]) ELSE usage[id]

\* One second short.
BurstOkEarly(l, u) == l.burst > 0 => now - u.last + 1 >= l.burst

BurstOk(l, u) == l.burst > 0 => now - u.last >= l.burst

\* Moves the window and keeps counting.
WindowedKeepingCount(l, u) ==
  IF l.max # None /\ now >= u.window_start + l.window
  THEN [u EXCEPT !.window_start = now] ELSE u

\* A window that is over restarts at this call.
Windowed(l, u) ==
  IF l.max # None /\ now >= u.window_start + l.window
  THEN [u EXCEPT !.window_start = now, !.calls = 0] ELSE u

\* Lets one more call through.
RateOkInclusive(l, u) == l.max # None => u.calls <= l.max

RateOk(l, u) == l.max # None => u.calls < l.max

\* A later billing period starts with no units used.
Periodic(l, u, s) ==
  IF l.cap_units # None /\ PeriodIndex(s) > u.period
  THEN [u EXCEPT !.period = PeriodIndex(s), !.units = 0] ELSE u

\* Looks only at the units used so far.
UnitsOkSoFar(l, u, a) == l.cap_units # None => u.units < l.cap_units

UnitsOk(l, u, a) == l.cap_units # None => u.units + a <= l.cap_units

\* The state a call is judged by, and what an admitted call leaves.
Judged(id) == Periodic(limits[id], Windowed(limits[id], Found(id)), subs[id])

Counted(u, a) ==
  [u EXCEPT !.last = now, !.calls = @ + 1, !.units = @ + a]

Admitted(id, a) ==
  limits[id] # None =>
    /\ BurstOk(limits[id], Found(id))
    /\ RateOk(limits[id], Judged(id))
    /\ UnitsOk(limits[id], Judged(id), a)

-------------------------------------------------------------------------------
\* Accepts any reference.
UnseenAlways(id, r) == TRUE

Unseen(id, r) == r \notin refs[id]

\* A charge over the lifetime cap cancels the subscription and is counted by
\* the limiter, but stores no reference.
ChargeUsageWithReference(id, a, r) ==
  /\ Known(id)
  /\ Unseen(id, r) /\ Admitted(id, a)
  /\ ChargeUsage(id, a)
  /\ usage' = [usage EXCEPT ![id] =
                 IF limits[id] = None THEN @ ELSE Counted(Judged(id), a)]
  /\ IF WithinCap(subs[id], a)
     THEN /\ refs' = [refs EXCEPT ![id] = @ \cup {r}]
          /\ receipts' = [receipts EXCEPT ![id] =
                            Append(@, [ref |-> r, amount |-> a, at |-> now])]
     ELSE UNCHANGED <<refs, receipts>>
  /\ UNCHANGED <<limits, mark>>

\* charge_usage, which always sends the same reference.
ChargeUsagePlain(id, a) == ChargeUsageWithReference(id, a, DefaultReference)

\* By the merchant of the subscription.  The usage state carries over, and a
\* window of zero seconds is not refused.
ConfigureUsageLimits(id, l) ==
  /\ Known(id) /\ subs[id].usage
  /\ l.cap_units # None => l.cap_units > 0
  /\ limits' = [limits EXCEPT ![id] = l]
  /\ mark' = [mark EXCEPT ![id] = Len(receipts[id])]
  /\ UNCHANGED <<vars, usage, refs, receipts>>

MeterNext ==
  \E id \in Ids :
    \/ \E a \in Values :
         \/ ChargeUsagePlain(id, a)
         \/ \E r \in References : ChargeUsageWithReference(id, a, r)
    \/ \E l \in LimitChoices : ConfigureUsageLimits(id, l)

\* What the vault does besides metering.
OtherNext ==
  Tick \/ CreateNext \/ LifecycleNext \/ BillNext \/ FundsNext \/ ReclaimNext
    \/ GateNext \/ TermsNext

MNext == MeterNext \/ (OtherNext /\ UNCHANGED usageVars)

MSpec == MInit /\ [][MNext]_meteredVars

-------------------------------------------------------------------------------
(***************************************************************************)
(* Properties.                                                             *)
(***************************************************************************)
Charges(id) == DOMAIN receipts[id]

\* The charges made under the limits now in force.
Recent(id) == {k \in Charges(id) : k > mark[id]}

\* Replay protection (charge_core.rs, "usage_ref"): however often a call is
\* resent, in whatever order with others and across refusals, cancellations
\* and new limits, one reference moves money once, and only references that
\* moved money are burnt, so that a refused call can be sent again.
ReferencesChargedOnce ==
  \A id \in Ids :
    /\ \A i, j \in Charges(id) :
         receipts[id][i].ref = receipts[id][j].ref => i = j
    /\ refs[id] = {receipts[id][k].ref : k \in Charges(id)}

\* Burst protection: under one configuration any two charges of a
\* subscription are at least the burst interval apart.
BurstHeld ==
  \A id \in Ids : limits[id] # None =>
    \A i, j \in Recent(id) :
      i < j => receipts[id][j].at - receipts[id][i].at >= limits[id].burst

\* Rate limit: the window restarts at the first call after it is over, so a
\* span of one window length overlaps at most two windows and holds at most
\* twice the maximum number of calls.
RateHeld ==
  \A id \in Ids :
    (limits[id] # None /\ limits[id].max # None /\ limits[id].window > 0) =>
      \A i \in Recent(id) :
        Cardinality({j \in Recent(id) :
            /\ receipts[id][j].at >= receipts[id][i].at
            /\ receipts[id][j].at < receipts[id][i].at + limits[id].window})
          <= 2 * limits[id].max

PeriodOf(s, t) == (t - s.start) \div s.interval

\* Unit cap: what is charged in one billing period under one configuration
\* stays within usage_cap_units, whichever of the calls came before a reset
\* of the rate window.  (A migrated subscription changes its interval, and
\* with it what a period is.)
UnitsHeld ==
  \A id \in DOMAIN subs :
    (limits[id] # None /\ limits[id].cap_units # None /\ subs[id].plan = None) =>
      \A i \in Recent(id) :
        SumFunctionOnSet([j \in Charges(id) |-> receipts[id][j].amount],
            {j \in Recent(id) : PeriodOf(subs[id], receipts[id][j].at)
                                  = PeriodOf(subs[id], receipts[id][i].at)})
          <= limits[id].cap_units

\* The limiter never locks a subscription out: once every charge is older
\* than the burst interval, than the window and than the current period, a
\* call that fits the unit cap by itself is admitted, whatever configurations
\* and refusals came before.
QuietIsAdmitted ==
  \A id \in DOMAIN subs :
    LET l == limits[id] s == subs[id] IN
    (/\ l # None /\ s.plan = None /\ s.status = Active
     /\ l.max # 0 /\ now >= l.burst
     /\ \A k \in Charges(id) :
          /\ now - receipts[id][k].at >= l.burst
          /\ now - receipts[id][k].at >= l.window
          /\ PeriodOf(s, receipts[id][k].at) < PeriodIndex(s)) =>
    \A a \in Values : (l.cap_units # None => a <= l.cap_units) => Admitted(id, a)
===============================================================================
