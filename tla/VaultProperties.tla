---------------------------- MODULE VaultProperties ----------------------------
(***************************************************************************)
(* What module Vault is checked for.                                       *)
(***************************************************************************)
EXTENDS Vault

-------------------------------------------------------------------------------
(***************************************************************************)
(* Money.                                                                  *)
(***************************************************************************)
OfToken(tok) == {id \in DOMAIN subs : subs[id].token = tok}

Prepaid(tok) ==
  SumFunctionOnSet([id \in DOMAIN subs |-> subs[id].prepaid], OfToken(tok))
Billed(tok, kind) ==
  SumFunctionOnSet([id \in DOMAIN subs |-> subs[id].billed[kind]], OfToken(tok))
Earned(tok) == SumFunctionOnSet([p \in Payees |-> balance[p][tok]], Payees)
Accrued(tok, field) ==
  SumFunctionOnSet([p \in Payees |-> earnings[p][tok][field]], Payees)
Refunded(tok) == Accrued(tok, "refunds")
AllFunds == SumFunctionOnSet(Funds, Tokens)

Ledger == INSTANCE VaultLedger WITH
            Amounts  <- 0 .. AllFunds,
            prepaid  <- [tok \in Tokens |-> Prepaid(tok)],
            earned   <- [tok \in Tokens |-> Earned(tok)],
            refunded <- [tok \in Tokens |-> Refunded(tok)]

(***************************************************************************)
(* Vault implements VaultLedger: no interleaving of deposits, charges,     *)
(* batches, refunds, withdrawals and recoveries moves money in a way the   *)
(* ledger does not allow.                                                  *)
(***************************************************************************)
ImplementsLedger == Ledger!Spec

(***************************************************************************)
(* The vault holds every token it owes, so that recover_stranded_funds     *)
(* (admin.rs) never takes a subscriber's or a merchant's money.            *)
(***************************************************************************)
Solvency == \A tok \in Tokens : vault[tok] >= Prepaid(tok) + Earned(tok)

(***************************************************************************)
(* TotalAccounted, which deposits, payouts and refunds keep by hand in     *)
(* four places, is what the vault owes plus what merchants refunded:       *)
(* merchant_refund alone does not decrement it, so the total errs upwards  *)
(* and recovery offers too little, never too much.  (What the documents    *)
(* say of the total is AccountedIsHeld, which fails.)                      *)
(***************************************************************************)
AccountedWithRefunds == Ledger!AccountedExact

(***************************************************************************)
(* Books agree: what the statements of all subscriptions say was charged,  *)
(* by kind, is what the payees' earnings say was accrued.  The protocol    *)
(* fee split neither loses nor mints a unit, also when the treasury is the *)
(* merchant itself, and a failed batch item leaves nothing half-booked.    *)
(***************************************************************************)
StatementsMatchEarnings ==
  \A tok \in Tokens, k \in Kinds : Billed(tok, k) = Accrued(tok, k)

(***************************************************************************)
(* lifetime_charged of a subscription is the sum of its statement rows, on *)
(* all three charge paths.                                                 *)
(***************************************************************************)
ChargedIsBilled ==
  \A id \in DOMAIN subs :
    subs[id].charged = subs[id].billed["interval"] + subs[id].billed["usage"]
                         + subs[id].billed["one_off"]

-------------------------------------------------------------------------------
(***************************************************************************)
(* Lifetime cap.                                                           *)
(***************************************************************************)
\* No interval, usage or one-off charge, alone or in a batch, and no plan
\* migration takes lifetime_charged past the lifetime cap.
CapRespected ==
  \A id \in DOMAIN subs :
    subs[id].cap # None => subs[id].charged <= subs[id].cap

\* A subscription without a plan never holds prepaid money that its cap would
\* not let the merchant charge: enforce_deposit_cap looks at prepaid and
\* charged together, and the charge paths move one into the other.
PrepaidChargeable ==
  \A id \in DOMAIN subs : LET s == subs[id] IN
    s.plan = None /\ s.cap # None => s.charged + s.prepaid <= s.cap

-------------------------------------------------------------------------------
(***************************************************************************)
(* Billing periods.                                                        *)
(***************************************************************************)
\* No snapshot is ahead of ChargedPeriod: the replay check alone keeps
\* write_period_snapshot from meeting a closed snapshot after the debit was
\* stored, which a batch would keep.
SnapshotNeverReopened ==
  \A id \in DOMAIN subs : subs[id].snaps \subseteq 1 .. subs[id].period

\* The interval charges of a subscription without a plan are one per snapshot
\* and never more than the whole intervals since it started, however late,
\* repeated or batched the calls are.  (Priced without the oracle.)
BilledOncePerPeriod ==
  \A id \in DOMAIN subs : LET s == subs[id] IN
    s.plan = None =>
      /\ s.billed["interval"] = s.amount * Cardinality(s.snaps)
      /\ Cardinality(s.snaps) <= (now - s.start) \div s.interval

\* A charge that get_next_charge_info calls due is not refused as a replay:
\* now >= last_payment + interval puts the clock in a period beyond
\* ChargedPeriod.
DueIsNotReplay(s) == now >= NextChargeTime(s) => PeriodIndex(s) > s.period

\* A subscription without a plan is never due and refused as a replay at the
\* same time: last_payment and ChargedPeriod, which charge_one moves in two
\* places, stay on the same grid of intervals.
DueWithoutPlan ==
  \A id \in DOMAIN subs : subs[id].plan = None => DueIsNotReplay(subs[id])

\* billing_intervals.md says it of every subscription: a charge is allowed once
\* now >= last_payment + interval.
DueAlways == \A id \in DOMAIN subs : DueIsNotReplay(subs[id])

BillingStep ==
  \A id \in DOMAIN subs :
    /\ subs'[id].last_payment >= subs[id].last_payment
    /\ subs'[id].period >= subs[id].period
    /\ subs'[id].period # subs[id].period =>
         subs[id].last_payment < subs'[id].last_payment
    /\ subs'[id].last_payment <= now'

\* Billing time only moves forward and never ahead of the clock, also when a
\* migration changes the interval between two charges.
BillingTimeAdvances == [][BillingStep]_vars

-------------------------------------------------------------------------------
(***************************************************************************)
(* Status.                                                                 *)
(***************************************************************************)
StatusStep ==
  \A id \in DOMAIN subs :
    LET from == subs[id].status to == subs'[id].status IN
    \/ CanTransition(from, to)
    \/ to = Archived /\ IsExpired(subs[id]) /\ CanTransition(from, Expired)

\* Every stored status change is one the state machine allows, or the two
\* steps Expired, Archived of one cleanup call.  Deposits write Active without
\* consulting the state machine.
StatusFollowsMachine == [][StatusStep]_vars

EndedStep ==
  \A id \in DOMAIN subs :
    IsExpired(subs[id]) \/ subs[id].status \in Terminal =>
      subs'[id].charged = subs[id].charged

\* Once past its expiry, or in a terminal status, a subscription is never
\* charged again: each of the paths that raise lifetime_charged checks both
\* for itself.
NoChargeAfterEnd == [][EndedStep]_vars

\* A subscription without a plan that waits for money (InsufficientBalance or
\* GracePeriod) really lacks it: the deposit that covers the interval also
\* revives it, so no payer is left stuck.  (Priced without the oracle.)
WaitingIsUnderfunded ==
  \A id \in DOMAIN subs : LET s == subs[id] IN
    s.plan = None /\ s.status \in {InsufficientBalance, GracePeriod} =>
      s.prepaid < s.amount

-------------------------------------------------------------------------------
(***************************************************************************)
(* Switches.                                                               *)
(***************************************************************************)
StoppedStep ==
  config.stopped =>
    /\ nextId' = nextId
    /\ \A id \in DOMAIN subs : /\ subs'[id].charged = subs[id].charged
                               /\ subs'[id].prepaid <= subs[id].prepaid

\* Under the emergency stop nothing is charged, nothing is taken in and no
\* subscription appears, through any of the guarded entry points.  A batch is
\* one call, so the stop cannot be raised inside it.
StopFreezes == [][StoppedStep]_vars

PausedStep ==
  \A id \in DOMAIN subs : LET s == subs[id] t == subs'[id] IN
    IsMerchantPaused(s.merchant) =>
      /\ t.billed["interval"] = s.billed["interval"]
      /\ t.billed["usage"] = s.billed["usage"]

\* While either pause switch of a merchant is on, no interval and no usage is
\* charged for it, alone or in a batch, also when the pause comes between two
\* charges of a period or between a deposit and its charge.  One-off charges and
\* deposits are left out: code and documents disagree on both.
PauseHolds == [][PausedStep]_vars

BlocklistStep ==
  \A c \in config.blocklist :
    \A id \in DOMAIN subs' :
      subs'[id].subscriber = c =>
        /\ id \in DOMAIN subs
        /\ subs'[id].prepaid <= subs[id].prepaid
        /\ subs'[id].plan = subs[id].plan

\* A blocked subscriber gets no new subscription, pays nothing in and keeps
\* the terms it has, whichever entry point is used.
BlocklistHolds == [][BlocklistStep]_vars

-------------------------------------------------------------------------------
(***************************************************************************)
(* Prices and limits.                                                      *)
(***************************************************************************)
ActiveOnPlan(c, p) ==
  {id \in DOMAIN subs : /\ subs[id].plan = p /\ subs[id].subscriber = c
                        /\ subs[id].status = Active}

CreationStep ==
  nextId' # nextId =>
    LET s == subs'[nextId] limit == config.credit_limit[s.subscriber][s.token]
    IN
    /\ s.amount > 0 /\ limit # 0 =>
         \A c \in Subscribers, tok \in Tokens :
           c = s.subscriber /\ tok = s.token => Exposure(c, tok)' <= limit
    /\ s.plan # None => \A c \in Subscribers, p \in DOMAIN Plans :
         c = s.subscriber /\ p = s.plan /\ config.plan_max[p] # 0 =>
           Cardinality(ActiveOnPlan(c, p)') <= config.plan_max[p]

\* Right after a subscription is created, its subscriber is within the credit
\* limit for its token and within the limit of its plan, whatever its other
\* subscriptions went through before.
CreationWithinLimits == [][CreationStep]_vars

OraclePriceStep ==
  \A id \in DOMAIN subs : LET s == subs[id]
                              d == subs'[id].billed["interval"]
                                     - s.billed["interval"]
                          IN
    d > 0 /\ config.oracle.enabled =>
      \E r \in OracleReplies :
        /\ r.timestamp # 0 /\ r.timestamp + config.oracle.max_age >= now
        /\ LET worth == s.amount * (IF s.token \in config.accepted
                                    THEN TokenScale[s.token] ELSE DefaultScale)
           IN  d * r.price >= worth /\ (d - 1) * r.price < worth

\* An interval charge priced by the oracle uses an answer that was fresh when
\* the charge ran, takes enough tokens to cover the quoted amount, and not one
\* more.
OraclePriceCovers == [][OraclePriceStep]_vars

-------------------------------------------------------------------------------
(***************************************************************************)
(* What the documentation says of the contract and the code does not do.   *)
(***************************************************************************)
\* merchant_earnings.md: the reported balance, accruals less withdrawals less
\* refunds, always matches MerchantBalance.
EarningsReconcile ==
  \A p \in Payees, tok \in Tokens :
    LET e == earnings[p][tok] IN
    balance[p][tok] = e["interval"] + e["usage"] + e["one_off"]
                        - e["withdrawals"] - e["refunds"]

\* subscription_vault_prepaid.md: TotalAccounted follows every transfer, so
\* that the vault's token balance equals it.  Tokens sent to the vault directly
\* or with nobody to claim them only make the balance larger: the half of the
\* equality that they leave is that the total is held.
AccountedIsHeld == \A tok \in Tokens : accounted[tok] <= vault[tok]

-------------------------------------------------------------------------------
(***************************************************************************)
(* Liveness.                                                               *)
(***************************************************************************)
\* The clock moves, someone keeps calling charge_subscription for every id and
\* subscribers ask for their money back.  The fairness is strong because a
\* batch, one call of the contract, closes these actions for a few steps.
Fairness ==
  /\ SF_vars(Tick) /\ WF_vars(BatchItem)
  /\ \A id \in Ids : /\ SF_vars(ChargeSubscription(id))
                      /\ SF_vars(WithdrawSubscriberFunds(id))

\* A due charge is settled: it is paid, cancelled at the cap, or given up when
\* the grace window closes.  Unless an emergency stop comes in between, no
\* subscription without a plan hangs in GracePeriod, however deposits, refunds
\* and pauses are interleaved.  (When the window closes within the modelled
\* clock.)
DueIsSettled ==
  \A id \in Ids :
    (/\ id \in DOMAIN subs /\ subs[id].plan = None /\ Due(subs[id])
     /\ NextChargeTime(subs[id]) + Grace <= MaxTime)
      ~> (id \in DOMAIN subs /\ (~Due(subs[id]) \/ config.stopped))

\* A subscriber whose subscription ended gets the prepaid balance back, unless
\* an emergency stop is never lifted.  It needs every other outflow, recoveries
\* included, to leave the money in the vault.
EndedIsRefunded ==
  []<>(~config.stopped) =>
    \A id \in Ids :
      (id \in DOMAIN subs /\ subs[id].status \in Terminal)
        ~> (id \in DOMAIN subs /\ subs[id].prepaid = 0)
===============================================================================
