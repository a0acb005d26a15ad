--------------------------------- MODULE Vault ---------------------------------
(***************************************************************************)
(* The subscription vault: prepaid subscriptions, the charges that turn    *)
(* prepaid balance into merchant balance, and the token custody behind     *)
(* them.                                                                   *)
(*                                                                         *)
(* An entry point of the contract is one action.  The host runs one        *)
(* invocation at a time and discards every write of an invocation that     *)
(* returns an error, so a refused call is a stuttering step and is not     *)
(* written down.  The one exception is batch_charge, which catches the     *)
(* error of each item and commits what that item had already written: a    *)
(* batch is a sequence of steps, `batch` holds the items still to run and  *)
(* no other entry point runs until it is empty.                            *)
(*                                                                         *)
(* A definition whose name extends that of the definition below it         *)
(* (WithinCapSoFar, WithinCap) is that definition with a slip in it.  No   *)
(* action uses it: it is there to see which property the slip would break. *)
(*                                                                         *)
(* Money and time are natural numbers: the i128 and u64 limits are out of  *)
(* reach of any token supply and any ledger clock (README, "Bounds").      *)
(***************************************************************************)
EXTENDS Integers, Sequences, FiniteSets, FiniteSetsExt, SubscriptionStatus

CONSTANTS
  Subscribers, Merchants, Treasuries, \* accounts, by the role they play
  Tokens, DefaultToken,               \* settlement tokens; the one of init
  None,                               \* Rust's None
  MAX_SUBSCRIPTION_ID,                \* first id that is never issued
  MAX_WRITE_PATH_SCAN_DEPTH,          \* most ids that a limit check scans
  MinInterval, MaxInterval,           \* bounds of validate_interval
  MaxTime, MaxBatch,                  \* bounds: the clock, items per batch
  Funds,                              \* bound: tokens that exist outside
  Grace,                              \* grace_period, fixed by init
  Plans,                              \* the plan templates on chain
  TokenScale,                         \* 10^decimals of each token
  DefaultScale                        \* 10^6, for a token without decimals

\* Arguments that callers choose from.
CONSTANTS
  Amounts, Intervals, Caps, Expiries, \* terms of a subscription
  Values,                             \* sums of money moved by one call
  MinTopups, FeeBps, CreditLimits, PlanLimits, CapDefaults,
  OracleReplies, MaxAges,             \* oracle answers and staleness bounds
  RecoveryIds

VARIABLES
  now,        \* ledger timestamp
  subs,       \* Sub(id) and the other keys of a subscription, ids 0..nextId-1
  nextId,     \* NextId
  balance,    \* MerchantBalance(merchant, token)
  earnings,   \* MerchantEarnings(merchant, token)
  accounted,  \* TotalAccounted(token)
  vault,      \* token contract: balance of the vault's own address
  outside,    \* token contract: what may still be transferred in (a bound)
  recovered,  \* Recovery(id) keys already used
  batch,      \* items of the running batch_charge
  config      \* admin, merchant and limit settings

vars == <<now, subs, nextId, balance, earnings, accounted, vault, outside,
          recovered, batch, config>>
moneyVars  == <<balance, earnings, accounted, vault, outside, recovered>>
ledgerVars == <<balance, earnings, accounted, vault, outside>>

Payees == Merchants \cup Treasuries
Ids    == 0 .. (MAX_SUBSCRIPTION_ID - 1)
Kinds  == {"interval", "usage", "one_off"}
EarningFields == Kinds \cup {"withdrawals", "refunds"}

PlanTemplate ==
  [merchant: Merchants, token: Tokens, amount: Int, interval: Nat \ {0},
   usage: BOOLEAN, cap: (Nat \ {0}) \cup {None}, key: Nat, version: Nat]

ASSUME VaultAssumption ==
  /\ None \notin Int /\ None \notin Payees
  /\ DefaultToken \in Tokens
  /\ MAX_SUBSCRIPTION_ID \in Nat /\ MaxTime \in Nat /\ MaxBatch \in Nat
  /\ Grace \in Nat
  /\ MinInterval \in Nat \ {0} /\ MaxInterval \in Nat
  /\ Funds \in [Tokens -> Nat]
  /\ Plans \in [DOMAIN Plans -> PlanTemplate] /\ DOMAIN Plans \subseteq Nat
  /\ TokenScale \in [Tokens -> Nat \ {0}] /\ DefaultScale \in Nat \ {0}
  /\ Amounts \subseteq Int /\ Intervals \subseteq Nat
  /\ Caps \subseteq Int \cup {None} /\ Expiries \subseteq Nat \cup {None}
  /\ Values \subseteq Int /\ MinTopups \subseteq Int
  /\ FeeBps \subseteq 0..10000
  /\ CreditLimits \subseteq Nat /\ PlanLimits \subseteq Nat
  /\ CapDefaults \subseteq (Nat \ {0}) \cup {None}
  /\ OracleReplies \subseteq [price: Int, timestamp: Nat]
  /\ MaxAges \subseteq Nat \ {0}

\* The ledger holds finitely many accounts and tokens.
ASSUME AccountsFinite == IsFiniteSet(Payees) /\ IsFiniteSet(Tokens)

(***************************************************************************)
(* A subscription record.  `period` is ChargedPeriod(id) (0 while absent:  *)
(* period 0 can never be charged, so the two are indistinguishable),       *)
(* `snaps` the indices of its BillingPeriodSnapshots (always written       *)
(* closed), `billed` the sum of its statement rows by kind and `plan` its  *)
(* SubPlan link.                                                           *)
(***************************************************************************)
Subscription ==
  [subscriber: Subscribers, merchant: Merchants, token: Tokens,
   amount: Int, interval: Nat \ {0}, last_payment: Nat, status: Statuses,
   prepaid: Nat, usage: BOOLEAN, cap: Nat \cup {None}, charged: Nat,
   start: Nat, expires: Nat \cup {None}, plan: (DOMAIN Plans) \cup {None},
   period: Nat, snaps: SUBSET Nat, billed: [Kinds -> Nat]]

CapTable     == [Merchants -> Nat \cup {None}]
LimitTable   == [Subscribers -> [Tokens -> Nat]]
PlanTable    == [DOMAIN Plans -> Nat]
OracleConfig == [enabled: BOOLEAN, max_age: Nat]
BasisPoints  == 0..10000
TreasuryKey  == Treasuries \cup {None}
TokenSets    == SUBSET Tokens
ClientSets   == SUBSET Subscribers
ShopSets     == SUBSET Merchants

Config ==
  [stopped: BOOLEAN, min_topup: Int, fee_bps: BasisPoints,
   treasury: TreasuryKey, accepted: TokenSets, cap_default: Nat \cup {None},
   merch_cap: CapTable, credit_limit: LimitTable, plan_max: PlanTable,
   blocklist: ClientSets, flag_paused: ShopSets, config_paused: ShopSets,
   oracle: OracleConfig]

TypeOK ==
  /\ now \in Nat
  /\ nextId \in 0 .. MAX_SUBSCRIPTION_ID
  /\ subs \in [0 .. (nextId - 1) -> Subscription]
  /\ balance \in [Payees -> [Tokens -> Nat]]
  /\ earnings \in [Payees -> [Tokens -> [EarningFields -> Nat]]]
  /\ accounted \in [Tokens -> Int]
  /\ vault \in [Tokens -> Nat]
  /\ outside \in [Tokens -> Nat]
  /\ recovered \subseteq RecoveryIds
  /\ batch \in Seq(Ids)
  /\ config \in Config

InitialConfig(topup) ==
  [stopped |-> FALSE, min_topup |-> topup, fee_bps |-> 0, treasury |-> None,
   accepted |-> {DefaultToken}, cap_default |-> None,
   merch_cap |-> [m \in Merchants |-> None],
   credit_limit |-> [s \in Subscribers |-> [tok \in Tokens |-> 0]],
   plan_max |-> [p \in DOMAIN Plans |-> 0],
   blocklist |-> {}, flag_paused |-> {}, config_paused |-> {},
   oracle |-> [enabled |-> FALSE, max_age |-> 0]]

\* do_init, with the grace period a constant of the instance.
Init ==
  /\ now = 1
  /\ nextId = 0
  /\ subs = [id \in {} |-> {}]
  /\ balance = [p \in Payees |-> [tok \in Tokens |-> 0]]
  /\ earnings = [p \in Payees |-> [tok \in Tokens |->
                   [f \in EarningFields |-> 0]]]
  /\ accounted = [tok \in Tokens |-> 0]
  /\ vault = [tok \in Tokens |-> 0]
  /\ outside = Funds
  /\ recovered = {}
  /\ batch = << >>
  /\ \E topup \in {m \in MinTopups : m >= 0} : config = InitialConfig(topup)

-------------------------------------------------------------------------------
(***************************************************************************)
(* Reading a subscription.                                                 *)
(***************************************************************************)
IsExpired(s) == s.expires # None /\ now >= s.expires

IsMerchantPaused(m) == m \in config.config_paused \cup config.flag_paused

CapReached(s) == s.cap # None /\ s.charged >= s.cap

\* Looks only at what was charged so far.
WithinCapSoFar(s, a) == s.cap # None => s.charged < s.cap

\* Whether charging `a` more stays within the lifetime cap.
WithinCap(s, a) == s.cap # None => s.charged + a <= s.cap

\* saturating_sub, then integer division.
PeriodIndex(s) ==
  (IF now >= s.start THEN now - s.start ELSE 0) \div s.interval
\* Bills in advance: the end of the period.
PeriodStartInAdvance(s) == s.start + (PeriodIndex(s) + 1) * s.interval

PeriodStart(s) == s.start + PeriodIndex(s) * s.interval

NextChargeTime(s) == s.last_payment + s.interval

ValidInterval(i) == i \in MinInterval .. MaxInterval

\* Reads a key that nobody writes.
IsBlocklistedElsewhere(subscriber) == FALSE

IsBlocklisted(subscriber) == subscriber \in config.blocklist

\* No entry point runs inside a batch.
Idle == batch = << >>
Known(id) == Idle /\ id \in DOMAIN subs

SetSub(id, s) == subs' = [subs EXCEPT ![id] = s]

-------------------------------------------------------------------------------
(***************************************************************************)
(* Credit limits, plan limits and cap defaults.                            *)
(***************************************************************************)
\* compute_subscriber_exposure: prepaid, plus one interval while Active.
Exposure(subscriber, tok) ==
  SumFunctionOnSet(
    [id \in DOMAIN subs |->
       subs[id].prepaid + (IF subs[id].status = Active THEN subs[id].amount
                                                       ELSE 0)],
    {id \in DOMAIN subs : /\ subs[id].subscriber = subscriber
                          /\ subs[id].token = tok})

\* Compares what is owed before the call.
WithinCreditLimitSoFar(subscriber, tok, delta) ==
  LET limit == config.credit_limit[subscriber][tok]
  IN  (delta > 0 /\ limit # 0) => /\ nextId <= MAX_WRITE_PATH_SCAN_DEPTH
                                  /\ Exposure(subscriber, tok) <= limit

WithinCreditLimit(subscriber, tok, delta) ==
  LET limit == config.credit_limit[subscriber][tok]
  IN  (delta > 0 /\ limit # 0) => /\ nextId <= MAX_WRITE_PATH_SCAN_DEPTH
                                  /\ Exposure(subscriber, tok) + delta <= limit

WithinPlanLimit(subscriber, p) ==
  config.plan_max[p] # 0 =>
    /\ nextId <= MAX_WRITE_PATH_SCAN_DEPTH
    /\ Cardinality({id \in DOMAIN subs : /\ subs[id].plan = p
                                         /\ subs[id].subscriber = subscriber
                                         /\ subs[id].status = Active})
         < config.plan_max[p]

\* resolve_cap: explicit, then the merchant's default, then the global one.
ResolveCap(m, cap) ==
  IF cap # None THEN cap
  ELSE IF config.merch_cap[m] # None THEN config.merch_cap[m]
  ELSE config.cap_default

-------------------------------------------------------------------------------
(***************************************************************************)
(* Creating and re-pricing subscriptions.                                  *)
(***************************************************************************)
\* Allocate the next id and store a fresh Active subscription under it.
Allocate(subscriber, m, tok, amount, interval, usage, cap, expires, plan) ==
  /\ nextId < MAX_SUBSCRIPTION_ID
  /\ nextId' = nextId + 1
  /\ subs' = [id \in 0 .. nextId |->
       IF id # nextId THEN subs[id]
       ELSE [subscriber |-> subscriber, merchant |-> m, token |-> tok,
             amount |-> amount, interval |-> interval, last_payment |-> now,
             status |-> Active, prepaid |-> 0, usage |-> usage, cap |-> cap,
             charged |-> 0, start |-> now, expires |-> expires, plan |-> plan,
             period |-> 0, snaps |-> {}, billed |-> [k \in Kinds |-> 0]]]

CreateSubscription(c, m, tok, amount, interval, usage, explicit, expires) ==
  LET cap == ResolveCap(m, explicit) IN
  /\ Idle /\ ~config.stopped
  /\ ~IsBlocklisted(c)
  /\ amount > 0
  /\ ValidInterval(interval)
  /\ tok \in config.accepted
  /\ cap # None => cap > 0 /\ cap >= amount
  /\ WithinCreditLimit(c, tok, amount)
  /\ Allocate(c, m, tok, amount, interval, usage, cap, expires, None)
  /\ UNCHANGED <<now, moneyVars, batch, config>>

\* A plan's amount and the default cap are not validated on this path.
CreateSubscriptionFromPlan(subscriber, p) ==
  LET plan == Plans[p] IN
  /\ Idle /\ ~config.stopped
  /\ ~IsBlocklisted(subscriber)
  /\ WithinCreditLimit(subscriber, plan.token, plan.amount)
  /\ WithinPlanLimit(subscriber, p)
  /\ Allocate(subscriber, plan.merchant, plan.token, plan.amount,
              plan.interval, plan.usage, ResolveCap(plan.merchant, plan.cap),
              None, p)
  /\ UNCHANGED <<now, moneyVars, batch, config>>

\* The terms of plan `p`, from now on; the past charges keep counting.
OnPlan(s, p) ==
  [s EXCEPT !.cap = Plans[p].cap, !.amount = Plans[p].amount,
            !.interval = Plans[p].interval, !.plan = p]

\* Move to a newer version of the same plan family, in any status.
MigrateSubscriptionToPlan(id, p) ==
  LET s == subs[id] plan == Plans[p] IN
  /\ Known(id)
  /\ ~IsBlocklisted(s.subscriber)
  /\ s.plan # None
  /\ plan.key = Plans[s.plan].key
  /\ plan.version > Plans[s.plan].version
  /\ plan.token = s.token
  /\ plan.usage = s.usage
  /\ plan.cap # None => s.charged <= plan.cap
  /\ SetSub(id, OnPlan(s, p))
  /\ UNCHANGED <<now, nextId, moneyVars, batch, config>>

-------------------------------------------------------------------------------
(***************************************************************************)
(* Life cycle: cancel, pause, resume, clean up.                            *)
(***************************************************************************)
CancelSubscription(id, authorizer) ==
  LET s == subs[id] IN
  /\ Known(id)
  /\ ~IsExpired(s)
  /\ authorizer \in {s.subscriber, s.merchant}
  /\ CanTransition(s.status, Cancelled)
  /\ SetSub(id, [s EXCEPT !.status = Cancelled])
  /\ UNCHANGED <<now, nextId, moneyVars, batch, config>>

PauseSubscription(id, authorizer) ==
  LET s == subs[id] IN
  /\ Known(id)
  /\ ~IsExpired(s)
  /\ authorizer \in {s.subscriber, s.merchant}
  /\ CanTransition(s.status, Paused)
  /\ SetSub(id, [s EXCEPT !.status = Paused])
  /\ UNCHANGED <<now, nextId, moneyVars, batch, config>>

ResumeSubscription(id, authorizer) ==
  LET s == subs[id] IN
  /\ Known(id)
  /\ ~IsExpired(s)
  /\ authorizer \in {s.subscriber, s.merchant}
  /\ authorizer = s.subscriber => ~IsBlocklisted(s.subscriber)
  /\ CanTransition(s.status, Active)
  /\ s.status \in {InsufficientBalance, GracePeriod} => s.prepaid >= s.amount
  /\ SetSub(id, [s EXCEPT !.status = Active])
  /\ UNCHANGED <<now, nextId, moneyVars, batch, config>>

\* Open to any caller.  A subscription that is past its expiry but not yet
\* marked goes through Expired to Archived within the one call.
CleanupSubscription(id) ==
  LET s  == subs[id]
      st == IF s.status \notin {Cancelled, Expired, Archived}
            THEN Expired ELSE s.status
  IN
  /\ Known(id)
  /\ s.status = Cancelled \/ IsExpired(s)
  /\ CanTransition(s.status, st) /\ CanTransition(st, Archived)
  /\ SetSub(id, [s EXCEPT !.status = Archived])
  /\ UNCHANGED <<now, nextId, moneyVars, batch, config>>

-------------------------------------------------------------------------------
(***************************************************************************)
(* Money in and out.  A token transfer that the token contract refuses     *)
(* traps, which rolls the call back: hence the guards on `outside` and     *)
(* `vault`.                                                                *)
(***************************************************************************)
TransferIn(tok, amount) ==
  /\ amount <= outside[tok]
  /\ vault' = [vault EXCEPT ![tok] = @ + amount]
  /\ outside' = [outside EXCEPT ![tok] = @ - amount]

TransferOut(tok, amount) ==
  /\ amount <= vault[tok]
  /\ vault' = [vault EXCEPT ![tok] = @ - amount]
  /\ UNCHANGED outside

\* Forgets the books.
SubAccountedSkipped(tok, amount) == UNCHANGED accounted

\* add_total_accounted and sub_total_accounted.
AddAccounted(tok, amount) == accounted' = [accounted EXCEPT ![tok] = @ + amount]
SubAccounted(tok, amount) == accounted' = [accounted EXCEPT ![tok] = @ - amount]

\* Forgets what is already prepaid.
DepositWithinCapFresh(s, amount) == s.cap # None => amount <= s.cap - s.charged

\* enforce_deposit_cap.
DepositWithinCap(s, amount) ==
  s.cap # None => amount <= s.cap - s.charged - s.prepaid

\* Wants more than the interval; and revives whatever is not paused.
ToppedUpStrict(s, amount) ==
  [s EXCEPT !.prepaid = @ + amount,
            !.status = IF /\ @ \in {InsufficientBalance, GracePeriod}
                          /\ s.prepaid + amount > s.amount
                       THEN Active ELSE @]
ToppedUpAnyStatus(s, amount) ==
  [s EXCEPT !.prepaid = @ + amount,
            !.status = IF @ # Paused /\ s.prepaid + amount >= s.amount
                       THEN Active ELSE @]

\* The record after a top-up.  It revives a subscription that can pay its
\* interval again; the status is not otherwise looked at.
ToppedUp(s, amount) ==
  [s EXCEPT !.prepaid = @ + amount,
            !.status = IF /\ @ \in {InsufficientBalance, GracePeriod}
                          /\ s.prepaid + amount >= s.amount
                       THEN Active ELSE @]

DepositFunds(id, amount) ==
  LET s == subs[id] IN
  /\ Known(id) /\ ~config.stopped
  /\ ~IsBlocklisted(s.subscriber)
  /\ amount >= config.min_topup /\ amount >= 0
  /\ ~IsMerchantPaused(s.merchant)
  /\ ~IsExpired(s)
  /\ WithinCreditLimit(s.subscriber, s.token, amount)
  /\ DepositWithinCap(s, amount)
  /\ SetSub(id, ToppedUp(s, amount))
  /\ TransferIn(s.token, amount)
  /\ AddAccounted(s.token, amount)
  /\ UNCHANGED <<now, nextId, balance, earnings, recovered, batch, config>>

WithdrawSubscriberFunds(id) ==
  LET s == subs[id] IN
  /\ Known(id)
  /\ s.prepaid > 0
  /\ s.status \in Terminal \/ IsExpired(s)
  /\ SetSub(id, [s EXCEPT !.prepaid = 0])
  /\ TransferOut(s.token, s.prepaid)
  /\ SubAccounted(s.token, s.prepaid)
  /\ UNCHANGED <<now, nextId, balance, earnings, recovered, batch, config>>

\* Admin only; any status.
PartialRefund(id, amount) ==
  LET s == subs[id] IN
  /\ Known(id)
  /\ amount > 0 /\ amount <= s.prepaid
  /\ SetSub(id, [s EXCEPT !.prepaid = @ - amount])
  /\ TransferOut(s.token, amount)
  /\ SubAccounted(s.token, amount)
  /\ UNCHANGED <<now, nextId, balance, earnings, recovered, batch, config>>

\* earnings.withdrawals is left as it was.
WithdrawMerchantFunds(p, tok, amount) ==
  /\ Idle
  /\ amount > 0
  /\ tok \in config.accepted
  /\ amount <= balance[p][tok]
  /\ balance' = [balance EXCEPT ![p][tok] = @ - amount]
  /\ TransferOut(tok, amount)
  /\ SubAccounted(tok, amount)
  /\ UNCHANGED <<now, subs, nextId, earnings, recovered, batch, config>>

\* Leaves no trace in earnings.refunds.
MerchantRefundUnrecorded(p, tok, amount) ==
  /\ Idle
  /\ amount > 0
  /\ amount <= balance[p][tok]
  /\ balance' = [balance EXCEPT ![p][tok] = @ - amount]
  /\ TransferOut(tok, amount)
  /\ UNCHANGED <<now, subs, nextId, earnings, accounted, recovered, batch, config>>

\* TotalAccounted is left as it was.
MerchantRefund(p, tok, amount) ==
  /\ Idle
  /\ amount > 0
  /\ amount <= balance[p][tok]
  /\ balance' = [balance EXCEPT ![p][tok] = @ - amount]
  /\ earnings' = [earnings EXCEPT ![p][tok]["refunds"] = @ + amount]
  /\ TransferOut(tok, amount)
  /\ UNCHANGED <<now, subs, nextId, accounted, recovered, batch, config>>

\* Forgets that anything is owed.
RecoverableAll(tok) == vault[tok]

\* What the vault holds beyond what it has on its books.
Recoverable(tok) == vault[tok] - accounted[tok]

\* Admin only; each recovery id works once.
RecoverStrandedFunds(tok, amount, rid) ==
  /\ Idle
  /\ amount > 0
  /\ rid \notin recovered
  /\ amount <= Recoverable(tok)
  /\ recovered' = recovered \cup {rid}
  /\ TransferOut(tok, amount)
  /\ UNCHANGED <<now, subs, nextId, balance, earnings, accounted, batch, config>>

\* Anyone may send tokens to the vault's address without calling it.
DirectTransfer(tok, amount) ==
  /\ Idle
  /\ amount > 0
  /\ TransferIn(tok, amount)
  /\ UNCHANGED <<now, subs, nextId, balance, earnings, accounted, recovered,
                 batch, config>>

-------------------------------------------------------------------------------
(***************************************************************************)
(* Crediting a payee: MerchantBalance and the accrual of the charge kind.  *)
(***************************************************************************)
CreditBalance(b, p, tok, amount) == [b EXCEPT ![p][tok] = @ + amount]
CreditEarnings(e, p, tok, kind, amount) ==
  [e EXCEPT ![p][tok][kind] = @ + amount]

CreditMerchant(s, kind, amount) ==
  /\ balance' = CreditBalance(balance, s.merchant, s.token, amount)
  /\ earnings' = CreditEarnings(earnings, s.merchant, s.token, kind, amount)

\* Rounded down, and only when a treasury is configured.
ProtocolFee(amount) ==
  IF config.fee_bps > 0 /\ config.treasury # None
  THEN (amount * config.fee_bps) \div 10000 ELSE 0

\* Credits the treasury on top of the balances read before the merchant's
\* credit.
CreditSplitStale(s, amount) ==
  LET fee == ProtocolFee(amount)
      b == CreditBalance(balance, s.merchant, s.token, amount - fee)
      e == CreditEarnings(earnings, s.merchant, s.token, "interval",
                          amount - fee)
  IN
  /\ balance' = IF fee > 0
                THEN [b EXCEPT ![config.treasury][s.token] =
                        balance[config.treasury][s.token] + fee] ELSE b
  /\ earnings' = IF fee > 0
                 THEN [e EXCEPT ![config.treasury][s.token]["interval"] =
                         earnings[config.treasury][s.token]["interval"] + fee]
                 ELSE e

\* The merchant's share and then the treasury's, which may be the merchant's
\* own account.
CreditSplit(s, amount) ==
  LET fee == ProtocolFee(amount)
      b == CreditBalance(balance, s.merchant, s.token, amount - fee)
      e == CreditEarnings(earnings, s.merchant, s.token, "interval",
                          amount - fee)
  IN
  /\ balance' = IF fee > 0
                THEN CreditBalance(b, config.treasury, s.token, fee) ELSE b
  /\ earnings' = IF fee > 0
                 THEN CreditEarnings(e, config.treasury, s.token, "interval",
                                     fee)
                 ELSE e

\* Counts only recurring charges against the cap.
DebitedRecurring(s, kind, amount) ==
  LET r == [s EXCEPT !.prepaid = @ - amount,
                     !.charged = IF kind = "one_off" THEN @ ELSE @ + amount,
                     !.billed[kind] = @ + amount]
  IN  IF CapReached(r) THEN [r EXCEPT !.status = Cancelled] ELSE r

\* The record after a charge of `amount`: debit, count against the cap, append
\* a statement row, and cancel once the cap is exhausted.
Debited(s, kind, amount) ==
  LET r == [s EXCEPT !.prepaid = @ - amount, !.charged = @ + amount,
                     !.billed[kind] = @ + amount]
  IN  IF CapReached(r) THEN [r EXCEPT !.status = Cancelled] ELSE r

-------------------------------------------------------------------------------
(***************************************************************************)
(* charge_one: one interval charge.  `a` is the amount in token units.     *)
(***************************************************************************)
\* Rounds down.
Floored(n, d) == n \div d

Ceiling(n, d) == (n + (d - 1)) \div d

UsableReply(reply) ==
  /\ reply.price > 0 /\ reply.timestamp # 0
  /\ now - reply.timestamp <= config.oracle.max_age

QuotedAmount(s, reply) ==
  Ceiling(s.amount * (IF s.token \in config.accepted
                      THEN TokenScale[s.token] ELSE DefaultScale),
          reply.price)

PricedReplies(s) ==
  {reply \in OracleReplies : UsableReply(reply) /\ QuotedAmount(s, reply) > 0}

\* resolve_charge_amount: the amounts an oracle answer resolves to; none when
\* the answer is unusable and the charge fails.
ChargeAmounts(s) ==
  IF config.oracle.enabled
  THEN {QuotedAmount(s, reply) : reply \in PricedReplies(s)} ELSE {s.amount}

\* Without the expiry check; and without the merchant pause.
OpenUnexpiring(s) == ~IsMerchantPaused(s.merchant)
OpenUnpaused(s) == ~IsExpired(s)

\* The guards charge_one passes before it looks at the lifetime cap ...
Open(s) == ~IsMerchantPaused(s.merchant) /\ ~IsExpired(s)

\* Without replay and interval checks.
DueByStatus(s) ==
  Open(s) /\ ~CapReached(s) /\ s.status \in {Active, GracePeriod}

\* ... and those it passes before it compares amount, cap and balance.
Due(s) ==
  /\ Open(s) /\ ~CapReached(s)
  /\ s.status \in {Active, GracePeriod}
  /\ PeriodIndex(s) > s.period
  /\ now >= NextChargeTime(s)

\* Overdraws.
CanPayOverdrawn(s, a) == a >= 0

CanPay(s, a) == a >= 0 /\ a <= s.prepaid

\* An exhausted cap cancels, whatever the interval says.
FinishCapped(id) ==
  LET s == subs[id] IN
  /\ Open(s) /\ CapReached(s) /\ ChargeAmounts(s) # {}
  /\ CanTransition(s.status, Cancelled)
  /\ SetSub(id, [s EXCEPT !.status = Cancelled])
  /\ UNCHANGED ledgerVars

\* A charge that does not fit under the cap cancels and moves no money.
CancelOverCap(id, a) ==
  LET s == subs[id] IN
  /\ Due(s) /\ ~WithinCap(s, a)
  /\ SetSub(id, [s EXCEPT !.status = Cancelled])
  /\ UNCHANGED ledgerVars

\* The debit itself.  It completes when the statement row and the snapshot are
\* accepted: a row must be positive and a closed snapshot is never rewritten.
CanClose(s, a) == a > 0 /\ PeriodIndex(s) \notin s.snaps

\* Counts the next interval from the last due date.
PaidIntervalFromDue(s, a) ==
  Debited([s EXCEPT !.last_payment = @ + s.interval, !.status = Active],
          "interval", a)

PaidInterval(s, a) ==
  Debited([s EXCEPT !.last_payment = PeriodStart(s), !.status = Active],
          "interval", a)

\* Forgets ChargedPeriod.
ClosePeriodUnrecorded(s, k) == [s EXCEPT !.snaps = @ \cup {k}]

\* The closed snapshot, then ChargedPeriod.
ClosePeriod(s, k) == [s EXCEPT !.snaps = @ \cup {k}, !.period = k]

ChargeInterval(id, a) ==
  LET s == subs[id] IN
  /\ Due(s) /\ WithinCap(s, a) /\ CanPay(s, a) /\ CanClose(s, a)
  /\ SetSub(id, ClosePeriod(PaidInterval(s, a), PeriodIndex(s)))
  /\ CreditSplit(s, a)
  /\ UNCHANGED <<accounted, vault, outside>>

\* A grace window that never closes.
GraceStatusForever(s) == IF Grace > 0 THEN GracePeriod ELSE InsufficientBalance

\* Not enough prepaid (or a negative amount): open or close the grace window.
GraceStatus(s) ==
  IF Grace > 0 /\ now < NextChargeTime(s) + Grace
  THEN GracePeriod ELSE InsufficientBalance

ChargeShortfall(id, a) ==
  LET s == subs[id] IN
  /\ Due(s) /\ WithinCap(s, a) /\ ~CanPay(s, a)
  /\ SetSub(id, [s EXCEPT !.status = GraceStatus(s)])
  /\ UNCHANGED ledgerVars

\* The outcomes that charge_one reports as Ok, so that its writes stand.
ChargeOneOk(id) ==
  /\ id \in DOMAIN subs
  /\ \/ FinishCapped(id)
     \/ \E a \in ChargeAmounts(subs[id]) :
          \/ CancelOverCap(id, a)
          \/ ChargeInterval(id, a)
          \/ ChargeShortfall(id, a)

\* charge_subscription: any account may call it.
ChargeSubscription(id) ==
  /\ Idle /\ ~config.stopped
  /\ ChargeOneOk(id)
  /\ UNCHANGED <<now, nextId, recovered, batch, config>>

-------------------------------------------------------------------------------
(***************************************************************************)
(* batch_charge: charge_one on each item in turn.  An item that fails      *)
(* keeps the writes charge_one made before it failed.                      *)
(***************************************************************************)
\* Without the emergency stop.
BatchChargeUnstopped(ids) ==
  /\ Idle
  /\ batch' = ids
  /\ UNCHANGED <<now, subs, nextId, moneyVars, config>>

BatchCharge(ids) ==
  /\ Idle /\ ~config.stopped
  /\ batch' = ids
  /\ UNCHANGED <<now, subs, nextId, moneyVars, config>>

\* SubscriptionExpired, after the new status was stored.
ExpireItem(id) ==
  LET s == subs[id] IN
  /\ id \in DOMAIN subs
  /\ ~IsMerchantPaused(s.merchant) /\ IsExpired(s)
  /\ s.status # Expired /\ CanTransition(s.status, Expired)
  /\ SetSub(id, [s EXCEPT !.status = Expired])
  /\ UNCHANGED ledgerVars

\* The statement row or the snapshot was refused, after the debit was stored:
\* the period stays open.
AbortItem(id, a) ==
  LET s == subs[id] IN
  /\ Due(s) /\ WithinCap(s, a) /\ CanPay(s, a) /\ ~CanClose(s, a)
  /\ SetSub(id, PaidInterval(s, a))
  /\ CreditSplit(s, a)
  /\ UNCHANGED <<accounted, vault, outside>>

\* Every error charge_one returns before its first write.
PricingCanFail(s) == config.oracle.enabled /\ PricedReplies(s) # OracleReplies

RefuseItem(id) ==
  LET s == subs[id] IN
  /\ id \in DOMAIN subs =>
       \/ IsMerchantPaused(s.merchant)
       \/ IsExpired(s) /\ s.status \in Terminal
       \/ Open(s) /\ PricingCanFail(s)
       \/ Open(s) /\ CapReached(s) /\ ~CanTransition(s.status, Cancelled)
       \/ Open(s) /\ ~CapReached(s) /\ ~Due(s)
  /\ UNCHANGED <<subs, ledgerVars>>

BatchItem ==
  LET id == Head(batch) IN
  /\ ~Idle
  /\ batch' = Tail(batch)
  /\ \/ ChargeOneOk(id)
     \/ ExpireItem(id)
     \/ id \in DOMAIN subs /\ \E a \in ChargeAmounts(subs[id]) : AbortItem(id, a)
     \/ RefuseItem(id)
  /\ UNCHANGED <<now, nextId, recovered, config>>

-------------------------------------------------------------------------------
(***************************************************************************)
(* Usage and one-off charges.  The usage limits and the idempotency        *)
(* reference are in module UsageLimits: whatever they hold, an admitted    *)
(* call does what is below and a refused one changes nothing, so here a    *)
(* call may be admitted at any time.                                       *)
(***************************************************************************)
\* The record after a usage charge: an empty balance ends the Active status.
UsageDebited(s, amount) ==
  LET r == Debited(s, "usage", amount)
  IN  IF r.status = Active /\ r.prepaid = 0
      THEN [r EXCEPT !.status = InsufficientBalance] ELSE r

ChargeUsage(id, amount) ==
  LET s == subs[id] IN
  /\ Known(id) /\ ~config.stopped
  /\ Open(s) /\ ~CapReached(s)
  /\ s.status = Active /\ s.usage
  /\ amount > 0 /\ amount <= s.prepaid
  /\ \/ /\ ~WithinCap(s, amount)
        /\ SetSub(id, [s EXCEPT !.status = Cancelled])
        /\ UNCHANGED <<balance, earnings>>
     \/ /\ WithinCap(s, amount)
        /\ SetSub(id, UsageDebited(s, amount))
        /\ CreditMerchant(s, "usage", amount)
  /\ UNCHANGED <<now, nextId, accounted, vault, outside, recovered, batch,
                 config>>

\* Called by the merchant.  An over-cap one-off charge is an error: the
\* cancellation it stored is rolled back.
ChargeOneOff(id, amount) ==
  LET s == subs[id] IN
  /\ Known(id) /\ ~config.stopped
  /\ ~IsExpired(s) /\ ~CapReached(s)
  /\ s.status \in {Active, Paused}
  /\ amount > 0 /\ amount <= s.prepaid
  /\ WithinCap(s, amount)
  /\ SetSub(id, Debited(s, "one_off", amount))
  /\ CreditMerchant(s, "one_off", amount)
  /\ UNCHANGED <<now, nextId, accounted, vault, outside, recovered, batch,
                 config>>

-------------------------------------------------------------------------------
(***************************************************************************)
(* Settings.                                                               *)
(***************************************************************************)
SetConfig(c) ==
  /\ Idle
  /\ config' = c
  /\ UNCHANGED <<now, subs, nextId, moneyVars, batch>>

EnableEmergencyStop  == SetConfig([config EXCEPT !.stopped = TRUE])
DisableEmergencyStop == SetConfig([config EXCEPT !.stopped = FALSE])
SetMinTopup(m)       == SetConfig([config EXCEPT !.min_topup = m])
SetProtocolFee(t, bps) ==
  SetConfig([config EXCEPT !.treasury = t, !.fee_bps = bps])
SetOracleConfig(enabled, age) ==
  SetConfig([config EXCEPT !.oracle = [enabled |-> enabled, max_age |-> age]])

\* Either switch pauses a merchant, but pause_merchant does nothing while one
\* of them is on, and unpause_merchant only clears its own.
PauseMerchant(m) ==
  /\ ~IsMerchantPaused(m)
  /\ SetConfig([config EXCEPT !.flag_paused = @ \cup {m}])
UnpauseMerchant(m) ==
  /\ IsMerchantPaused(m)
  /\ SetConfig([config EXCEPT !.flag_paused = @ \ {m}])
SetMerchantConfig(m, paused) ==
  SetConfig([config EXCEPT !.config_paused =
               IF paused THEN @ \cup {m} ELSE @ \ {m}])

\* By the admin, or by a merchant with a subscription that is not Cancelled.
AddToBlocklist(subscriber) ==
  /\ ~IsBlocklisted(subscriber)
  /\ SetConfig([config EXCEPT !.blocklist = @ \cup {subscriber}])
RemoveFromBlocklist(subscriber) ==
  /\ subscriber \in config.blocklist
  /\ SetConfig([config EXCEPT !.blocklist = @ \ {subscriber}])

AddAcceptedToken(tok) == SetConfig([config EXCEPT !.accepted = @ \cup {tok}])
RemoveAcceptedToken(tok) ==
  /\ tok # DefaultToken
  /\ SetConfig([config EXCEPT !.accepted = @ \ {tok}])

SetGlobalCapDefault(cap) == SetConfig([config EXCEPT !.cap_default = cap])
SetMerchantCapDefault(m, cap) ==
  SetConfig([config EXCEPT !.merch_cap[m] = cap])
SetSubscriberCreditLimit(subscriber, tok, limit) ==
  SetConfig([config EXCEPT !.credit_limit[subscriber][tok] = limit])
SetPlanMaxActiveSubs(p, max) == SetConfig([config EXCEPT !.plan_max[p] = max])

\* The ledger closes at a later time.  Ledgers do not close inside a call.
Tick ==
  /\ Idle
  /\ now < MaxTime
  /\ now' = now + 1
  /\ UNCHANGED <<subs, nextId, moneyVars, batch, config>>

-------------------------------------------------------------------------------
BatchLists == UNION {[1 .. n -> Ids] : n \in 1 .. MaxBatch}

CreateNext ==
  \/ \E c \in Subscribers, m \in Merchants, tok \in Tokens, a \in Amounts,
        i \in Intervals, u \in BOOLEAN, cap \in Caps, e \in Expiries :
       CreateSubscription(c, m, tok, a, i, u, cap, e)
  \/ \E c \in Subscribers, p \in DOMAIN Plans : CreateSubscriptionFromPlan(c, p)

LifecycleNext ==
  \E id \in Ids :
    \/ \E p \in DOMAIN Plans : MigrateSubscriptionToPlan(id, p)
    \/ \E who \in Subscribers \cup Merchants :
         \/ CancelSubscription(id, who)
         \/ PauseSubscription(id, who)
         \/ ResumeSubscription(id, who)
    \/ CleanupSubscription(id)

UsageNext == \E id \in Ids, v \in Values : ChargeUsage(id, v)

BillNext ==
  \/ \E id \in Ids :
       \/ ChargeSubscription(id)
       \/ \E v \in Values : ChargeOneOff(id, v)
  \/ \E ids \in BatchLists : BatchCharge(ids)
  \/ BatchItem

ChargeNext == UsageNext \/ BillNext

FundsNext ==
  \E v \in Values :
    \/ \E id \in Ids : DepositFunds(id, v) \/ PartialRefund(id, v)
    \/ \E p \in Payees, tok \in Tokens :
         WithdrawMerchantFunds(p, tok, v) \/ MerchantRefund(p, tok, v)
    \/ \E tok \in Tokens :
         \/ DirectTransfer(tok, v)
         \/ \E rid \in RecoveryIds : RecoverStrandedFunds(tok, v, rid)

ReclaimNext == \E id \in Ids : WithdrawSubscriberFunds(id)

\* Switches that close parts of the contract.
GateNext ==
  \/ EnableEmergencyStop \/ DisableEmergencyStop
  \/ \E m \in Merchants :
       \/ PauseMerchant(m) \/ UnpauseMerchant(m)
       \/ \E paused \in BOOLEAN : SetMerchantConfig(m, paused)
  \/ \E c \in Subscribers : AddToBlocklist(c) \/ RemoveFromBlocklist(c)

\* Tokens, prices, fees and limits.
TermsNext ==
  \/ \E tok \in Tokens : AddAcceptedToken(tok) \/ RemoveAcceptedToken(tok)
  \/ \E m \in MinTopups : SetMinTopup(m)
  \/ \E t \in Treasuries, bps \in FeeBps : SetProtocolFee(t, bps)
  \/ \E on \in BOOLEAN, age \in MaxAges : SetOracleConfig(on, age)
  \/ \E cap \in CapDefaults :
       \/ SetGlobalCapDefault(cap)
       \/ \E m \in Merchants : SetMerchantCapDefault(m, cap)
  \/ \E c \in Subscribers, tok \in Tokens, limit \in CreditLimits :
       SetSubscriberCreditLimit(c, tok, limit)
  \/ \E p \in DOMAIN Plans, max \in PlanLimits : SetPlanMaxActiveSubs(p, max)

CoreNext == Tick \/ CreateNext \/ LifecycleNext \/ ChargeNext \/ FundsNext
              \/ ReclaimNext
Next == CoreNext \/ GateNext \/ TermsNext

Spec == Init /\ [][Next]_vars
===============================================================================
