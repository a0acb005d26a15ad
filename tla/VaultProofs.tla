------------------------------ MODULE VaultProofs ------------------------------
(***************************************************************************)
(* Proofs about Vault, for every value of its constants.                   *)
(*                                                                         *)
(* The argument goes through SubStep: whatever entry point runs, one       *)
(* subscription changes in one of seven ways, each with the guard that the *)
(* code checked first.  StepIsSound shows that for every action; the       *)
(* invariants and action properties about one subscription at a time then  *)
(* follow from SubStep and are not proved action by action again.          *)
(***************************************************************************)
EXTENDS VaultProperties, FiniteSetTheorems, TLAPS

-------------------------------------------------------------------------------
(***************************************************************************)
(* How one subscription record may change.                                 *)
(***************************************************************************)
Waiting == {InsufficientBalance, GracePeriod}

\* Only the status: a transition of the state machine, or both steps of
\* cleanup.  What starts to wait for money could not pay.
Restatused(s, t) ==
  \E st \in Statuses :
    /\ \/ CanTransition(s.status, st)
       \/ st = Archived /\ IsExpired(s) /\ CanTransition(s.status, Expired)
    /\ st \in Waiting =>
         \E a \in ChargeAmounts(s) : ~CanPay(s, a)
    /\ t = [s EXCEPT !.status = st]

Deposited(s, t) ==
  \E a \in Nat : /\ ~config.stopped /\ ~IsMerchantPaused(s.merchant)
                 /\ ~IsBlocklisted(s.subscriber) /\ DepositWithinCap(s, a)
                 /\ t = ToppedUp(s, a)

Returned(s, t) ==
  \E a \in Nat : a <= s.prepaid /\ t = [s EXCEPT !.prepaid = @ - a]

Migrated(s, t) ==
  \E p \in DOMAIN Plans :
    /\ s.plan # None /\ ~IsBlocklisted(s.subscriber)
    /\ Plans[p].cap # None => s.charged <= Plans[p].cap
    /\ t = OnPlan(s, p)

\* The record of an interval charge, closed or (in a batch) left open.
IntervalCharged(s, t) ==
  \E a \in Nat : /\ ~config.stopped
                 /\ Due(s) /\ WithinCap(s, a) /\ a <= s.prepaid
                 /\ a \in ChargeAmounts(s) /\ CanClose(s, a)
                 /\ t = ClosePeriod(PaidInterval(s, a), PeriodIndex(s))
IntervalAborted(s, t) ==
  \E a \in Nat : /\ ~config.stopped
                 /\ Due(s) /\ WithinCap(s, a) /\ a <= s.prepaid
                 /\ a \in ChargeAmounts(s) /\ ~CanClose(s, a)
                 /\ t = PaidInterval(s, a)

\* Usage and one-off charges; an emptied subscription may wait for money.
Spent(s, t) ==
  \E a \in Nat, k \in Kinds \ {"interval"} :
    /\ ~config.stopped /\ ~IsExpired(s) /\ WithinCap(s, a) /\ a <= s.prepaid
    /\ s.status \in {Active, Paused}
    /\ k # "one_off" => ~IsMerchantPaused(s.merchant)
    /\ LET r == Debited(s, k, a) IN
       \/ t = r
       \/ s.status = Active /\ r.status = Active /\ r.prepaid = 0
          /\ t = [r EXCEPT !.status = InsufficientBalance]

SubStep(s, t) ==
  \/ Restatused(s, t) \/ Deposited(s, t) \/ Returned(s, t) \/ Migrated(s, t)
  \/ IntervalCharged(s, t) \/ IntervalAborted(s, t) \/ Spent(s, t)

\* A record as Allocate writes it.
Fresh(s) ==
  /\ s \in Subscription
  /\ s.charged = 0 /\ s.prepaid = 0 /\ s.snaps = {} /\ s.period = 0
  /\ s.billed = [k \in Kinds |-> 0]
  /\ s.start = now /\ s.last_payment = now
  /\ s.plan = None => s.amount > 0
  /\ ~IsBlocklisted(s.subscriber)

\* How the set of subscriptions may change in one step.
SubsStep ==
  \/ subs' = subs /\ nextId' = nextId
  \/ /\ nextId' = nextId
     /\ \E id \in DOMAIN subs, t \in Subscription :
          SubStep(subs[id], t) /\ subs' = [subs EXCEPT ![id] = t]
  \/ /\ ~config.stopped
     /\ nextId < MAX_SUBSCRIPTION_ID /\ nextId' = nextId + 1
     /\ \E s \in Subscription :
          /\ Fresh(s)
          /\ subs' = [id \in 0 .. nextId |-> IF id # nextId THEN subs[id] ELSE s]

-------------------------------------------------------------------------------
(***************************************************************************)
(* The values that charges and updates compute are well-typed.             *)
(***************************************************************************)
LEMMA PeriodIndexNat ==
  ASSUME NEW s \in Subscription, now \in Nat
  PROVE  PeriodIndex(s) \in Nat
<1>1. s.start \in Nat /\ s.interval \in Nat \ {0}
  BY DEF Subscription
<1> QED
  BY <1>1, SMT DEF PeriodIndex

\* The billing date of a period is a natural number.
LEMMA PeriodStartNat ==
  ASSUME NEW s \in Subscription, now \in Nat
  PROVE  PeriodStart(s) \in Nat
<1>1. s.start \in Nat /\ s.interval \in Nat \ {0}
  BY DEF Subscription
<1>2. PeriodIndex(s) \in Nat
  BY PeriodIndexNat
<1> QED
  BY <1>1, <1>2, SMT DEF PeriodStart

\* Writing a status, or a prepaid balance, keeps the record well-typed.
LEMMA StatusType ==
  ASSUME NEW s \in Subscription, NEW st \in Statuses
  PROVE  [s EXCEPT !.status = st] \in Subscription
  BY DEF Subscription

\* So does writing a prepaid balance.
LEMMA PrepaidType ==
  ASSUME NEW s \in Subscription, NEW b \in Nat
  PROVE  [s EXCEPT !.prepaid = b] \in Subscription
  BY DEF Subscription

\* Charging what is prepaid keeps the record well-typed.
LEMMA DebitedType ==
  ASSUME NEW s \in Subscription, NEW kind \in Kinds, NEW a \in Nat,
         a <= s.prepaid
  PROVE  Debited(s, kind, a) \in Subscription
<1> DEFINE b == [s.billed EXCEPT ![kind] = @ + a]
           r == [s EXCEPT !.prepaid = @ - a, !.charged = @ + a, !.billed = b]
<1>1. s.prepaid - a \in Nat /\ s.charged + a \in Nat
  BY DEF Subscription
<1>2. b \in [Kinds -> Nat]
  BY DEF Subscription
<1>3. r \in Subscription
  <2> HIDE DEF b
  <2> QED BY <1>1, <1>2 DEF Subscription
<1>4. Debited(s, kind, a) \in {r, [r EXCEPT !.status = Cancelled]}
  <2>1. r = [s EXCEPT !.prepaid = @ - a, !.charged = @ + a, !.billed[kind] = @ + a]
    BY DEF Subscription
  <2> QED BY <2>1 DEF Debited
<1>5. [r EXCEPT !.status = Cancelled] \in Subscription
  <2> HIDE DEF r
  <2> QED BY <1>3, StatusType DEF Statuses
<1> QED
  BY <1>3, <1>4, <1>5

\* A top-up keeps the record well-typed, revived or not.
LEMMA ToppedUpType ==
  ASSUME NEW s \in Subscription, NEW a \in Nat
  PROVE  ToppedUp(s, a) \in Subscription
<1> DEFINE st == IF /\ s.status \in {InsufficientBalance, GracePeriod}
                    /\ s.prepaid + a >= s.amount
                 THEN Active ELSE s.status
<1>1. st \in Statuses /\ s.prepaid + a \in Nat
  BY DEF Subscription, Statuses
<1>2. ToppedUp(s, a) = [s EXCEPT !.prepaid = s.prepaid + a, !.status = st]
  BY DEF Subscription, ToppedUp
<1> HIDE DEF st
<1> QED
  BY <1>1, <1>2 DEF Subscription

\* So does the debit of an interval charge ...
LEMMA PaidIntervalType ==
  ASSUME NEW s \in Subscription, NEW a \in Nat, a <= s.prepaid, now \in Nat
  PROVE  PaidInterval(s, a) \in Subscription
<1> DEFINE r == [s EXCEPT !.last_payment = PeriodStart(s), !.status = Active]
<1>1. r \in Subscription /\ r.prepaid = s.prepaid
  BY PeriodStartNat DEF Subscription, Statuses
<1> HIDE DEF r
<1>2. Debited(r, "interval", a) \in Subscription
  BY <1>1, DebitedType DEF Kinds
<1> QED
  BY <1>2 DEF PaidInterval, r

\* ... and closing the period.
LEMMA ClosePeriodType ==
  ASSUME NEW s \in Subscription, NEW k \in Nat
  PROVE  ClosePeriod(s, k) \in Subscription
<1>1. s.snaps \cup {k} \in SUBSET Nat
  BY DEF Subscription
<1>2. ClosePeriod(s, k) = [s EXCEPT !.snaps = s.snaps \cup {k}, !.period = k]
  BY DEF ClosePeriod, Subscription
<1> QED
  BY <1>1, <1>2 DEF Subscription

\* The fields of a plan template.
LEMMA PlanType ==
  ASSUME NEW p \in DOMAIN Plans
  PROVE  /\ Plans[p].cap \in (Nat \ {0}) \cup {None} /\ Plans[p].amount \in Int
         /\ Plans[p].interval \in Nat \ {0} /\ Plans[p].usage \in BOOLEAN
         /\ Plans[p].merchant \in Merchants /\ Plans[p].token \in Tokens
         /\ p # None
<1>1. Plans[p] \in PlanTemplate /\ p # None
  BY VaultAssumption DEF VaultAssumption
<1> QED
  BY <1>1 DEF PlanTemplate

\* A migrated record is well-typed.
LEMMA OnPlanType ==
  ASSUME NEW s \in Subscription, NEW p \in DOMAIN Plans
  PROVE  OnPlan(s, p) \in Subscription
<1>1. PICK cap \in Nat \cup {None}, amount \in Int, interval \in Nat \ {0} :
        cap = Plans[p].cap /\ amount = Plans[p].amount
          /\ interval = Plans[p].interval
  BY PlanType
<1>2. OnPlan(s, p) = [s EXCEPT !.cap = cap, !.amount = amount,
                               !.interval = interval, !.plan = p]
  BY <1>1 DEF OnPlan
<1>3. PICK plans : plans = (DOMAIN Plans) \cup {None}
  OBVIOUS
<1>4. [s EXCEPT !.cap = cap, !.amount = amount, !.interval = interval,
                !.plan = p] \in Subscription
  BY <1>3 DEF Subscription
<1> QED
  BY <1>2, <1>4

\* Each of the seven ways leads to a well-typed record.
LEMMA SubStepType ==
  ASSUME NEW s \in Subscription, NEW t, now \in Nat, SubStep(s, t)
  PROVE  t \in Subscription
<1>1. CASE Restatused(s, t)
  BY <1>1, StatusType DEF Restatused
<1>2. CASE Deposited(s, t)
  BY <1>2, ToppedUpType DEF Deposited
<1>3. CASE Returned(s, t)
  <2>1. PICK a \in Nat : a <= s.prepaid /\ t = [s EXCEPT !.prepaid = @ - a]
    BY <1>3 DEF Returned
  <2>2. s.prepaid \in Nat
    BY DEF Subscription
  <2>3. s.prepaid - a \in Nat /\ t = [s EXCEPT !.prepaid = s.prepaid - a]
    BY <2>1, <2>2
  <2> QED BY <2>3, PrepaidType
<1>4. CASE Migrated(s, t)
  BY <1>4, OnPlanType DEF Migrated
<1>5. CASE IntervalCharged(s, t)
  BY <1>5, PaidIntervalType, PeriodIndexNat, ClosePeriodType DEF IntervalCharged
<1>6. CASE IntervalAborted(s, t)
  BY <1>6, PaidIntervalType DEF IntervalAborted
<1>7. CASE Spent(s, t)
  <2>1. PICK a \in Nat, k \in Kinds :
          /\ a <= s.prepaid
          /\ \/ t = Debited(s, k, a)
             \/ t = [Debited(s, k, a) EXCEPT !.status = InsufficientBalance]
    BY <1>7 DEF Spent
  <2>2. Debited(s, k, a) \in Subscription
    BY <2>1, DebitedType
  <2> QED
    BY <2>1, <2>2, StatusType DEF Statuses
<1> QED
  BY <1>1, <1>2, <1>3, <1>4, <1>5, <1>6, <1>7 DEF SubStep

-------------------------------------------------------------------------------
(***************************************************************************)
(* Every action changes at most one subscription, and by SubStep.          *)
(***************************************************************************)
LEMMA EarningsType ==
  ASSUME NEW e \in [Payees -> [Tokens -> [EarningFields -> Nat]]],
         NEW p \in Payees, NEW tok \in Tokens, NEW f \in EarningFields,
         NEW a \in Nat
  PROVE  CreditEarnings(e, p, tok, f, a)
           \in [Payees -> [Tokens -> [EarningFields -> Nat]]]
<1>1. [e[p][tok] EXCEPT ![f] = @ + a] \in [EarningFields -> Nat]
  OBVIOUS
<1>2. [e[p] EXCEPT ![tok] = [e[p][tok] EXCEPT ![f] = @ + a]]
        \in [Tokens -> [EarningFields -> Nat]]
  BY <1>1
<1> QED
  BY <1>2 DEF CreditEarnings

\* Crediting a charge to a payee keeps balances and earnings well-typed.
LEMMA CreditTypes ==
  ASSUME NEW b \in [Payees -> [Tokens -> Nat]],
         NEW e \in [Payees -> [Tokens -> [EarningFields -> Nat]]],
         NEW p \in Payees, NEW tok \in Tokens, NEW kind \in Kinds, NEW a \in Nat
  PROVE  /\ CreditBalance(b, p, tok, a) \in [Payees -> [Tokens -> Nat]]
         /\ CreditEarnings(e, p, tok, kind, a)
              \in [Payees -> [Tokens -> [EarningFields -> Nat]]]
<1>1. kind \in EarningFields
  BY DEF EarningFields
<1>2. [b[p] EXCEPT ![tok] = @ + a] \in [Tokens -> Nat]
  OBVIOUS
<1> QED
  BY <1>1, <1>2, EarningsType DEF CreditBalance

\* A known subscription has a record, and the clock is a number.
LEMMA KnownType ==
  ASSUME TypeOK, NEW id \in DOMAIN subs
  PROVE  subs[id] \in Subscription /\ now \in Nat
  BY DEF TypeOK

\* Writing the record of one subscription by SubStep is a SubsStep.
LEMMA OneSub ==
  ASSUME TypeOK, NEW id \in DOMAIN subs, NEW t, SubStep(subs[id], t),
         SetSub(id, t), nextId' = nextId
  PROVE  SubsStep
<1>1. t \in Subscription
  BY KnownType, SubStepType
<1> QED
  BY <1>1 DEF SubsStep, SetSub

\* A resolved cap is a stored default or the explicit argument.
LEMMA ResolveCapType ==
  ASSUME TypeOK, NEW m \in Merchants, NEW cap \in Int \cup {None}
  PROVE  ResolveCap(m, cap) \in Nat \cup {None} \/ ResolveCap(m, cap) = cap
<1>1. config.cap_default \in Nat \cup {None}
  BY DEF TypeOK, Config
<1>2. config.merch_cap \in [Merchants -> Nat \cup {None}]
  BY DEF TypeOK, Config, CapTable
<1> QED
  BY <1>1, <1>2 DEF ResolveCap

\* Allocation adds one fresh subscription.
LEMMA AllocateStep ==
  ASSUME TypeOK, ~config.stopped,
         NEW subscriber \in Subscribers, NEW m \in Merchants, NEW tok \in Tokens,
         NEW amount \in Int, NEW interval \in Nat \ {0}, NEW usage \in BOOLEAN,
         NEW cap \in Nat \cup {None}, NEW expires \in Nat \cup {None},
         NEW plan \in (DOMAIN Plans) \cup {None},
         ~IsBlocklisted(subscriber), plan = None => amount > 0,
         Allocate(subscriber, m, tok, amount, interval, usage, cap, expires, plan)
  PROVE  SubsStep
<1> DEFINE zero == [k \in Kinds |-> 0]
           s == [subscriber |-> subscriber, merchant |-> m, token |-> tok,
                 amount |-> amount, interval |-> interval, last_payment |-> now,
                 status |-> Active, prepaid |-> 0, usage |-> usage, cap |-> cap,
                 charged |-> 0, start |-> now, expires |-> expires,
                 plan |-> plan, period |-> 0, snaps |-> {}, billed |-> zero]
<1>1. now \in Nat /\ zero \in [Kinds -> Nat] /\ Active \in Statuses
      /\ {} \in SUBSET Nat
  BY DEF TypeOK, Statuses
<1>2. s \in Subscription
  <2> HIDE DEF zero
  <2> QED BY <1>1 DEF Subscription
<1>3. Fresh(s)
  BY <1>2 DEF Fresh
<1>4. /\ nextId < MAX_SUBSCRIPTION_ID /\ nextId' = nextId + 1
      /\ subs' = [id \in 0 .. nextId |-> IF id # nextId THEN subs[id] ELSE s]
  BY DEF Allocate
<1> HIDE DEF s
<1> QED
  BY <1>2, <1>3, <1>4 DEF SubsStep

\* Both ways of creating a subscription validate what Fresh says.
LEMMA CreateStep ==
  ASSUME TypeOK, CreateNext
  PROVE  SubsStep /\ UNCHANGED <<now, moneyVars, batch, config>>
<1>1. ASSUME NEW c \in Subscribers, NEW m \in Merchants, NEW tok \in Tokens,
             NEW a \in Amounts, NEW i \in Intervals, NEW u \in BOOLEAN,
             NEW cap \in Caps, NEW e \in Expiries,
             CreateSubscription(c, m, tok, a, i, u, cap, e)
      PROVE  SubsStep /\ UNCHANGED <<now, moneyVars, batch, config>>
  <2> DEFINE rc == ResolveCap(m, cap)
  <2>1. /\ a \in Int /\ i \in Nat /\ cap \in Int \cup {None}
        /\ e \in Nat \cup {None} /\ MinInterval \in Nat \ {0}
        /\ MaxInterval \in Nat
    BY VaultAssumption DEF VaultAssumption
  <2>2. /\ ~config.stopped /\ ~IsBlocklisted(c) /\ a > 0 /\ ValidInterval(i)
        /\ rc # None => rc > 0
        /\ Allocate(c, m, tok, a, i, u, rc, e, None)
        /\ UNCHANGED <<now, moneyVars, batch, config>>
    BY <1>1 DEF CreateSubscription
  <2>3. i \in Nat \ {0}
    BY <2>1, <2>2 DEF ValidInterval
  <2>4. rc \in Nat \cup {None}
    <3>1. rc \in Nat \cup {None} \/ rc = cap
      BY <2>1, ResolveCapType
    <3> HIDE DEF rc
    <3> QED BY <2>1, <2>2, <3>1
  <2> HIDE DEF rc
  <2>5. SubsStep
    BY <2>1, <2>2, <2>3, <2>4, AllocateStep
  <2> QED BY <2>2, <2>5
<1>2. ASSUME NEW c \in Subscribers, NEW p \in DOMAIN Plans,
             CreateSubscriptionFromPlan(c, p)
      PROVE  SubsStep /\ UNCHANGED <<now, moneyVars, batch, config>>
  <2> DEFINE plan == Plans[p]
             rc == ResolveCap(plan.merchant, plan.cap)
  <2>1. /\ ~config.stopped /\ ~IsBlocklisted(c)
        /\ Allocate(c, plan.merchant, plan.token, plan.amount, plan.interval,
                    plan.usage, rc, None, p)
        /\ UNCHANGED <<now, moneyVars, batch, config>>
    BY <1>2 DEF CreateSubscriptionFromPlan
  <2>2. rc \in Nat \cup {None}
    BY PlanType, ResolveCapType
  <2>3. /\ plan.merchant \in Merchants /\ plan.token \in Tokens
        /\ plan.amount \in Int /\ plan.interval \in Nat \ {0}
        /\ plan.usage \in BOOLEAN /\ None \in Nat \cup {None}
        /\ p \in (DOMAIN Plans) \cup {None} /\ p # None
    BY PlanType
  <2> HIDE DEF rc, plan
  <2>4. SubsStep
    BY <2>1, <2>2, <2>3, AllocateStep
  <2> QED BY <2>1, <2>4
<1> QED
  BY <1>1, <1>2 DEF CreateNext

\* No call but a charge leaves a subscription waiting for money.
LEMMA NotWaiting ==
  /\ Active \notin Waiting /\ Paused \notin Waiting /\ Cancelled \notin Waiting
  /\ Expired \notin Waiting /\ Archived \notin Waiting
  BY DEF Waiting, Active, Paused, Cancelled, InsufficientBalance, GracePeriod,
         Expired, Archived

\* Migration, cancel, pause, resume and cleanup change one subscription.
LEMMA LifecycleStep ==
  ASSUME TypeOK, LifecycleNext
  PROVE  SubsStep /\ UNCHANGED <<now, moneyVars, batch, config>>
<1>1. ASSUME NEW id \in Ids, NEW p \in DOMAIN Plans,
             MigrateSubscriptionToPlan(id, p)
      PROVE  SubsStep /\ UNCHANGED <<now, moneyVars, batch, config>>
  <2>1. Migrated(subs[id], OnPlan(subs[id], p))
    BY <1>1, Zenon DEF MigrateSubscriptionToPlan, Migrated
  <2> QED
    BY <1>1, <2>1, OneSub DEF MigrateSubscriptionToPlan, Known, SubStep
<1> DEFINE restatused(id, st) ==
      /\ id \in DOMAIN subs
      /\ Restatused(subs[id], [subs[id] EXCEPT !.status = st])
      /\ SetSub(id, [subs[id] EXCEPT !.status = st])
      /\ UNCHANGED <<now, nextId, moneyVars, batch, config>>
<1>2. ASSUME NEW id \in Ids, NEW st, restatused(id, st)
      PROVE  SubsStep /\ UNCHANGED <<now, moneyVars, batch, config>>
  BY <1>2, OneSub DEF SubStep
<1>3. ASSUME NEW id \in Ids, NEW who, CancelSubscription(id, who)
      PROVE  restatused(id, Cancelled)
  BY <1>3, NotWaiting DEF CancelSubscription, Known, Restatused, Statuses
<1>4. ASSUME NEW id \in Ids, NEW who, PauseSubscription(id, who)
      PROVE  restatused(id, Paused)
  BY <1>4, NotWaiting DEF PauseSubscription, Known, Restatused, Statuses
<1>5. ASSUME NEW id \in Ids, NEW who, ResumeSubscription(id, who)
      PROVE  restatused(id, Active)
  BY <1>5, NotWaiting DEF ResumeSubscription, Known, Restatused, Statuses
<1>6. ASSUME NEW id \in Ids, CleanupSubscription(id)
      PROVE  restatused(id, Archived)
  <2>1. /\ id \in DOMAIN subs
        /\ SetSub(id, [subs[id] EXCEPT !.status = Archived])
        /\ UNCHANGED <<now, nextId, moneyVars, batch, config>>
        /\ subs[id].status = Cancelled \/ IsExpired(subs[id])
    BY <1>6 DEF CleanupSubscription, Known
  <2>2. \/ CanTransition(subs[id].status, Archived)
        \/ /\ subs[id].status \notin {Cancelled, Expired, Archived}
           /\ CanTransition(subs[id].status, Expired)
    BY <1>6 DEF CleanupSubscription, Known
  <2> QED
    BY <2>1, <2>2, NotWaiting DEF Restatused, Statuses, Cancelled, Expired, Archived
<1> HIDE DEF restatused
<1> QED
  BY <1>1, <1>2, <1>3, <1>4, <1>5, <1>6 DEF LifecycleNext

-------------------------------------------------------------------------------
(***************************************************************************)
(* Charges.                                                                *)
(***************************************************************************)
MoneyOK ==
  /\ balance \in [Payees -> [Tokens -> Nat]]
  /\ earnings \in [Payees -> [Tokens -> [EarningFields -> Nat]]]
  /\ accounted \in [Tokens -> Int]
  /\ vault \in [Tokens -> Nat]
  /\ outside \in [Tokens -> Nat]
  /\ recovered \subseteq RecoveryIds

\* The protocol fee is a part of the charge, and is due only to a treasury.
LEMMA FeeBound ==
  ASSUME TypeOK, NEW a \in Nat
  PROVE  /\ ProtocolFee(a) \in Nat /\ ProtocolFee(a) <= a
         /\ ProtocolFee(a) > 0 => config.treasury \in Treasuries
<1>1. PICK bps \in Nat : bps = config.fee_bps /\ bps <= 10000
  <2>1. config.fee_bps \in BasisPoints
    BY DEF TypeOK, Config
  <2>2. \A b \in BasisPoints : b \in Nat /\ b <= 10000
    BY DEF BasisPoints
  <2>3. config.fee_bps \in Nat /\ config.fee_bps <= 10000
    BY <2>1, <2>2
  <2> QED BY <2>3
<1>2. config.treasury # None => config.treasury \in Treasuries
  <2>1. config.treasury \in TreasuryKey
    BY DEF TypeOK, Config
  <2> QED BY <2>1 DEF TreasuryKey
<1>3. PICK n \in Nat : n = a * bps
  BY SMT
<1>4. a * (10000 - bps) >= 0
  BY <1>1, SMT
<1>5. a * (10000 - bps) = a * 10000 - a * bps
  BY SMT
<1>6. n <= a * 10000
  BY <1>3, <1>4, <1>5, SMT
<1>7. PICK share \in Nat : share = n \div 10000 /\ share <= a
  BY <1>6, SMT
<1>8. ProtocolFee(a) = IF bps > 0 /\ config.treasury # None THEN share ELSE 0
  BY <1>1, <1>3, <1>7, SMTT(30) DEF ProtocolFee
<1>9. CASE bps > 0 /\ config.treasury # None
  <2>1. ProtocolFee(a) = share
    BY <1>8, <1>9
  <2> QED BY <1>2, <1>7, <1>9, <2>1
<1>10. CASE ~(bps > 0 /\ config.treasury # None)
  <2>1. ProtocolFee(a) = 0
    BY <1>8, <1>10
  <2> QED BY <2>1
<1> QED
  BY <1>9, <1>10

\* The fee split keeps balances and earnings well-typed.
LEMMA CreditSplitType ==
  ASSUME TypeOK, NEW s \in Subscription, NEW a \in Nat, CreditSplit(s, a)
  PROVE  /\ balance' \in [Payees -> [Tokens -> Nat]]
         /\ earnings' \in [Payees -> [Tokens -> [EarningFields -> Nat]]]
<1> DEFINE fee == ProtocolFee(a)
<1>2. fee \in Nat /\ fee <= a /\ (fee > 0 => config.treasury \in Treasuries)
  BY FeeBound
<1>3. a - fee \in Nat
  BY <1>2
<1>4. s.merchant \in Payees /\ s.token \in Tokens /\ "interval" \in Kinds
      /\ (fee > 0 => config.treasury \in Payees)
  BY <1>2 DEF Subscription, Payees, Kinds
<1> DEFINE b == CreditBalance(balance, s.merchant, s.token, a - fee)
           e == CreditEarnings(earnings, s.merchant, s.token, "interval", a - fee)
<1>5. /\ b \in [Payees -> [Tokens -> Nat]]
      /\ e \in [Payees -> [Tokens -> [EarningFields -> Nat]]]
  BY <1>3, <1>4, CreditTypes DEF TypeOK
<1>6. /\ balance' = IF fee > 0
                    THEN CreditBalance(b, config.treasury, s.token, fee) ELSE b
      /\ earnings' = IF fee > 0
                     THEN CreditEarnings(e, config.treasury, s.token, "interval",
                                         fee)
                     ELSE e
  BY DEF CreditSplit
<1> HIDE DEF b, e, fee
<1> QED
  BY <1>2, <1>4, <1>5, <1>6, CreditTypes

\* A charge amount is an integer, quoted or not.
LEMMA AmountInt ==
  ASSUME TypeOK, NEW s \in Subscription, NEW a \in ChargeAmounts(s)
  PROVE  a \in Int
<1>1. s.amount \in Int /\ s.token \in Tokens
  BY DEF Subscription
<1>2. ASSUME NEW reply \in PricedReplies(s)
      PROVE  QuotedAmount(s, reply) \in Int
  <2>1. reply.price \in Int /\ reply.price > 0
    BY VaultAssumption DEF VaultAssumption, PricedReplies, UsableReply
  <2>2. PICK scale \in Int :
          scale = IF s.token \in config.accepted
                  THEN TokenScale[s.token] ELSE DefaultScale
    BY <1>1, VaultAssumption DEF VaultAssumption
  <2>3. PICK worth \in Int : worth = s.amount * scale
    BY <1>1, SMT
  <2>4. QuotedAmount(s, reply)
          = (worth + (reply.price - 1)) \div reply.price
    BY <2>2, <2>3, Zenon DEF QuotedAmount, Ceiling
  <2>5. (worth + (reply.price - 1)) \div reply.price \in Int
    BY <2>1, SMT
  <2> QED BY <2>4, <2>5
<1> QED
  BY <1>1, <1>2 DEF ChargeAmounts

\* The transitions charge_one and batch_charge make without asking first.
LEMMA ChargeTransitions ==
  ASSUME NEW st \in {Active, GracePeriod}
  PROVE  /\ CanTransition(st, Cancelled) /\ CanTransition(st, GracePeriod)
         /\ CanTransition(st, InsufficientBalance) /\ CanTransition(st, Active)
  BY DEF CanTransition, AllowedTransitions, Active, Paused, Cancelled,
         InsufficientBalance, GracePeriod, Expired, Archived

\* What a charge_one that reports Ok, or an item of a batch, may change.
LEMMA ChargeOneStep ==
  ASSUME TypeOK, ~config.stopped, NEW id, ChargeOneOk(id)
  PROVE  /\ id \in DOMAIN subs
         /\ \E t : SubStep(subs[id], t) /\ SetSub(id, t)
         /\ balance' \in [Payees -> [Tokens -> Nat]]
         /\ earnings' \in [Payees -> [Tokens -> [EarningFields -> Nat]]]
         /\ UNCHANGED <<accounted, vault, outside>>
<1> DEFINE s == subs[id]
<1>1. id \in DOMAIN subs
  BY DEF ChargeOneOk
<1>2. s \in Subscription /\ now \in Nat
  BY <1>1, KnownType
<1>3. ASSUME NEW st \in Statuses, CanTransition(s.status, st),
             st \in Waiting => \E a \in ChargeAmounts(s) : ~CanPay(s, a),
             SetSub(id, [s EXCEPT !.status = st]), UNCHANGED ledgerVars
      PROVE  /\ \E t : SubStep(s, t) /\ SetSub(id, t)
             /\ balance' \in [Payees -> [Tokens -> Nat]]
             /\ earnings' \in [Payees -> [Tokens -> [EarningFields -> Nat]]]
             /\ UNCHANGED <<accounted, vault, outside>>
  <2>1. SubStep(s, [s EXCEPT !.status = st])
    BY <1>3 DEF SubStep, Restatused
  <2> QED
    BY <1>3, <2>1 DEF ledgerVars, TypeOK
<1>4. CASE FinishCapped(id)
  <2>1. Cancelled \in Statuses
    BY DEF Statuses
  <2>2. /\ CanTransition(s.status, Cancelled) /\ UNCHANGED ledgerVars
        /\ SetSub(id, [s EXCEPT !.status = Cancelled])
    BY <1>4 DEF FinishCapped
  <2> QED BY <1>1, <1>3, <2>1, <2>2, NotWaiting
<1>5. ASSUME NEW a \in ChargeAmounts(s), CancelOverCap(id, a)
      PROVE  /\ Cancelled \in Statuses /\ CanTransition(s.status, Cancelled)
             /\ SetSub(id, [s EXCEPT !.status = Cancelled])
             /\ UNCHANGED ledgerVars
  BY <1>5, ChargeTransitions DEF CancelOverCap, Due, Statuses
<1>6. ASSUME NEW a \in ChargeAmounts(s), ChargeShortfall(id, a)
      PROVE  /\ GraceStatus(s) \in Statuses
             /\ CanTransition(s.status, GraceStatus(s)) /\ ~CanPay(s, a)
             /\ SetSub(id, [s EXCEPT !.status = GraceStatus(s)])
             /\ UNCHANGED ledgerVars
  <2>1. GraceStatus(s) \in {GracePeriod, InsufficientBalance}
    BY DEF GraceStatus
  <2>2. s.status \in {Active, GracePeriod}
    BY <1>6 DEF ChargeShortfall, Due
  <2>3. /\ SetSub(id, [s EXCEPT !.status = GraceStatus(s)])
        /\ UNCHANGED ledgerVars /\ ~CanPay(s, a)
    BY <1>6 DEF ChargeShortfall
  <2> QED
    BY <2>1, <2>2, <2>3, ChargeTransitions DEF Statuses
<1>7. ASSUME NEW a \in ChargeAmounts(s), ChargeInterval(id, a)
      PROVE  /\ \E t : SubStep(s, t) /\ SetSub(id, t)
             /\ balance' \in [Payees -> [Tokens -> Nat]]
             /\ earnings' \in [Payees -> [Tokens -> [EarningFields -> Nat]]]
             /\ UNCHANGED <<accounted, vault, outside>>
  <2>1. a \in Nat /\ a <= s.prepaid
    BY <1>2, <1>7, AmountInt DEF ChargeInterval, CanPay
  <2>2. IntervalCharged(s, ClosePeriod(PaidInterval(s, a), PeriodIndex(s)))
    BY <1>7, <2>1 DEF ChargeInterval, IntervalCharged
  <2>3. CreditSplit(s, a)
    BY <1>7 DEF ChargeInterval
  <2>4. /\ balance' \in [Payees -> [Tokens -> Nat]]
        /\ earnings' \in [Payees -> [Tokens -> [EarningFields -> Nat]]]
    BY <1>2, <2>1, <2>3, CreditSplitType
  <2> QED
    BY <1>7, <2>2, <2>4 DEF ChargeInterval, SubStep
<1> QED
  BY <1>1, <1>3, <1>4, <1>5, <1>6, <1>7, NotWaiting DEF ChargeOneOk

\* What an action does to the subscriptions, and the types of the rest.
Sound == SubsStep /\ TypeOK' /\ now' >= now

\* A SubsStep keeps the table of subscriptions well-typed.
LEMMA SubsStepType ==
  ASSUME TypeOK, SubsStep
  PROVE  /\ nextId' \in 0 .. MAX_SUBSCRIPTION_ID
         /\ subs' \in [0 .. (nextId' - 1) -> Subscription]
<1>1. /\ nextId \in 0 .. MAX_SUBSCRIPTION_ID /\ MAX_SUBSCRIPTION_ID \in Nat
      /\ subs \in [0 .. (nextId - 1) -> Subscription]
  BY VaultAssumption DEF TypeOK, VaultAssumption
<1>2. CASE subs' = subs /\ nextId' = nextId
  BY <1>1, <1>2
<1>3. CASE /\ nextId' = nextId
           /\ \E id \in DOMAIN subs, t \in Subscription :
                SubStep(subs[id], t) /\ subs' = [subs EXCEPT ![id] = t]
  BY <1>1, <1>3
<1>4. CASE /\ nextId < MAX_SUBSCRIPTION_ID /\ nextId' = nextId + 1
           /\ \E s \in Subscription :
                subs' = [id \in 0 .. nextId |->
                           IF id # nextId THEN subs[id] ELSE s]
  <2>1. PICK s \in Subscription :
          subs' = [id \in 0 .. nextId |-> IF id # nextId THEN subs[id] ELSE s]
    BY <1>4
  <2>2. /\ nextId' \in 0 .. MAX_SUBSCRIPTION_ID /\ nextId' - 1 = nextId
        /\ \A id \in 0 .. nextId : id # nextId => id \in 0 .. (nextId - 1)
    BY <1>1, <1>4
  <2> QED BY <1>1, <2>1, <2>2
<1> QED
  BY <1>2, <1>3, <1>4 DEF SubsStep

\* Steps that leave money and settings alone.
LEMMA QuietStep ==
  ASSUME TypeOK, SubsStep, UNCHANGED <<now, moneyVars, batch, config>>
  PROVE  Sound
<1>1. /\ nextId' \in 0 .. MAX_SUBSCRIPTION_ID
      /\ subs' \in [0 .. (nextId' - 1) -> Subscription]
  BY SubsStepType
<1>2. now \in Nat /\ now' = now
  BY DEF TypeOK
<1>3. TypeOK'
  BY <1>1 DEF TypeOK, moneyVars
<1> QED
  BY <1>2, <1>3 DEF Sound

\* Steps that move money: the parts of TypeOK put together.
LEMMA MoneyStep ==
  ASSUME TypeOK, SubsStep, MoneyOK', now' \in Nat, now' >= now,
         batch' \in Seq(Ids), config' \in Config
  PROVE  Sound
<1>1. /\ nextId' \in 0 .. MAX_SUBSCRIPTION_ID
      /\ subs' \in [0 .. (nextId' - 1) -> Subscription]
  BY SubsStepType
<1> QED
  BY <1>1 DEF Sound, TypeOK, MoneyOK

\* An item of a batch that is not Ok keeps what charge_one wrote before.
LEMMA BatchItemStep ==
  ASSUME TypeOK, config.stopped => Idle, BatchItem
  PROVE  Sound
<1> DEFINE id == Head(batch)
           outcome == /\ SubsStep
                      /\ balance' \in [Payees -> [Tokens -> Nat]]
                      /\ earnings' \in [Payees -> [Tokens -> [EarningFields -> Nat]]]
                      /\ UNCHANGED <<accounted, vault, outside>>
<1>1. ~config.stopped /\ UNCHANGED <<now, nextId, recovered, config>>
  BY DEF BatchItem
<1>2. batch' \in Seq(Ids)
  <2>1. batch \in Seq(Ids) /\ batch # << >> /\ batch' = Tail(batch)
    BY DEF TypeOK, BatchItem, Idle
  <2> QED BY <2>1
<1>3. ASSUME ChargeOneOk(id) PROVE outcome
  <2>1. /\ id \in DOMAIN subs
        /\ \E t : SubStep(subs[id], t) /\ SetSub(id, t)
        /\ balance' \in [Payees -> [Tokens -> Nat]]
        /\ earnings' \in [Payees -> [Tokens -> [EarningFields -> Nat]]]
        /\ UNCHANGED <<accounted, vault, outside>>
    BY <1>1, <1>3, ChargeOneStep
  <2>2. SubsStep
    BY <1>1, <2>1, OneSub
  <2> QED BY <2>1, <2>2
<1>4. ASSUME ExpireItem(id) PROVE outcome
  <2>1. /\ id \in DOMAIN subs
        /\ SetSub(id, [subs[id] EXCEPT !.status = Expired])
        /\ UNCHANGED ledgerVars
        /\ CanTransition(subs[id].status, Expired) /\ Expired \in Statuses
    BY <1>4 DEF ExpireItem, Statuses
  <2>2. SubStep(subs[id], [subs[id] EXCEPT !.status = Expired])
    BY <2>1, NotWaiting DEF SubStep, Restatused
  <2>3. SubsStep
    BY <1>1, <2>1, <2>2, OneSub
  <2> QED BY <2>1, <2>3 DEF TypeOK, ledgerVars
<1>5. ASSUME id \in DOMAIN subs, NEW a \in ChargeAmounts(subs[id]),
             AbortItem(id, a)
      PROVE  outcome
  <2> DEFINE s == subs[id]
  <2>1. s \in Subscription
    BY <1>5, KnownType
  <2>2. a \in Nat /\ a <= s.prepaid
    BY <1>5, <2>1, AmountInt DEF AbortItem, CanPay
  <2>3. IntervalAborted(s, PaidInterval(s, a))
    BY <1>1, <1>5, <2>2 DEF AbortItem, IntervalAborted
  <2>4. /\ SetSub(id, PaidInterval(s, a)) /\ CreditSplit(s, a)
        /\ UNCHANGED <<accounted, vault, outside>>
    BY <1>5 DEF AbortItem
  <2>5. SubsStep
    BY <1>1, <1>5, <2>3, <2>4, OneSub DEF SubStep
  <2> QED BY <2>1, <2>2, <2>4, <2>5, CreditSplitType
<1>6. ASSUME RefuseItem(id) PROVE outcome
  BY <1>1, <1>6 DEF RefuseItem, ledgerVars, TypeOK, SubsStep
<1>7. outcome
  BY <1>3, <1>4, <1>5, <1>6 DEF BatchItem
<1>8. MoneyOK'
  BY <1>1, <1>7 DEF MoneyOK, TypeOK
<1> QED
  BY <1>1, <1>2, <1>7, <1>8, MoneyStep DEF TypeOK

\* Usage and one-off charges are sound.
LEMMA SpendStep ==
  ASSUME TypeOK, NEW id \in Ids, NEW v \in Values,
         ChargeUsage(id, v) \/ ChargeOneOff(id, v)
  PROVE  Sound
<1> DEFINE s == subs[id]
<1>1. id \in DOMAIN subs /\ s \in Subscription /\ v \in Int
  BY KnownType, VaultAssumption
     DEF ChargeUsage, ChargeOneOff, Known, VaultAssumption
<1>2. /\ ~config.stopped
      /\ UNCHANGED <<now, nextId, accounted, vault, outside, recovered, batch,
                     config>>
  BY DEF ChargeUsage, ChargeOneOff
<1>3. v \in Nat /\ v <= s.prepaid
  BY <1>1 DEF ChargeUsage, ChargeOneOff
<1>4. ASSUME NEW kind \in Kinds, CreditMerchant(s, kind, v)
      PROVE  MoneyOK'
  <2>1. s.merchant \in Payees /\ s.token \in Tokens
    BY <1>1 DEF Subscription, Payees
  <2> QED
    BY <1>2, <1>3, <1>4, <2>1, CreditTypes DEF CreditMerchant, MoneyOK, TypeOK
<1>5. ASSUME NEW t, SubStep(s, t), SetSub(id, t), MoneyOK'
      PROVE  Sound
  <2>1. SubsStep
    BY <1>1, <1>2, <1>5, OneSub
  <2> QED
    BY <1>2, <1>5, <2>1, MoneyStep DEF TypeOK
<1>6. CASE ChargeOneOff(id, v)
  <2>1. Spent(s, Debited(s, "one_off", v))
    BY <1>2, <1>3, <1>6 DEF ChargeOneOff, Spent, Kinds
  <2>2. SetSub(id, Debited(s, "one_off", v)) /\ CreditMerchant(s, "one_off", v)
    BY <1>6 DEF ChargeOneOff
  <2> QED
    BY <1>4, <1>5, <2>1, <2>2 DEF SubStep, Kinds
<1>7. CASE ChargeUsage(id, v)
  <2> DEFINE r == Debited(s, "usage", v)
             t == IF r.status = Active /\ r.prepaid = 0
                  THEN [r EXCEPT !.status = InsufficientBalance] ELSE r
  <2>1. s.status = Active /\ ~IsExpired(s) /\ ~IsMerchantPaused(s.merchant)
    BY <1>7 DEF ChargeUsage, Open
  <2>2. CASE /\ SetSub(id, [s EXCEPT !.status = Cancelled])
             /\ UNCHANGED <<balance, earnings>>
    <3>1. Restatused(s, [s EXCEPT !.status = Cancelled])
      BY <2>1, ChargeTransitions, NotWaiting DEF Restatused, Statuses
    <3>2. MoneyOK'
      BY <1>2, <2>2 DEF MoneyOK, TypeOK
    <3> QED BY <1>5, <2>2, <3>1, <3>2 DEF SubStep
  <2>3. CASE WithinCap(s, v) /\ SetSub(id, t) /\ CreditMerchant(s, "usage", v)
    <3>1. Spent(s, t)
      <4> HIDE DEF r
      <4>1. \/ t = r
            \/ /\ r.status = Active /\ r.prepaid = 0
               /\ t = [r EXCEPT !.status = InsufficientBalance]
        OBVIOUS
      <4> QED BY <1>2, <1>3, <2>1, <2>3, <4>1 DEF Spent, Kinds, r
    <3> HIDE DEF t
    <3> QED BY <1>4, <1>5, <2>3, <3>1 DEF SubStep, Kinds
  <2> QED BY <1>7, <2>2, <2>3 DEF ChargeUsage, UsageDebited
<1> QED BY <1>6, <1>7

\* Every charge, single, batched or metered, is sound.
LEMMA ChargeStep ==
  ASSUME TypeOK, config.stopped => Idle, ChargeNext
  PROVE  Sound
<1>1. ASSUME NEW id \in Ids, ChargeSubscription(id)
      PROVE  Sound
  <2>1. /\ ~config.stopped /\ ChargeOneOk(id)
        /\ UNCHANGED <<now, nextId, recovered, batch, config>>
    BY <1>1 DEF ChargeSubscription
  <2>2. /\ id \in DOMAIN subs
        /\ \E t : SubStep(subs[id], t) /\ SetSub(id, t)
        /\ balance' \in [Payees -> [Tokens -> Nat]]
        /\ earnings' \in [Payees -> [Tokens -> [EarningFields -> Nat]]]
        /\ UNCHANGED <<accounted, vault, outside>>
    BY <2>1, ChargeOneStep
  <2>3. SubsStep
    BY <2>1, <2>2, OneSub
  <2>4. MoneyOK'
    BY <2>1, <2>2 DEF MoneyOK, TypeOK
  <2> QED
    BY <2>1, <2>3, <2>4, MoneyStep DEF TypeOK
<1>2. ASSUME NEW ids \in BatchLists, BatchCharge(ids)
      PROVE  Sound
  <2>1. ids \in Seq(Ids)
    <3>1. PICK n \in 1 .. MaxBatch : ids \in [1 .. n -> Ids]
      BY DEF BatchLists
    <3>2. n \in Nat
      BY VaultAssumption DEF VaultAssumption
    <3> QED BY <3>1, <3>2
  <2>2. batch' = ids /\ UNCHANGED <<now, subs, nextId, moneyVars, config>>
    BY <1>2 DEF BatchCharge
  <2>3. SubsStep
    BY <2>2 DEF SubsStep
  <2>4. MoneyOK'
    BY <2>2 DEF MoneyOK, TypeOK, moneyVars
  <2> QED
    BY <2>1, <2>2, <2>3, <2>4, MoneyStep DEF TypeOK
<1> QED
  BY <1>1, <1>2, SpendStep, BatchItemStep
     DEF ChargeNext, UsageNext, BillNext

-------------------------------------------------------------------------------
(***************************************************************************)
(* Deposits, refunds, withdrawals and recoveries.                          *)
(***************************************************************************)
LEMMA TransferType ==
  ASSUME TypeOK, NEW tok \in Tokens, NEW a \in Nat,
         TransferIn(tok, a) \/ TransferOut(tok, a)
  PROVE  vault' \in [Tokens -> Nat] /\ outside' \in [Tokens -> Nat]
<1>1. vault \in [Tokens -> Nat] /\ outside \in [Tokens -> Nat]
  BY DEF TypeOK
<1>2. CASE TransferIn(tok, a)
  BY <1>1, <1>2 DEF TransferIn
<1>3. CASE TransferOut(tok, a)
  BY <1>1, <1>3 DEF TransferOut
<1> QED
  BY <1>2, <1>3

\* Booking a sum keeps TotalAccounted an integer.
LEMMA AccountedType ==
  ASSUME TypeOK, NEW tok \in Tokens, NEW a \in Nat,
         AddAccounted(tok, a) \/ SubAccounted(tok, a)
  PROVE  accounted' \in [Tokens -> Int]
<1>1. accounted \in [Tokens -> Int]
  BY DEF TypeOK
<1> QED
  BY <1>1 DEF AddAccounted, SubAccounted

\* Calls that move money between one subscription and the world.
LEMMA SubscriberFundsStep ==
  ASSUME TypeOK, NEW id \in DOMAIN subs, NEW a \in Nat, NEW t,
         SubStep(subs[id], t), SetSub(id, t),
         \/ TransferIn(subs[id].token, a) \/ TransferOut(subs[id].token, a),
         \/ AddAccounted(subs[id].token, a) \/ SubAccounted(subs[id].token, a),
         UNCHANGED <<now, nextId, balance, earnings, recovered, batch, config>>
  PROVE  Sound
<1>1. PICK tok \in Tokens : tok = subs[id].token
  BY KnownType DEF Subscription
<1>2. SubsStep
  BY OneSub
<1>3. /\ vault' \in [Tokens -> Nat] /\ outside' \in [Tokens -> Nat]
      /\ accounted' \in [Tokens -> Int]
  BY <1>1, TransferType, AccountedType
<1>4. MoneyOK'
  BY <1>3 DEF MoneyOK, TypeOK
<1> QED
  BY <1>2, <1>4, MoneyStep DEF TypeOK

\* Returning the whole prepaid balance is sound.
LEMMA ReclaimStep ==
  ASSUME TypeOK, ReclaimNext
  PROVE  Sound
<1>1. PICK id \in Ids : WithdrawSubscriberFunds(id)
  BY DEF ReclaimNext
<1> DEFINE s == subs[id]
           t == [s EXCEPT !.prepaid = 0]
<1>2. id \in DOMAIN subs /\ s \in Subscription
  BY <1>1, KnownType DEF WithdrawSubscriberFunds, Known
<1>3. s.prepaid \in Nat
  BY <1>2 DEF Subscription
<1>4. Returned(s, t)
  <2>1. s.prepaid - s.prepaid = 0 /\ s.prepaid <= s.prepaid
    BY <1>3
  <2> QED BY <1>2, <1>3, <2>1 DEF Returned, Subscription
<1>5. /\ SetSub(id, t) /\ TransferOut(s.token, s.prepaid)
      /\ SubAccounted(s.token, s.prepaid)
      /\ UNCHANGED <<now, nextId, balance, earnings, recovered, batch, config>>
  BY <1>1 DEF WithdrawSubscriberFunds
<1>6. SubStep(s, t)
  BY <1>4 DEF SubStep
<1> HIDE DEF t
<1> QED
  BY <1>2, <1>3, <1>5, <1>6, SubscriberFundsStep

\* Calls that leave the subscriptions alone.
LEMMA PayeeFundsStep ==
  ASSUME TypeOK, MoneyOK', UNCHANGED <<now, subs, nextId, batch, config>>
  PROVE  Sound
<1>1. SubsStep
  BY DEF SubsStep
<1> QED
  BY <1>1, MoneyStep DEF TypeOK

\* Every other movement of money is sound.
LEMMA FundsStep ==
  ASSUME TypeOK, FundsNext
  PROVE  Sound
<1>1. PICK v \in Int :
        \/ \E id \in Ids : DepositFunds(id, v) \/ PartialRefund(id, v)
        \/ \E p \in Payees, tok \in Tokens :
             WithdrawMerchantFunds(p, tok, v) \/ MerchantRefund(p, tok, v)
        \/ \E tok \in Tokens :
             \/ DirectTransfer(tok, v)
             \/ \E rid \in RecoveryIds : RecoverStrandedFunds(tok, v, rid)
  BY VaultAssumption DEF FundsNext, VaultAssumption
<1>2. ASSUME NEW id \in Ids, DepositFunds(id, v)
      PROVE  Sound
  <2>1. /\ id \in DOMAIN subs /\ v \in Nat
        /\ SetSub(id, ToppedUp(subs[id], v))
        /\ TransferIn(subs[id].token, v) /\ AddAccounted(subs[id].token, v)
        /\ UNCHANGED <<now, nextId, balance, earnings, recovered, batch, config>>
    BY <1>2 DEF DepositFunds, Known
  <2>2. SubStep(subs[id], ToppedUp(subs[id], v))
    BY <1>2, <2>1 DEF DepositFunds, SubStep, Deposited
  <2> QED BY <2>1, <2>2, SubscriberFundsStep
<1>3. ASSUME NEW id \in Ids, PartialRefund(id, v)
      PROVE  Sound
  <2> DEFINE t == [subs[id] EXCEPT !.prepaid = @ - v]
  <2>1. /\ id \in DOMAIN subs /\ v \in Nat /\ v <= subs[id].prepaid
        /\ SetSub(id, t)
        /\ TransferOut(subs[id].token, v) /\ SubAccounted(subs[id].token, v)
        /\ UNCHANGED <<now, nextId, balance, earnings, recovered, batch, config>>
    BY <1>3 DEF PartialRefund, Known
  <2>2. SubStep(subs[id], t)
    BY <2>1 DEF SubStep, Returned
  <2> HIDE DEF t
  <2> QED BY <2>1, <2>2, SubscriberFundsStep
<1>4. ASSUME NEW p \in Payees, NEW tok \in Tokens,
             WithdrawMerchantFunds(p, tok, v) \/ MerchantRefund(p, tok, v)
      PROVE  Sound
  <2>1. /\ v \in Nat /\ v <= balance[p][tok]
        /\ balance' = [balance EXCEPT ![p][tok] = @ - v]
        /\ TransferOut(tok, v)
        /\ UNCHANGED <<now, subs, nextId, recovered, batch, config>>
    BY <1>4 DEF WithdrawMerchantFunds, MerchantRefund
  <2>2. balance' \in [Payees -> [Tokens -> Nat]]
    <3>1. balance \in [Payees -> [Tokens -> Nat]]
      BY DEF TypeOK
    <3>2. [balance[p] EXCEPT ![tok] = @ - v] \in [Tokens -> Nat]
      BY <2>1, <3>1
    <3> QED BY <2>1, <3>1, <3>2
  <2>3. /\ accounted' \in [Tokens -> Int]
        /\ earnings' \in [Payees -> [Tokens -> [EarningFields -> Nat]]]
    <3>1. CASE WithdrawMerchantFunds(p, tok, v)
      BY <2>1, <3>1, AccountedType DEF WithdrawMerchantFunds, TypeOK
    <3>2. CASE MerchantRefund(p, tok, v)
      <4>1. /\ earnings' = CreditEarnings(earnings, p, tok, "refunds", v)
            /\ accounted' = accounted
        BY <3>2 DEF MerchantRefund, CreditEarnings
      <4>2. "refunds" \in EarningFields
        BY DEF EarningFields
      <4> QED BY <2>1, <4>1, <4>2, EarningsType DEF TypeOK
    <3> QED BY <1>4, <3>1, <3>2
  <2>4. MoneyOK'
    BY <2>1, <2>2, <2>3, TransferType DEF MoneyOK, TypeOK
  <2> QED BY <2>1, <2>4, PayeeFundsStep
<1>5. ASSUME NEW tok \in Tokens, DirectTransfer(tok, v)
      PROVE  Sound
  <2>1. /\ v \in Nat /\ TransferIn(tok, v)
        /\ UNCHANGED <<now, subs, nextId, balance, earnings, accounted,
                       recovered, batch, config>>
    BY <1>5 DEF DirectTransfer
  <2>2. MoneyOK'
    BY <2>1, TransferType DEF MoneyOK, TypeOK
  <2> QED BY <2>1, <2>2, PayeeFundsStep
<1>6. ASSUME NEW tok \in Tokens, NEW rid \in RecoveryIds,
             RecoverStrandedFunds(tok, v, rid)
      PROVE  Sound
  <2>1. /\ v \in Nat /\ TransferOut(tok, v) /\ recovered' = recovered \cup {rid}
        /\ UNCHANGED <<now, subs, nextId, balance, earnings, accounted, batch,
                       config>>
    BY <1>6 DEF RecoverStrandedFunds
  <2>2. MoneyOK'
    BY <2>1, TransferType DEF MoneyOK, TypeOK
  <2> QED BY <2>1, <2>2, PayeeFundsStep
<1> QED
  BY <1>1, <1>2, <1>3, <1>4, <1>5, <1>6

-------------------------------------------------------------------------------
(***************************************************************************)
(* Settings.                                                               *)
(***************************************************************************)
LEMMA ConfigStep ==
  ASSUME TypeOK, NEW c \in Config, SetConfig(c)
  PROVE  Sound
<1>1. /\ config' = c
      /\ UNCHANGED <<now, subs, nextId, moneyVars, batch>>
  BY DEF SetConfig
<1>2. SubsStep
  BY <1>1 DEF SubsStep
<1>3. MoneyOK'
  BY <1>1 DEF MoneyOK, TypeOK, moneyVars
<1> QED
  BY <1>1, <1>2, <1>3, MoneyStep DEF TypeOK

\* The switches keep the settings well-typed.
LEMMA GateStep ==
  ASSUME TypeOK, GateNext
  PROVE  Sound
<1>1. config \in Config
  BY DEF TypeOK
<1>2. CASE EnableEmergencyStop \/ DisableEmergencyStop
  <2>1. /\ [config EXCEPT !.stopped = TRUE] \in Config
        /\ [config EXCEPT !.stopped = FALSE] \in Config
    BY <1>1 DEF Config
  <2> QED
    BY <1>2, <2>1, ConfigStep DEF EnableEmergencyStop, DisableEmergencyStop
<1>3. ASSUME NEW m \in Merchants, PauseMerchant(m) \/ UnpauseMerchant(m)
      PROVE  Sound
  <2>1. PICK v \in ShopSets, w \in ShopSets :
          v = config.flag_paused \cup {m} /\ w = config.flag_paused \ {m}
    BY <1>1 DEF Config, ShopSets
  <2>2. /\ [config EXCEPT !.flag_paused = v] \in Config
        /\ [config EXCEPT !.flag_paused = w] \in Config
    BY <1>1 DEF Config
  <2> QED
    BY <1>3, <2>1, <2>2, ConfigStep DEF PauseMerchant, UnpauseMerchant
<1>4. ASSUME NEW m \in Merchants, NEW paused \in BOOLEAN,
             SetMerchantConfig(m, paused)
      PROVE  Sound
  <2>1. PICK v \in ShopSets :
          v = IF paused THEN config.config_paused \cup {m}
                        ELSE config.config_paused \ {m}
    BY <1>1 DEF Config, ShopSets
  <2>2. [config EXCEPT !.config_paused = v] \in Config
    BY <1>1 DEF Config
  <2> QED
    BY <1>4, <2>1, <2>2, ConfigStep DEF SetMerchantConfig
<1>5. ASSUME NEW c \in Subscribers, AddToBlocklist(c) \/ RemoveFromBlocklist(c)
      PROVE  Sound
  <2>1. PICK v \in ClientSets, w \in ClientSets :
          v = config.blocklist \cup {c} /\ w = config.blocklist \ {c}
    BY <1>1 DEF Config, ClientSets
  <2>2. /\ [config EXCEPT !.blocklist = v] \in Config
        /\ [config EXCEPT !.blocklist = w] \in Config
    BY <1>1 DEF Config
  <2> QED
    BY <1>5, <2>1, <2>2, ConfigStep DEF AddToBlocklist, RemoveFromBlocklist
<1> QED
  BY <1>2, <1>3, <1>4, <1>5 DEF GateNext

\* Tokens, prices, fees and limits keep the settings well-typed.
LEMMA TermsStep ==
  ASSUME TypeOK, TermsNext
  PROVE  Sound
<1>1. config \in Config
  BY DEF TypeOK
<1>2. ASSUME NEW m \in MinTopups, SetMinTopup(m)
      PROVE  Sound
  <2>1. m \in Int
    BY VaultAssumption DEF VaultAssumption
  <2>2. [config EXCEPT !.min_topup = m] \in Config
    BY <1>1, <2>1 DEF Config
  <2> QED BY <1>2, <2>2, ConfigStep DEF SetMinTopup
<1>3. ASSUME NEW t \in Treasuries, NEW bps \in FeeBps, SetProtocolFee(t, bps)
      PROVE  Sound
  <2>1. bps \in BasisPoints /\ t \in TreasuryKey
    BY VaultAssumption DEF VaultAssumption, BasisPoints, TreasuryKey
  <2>2. [config EXCEPT !.treasury = t, !.fee_bps = bps] \in Config
    BY <1>1, <2>1 DEF Config
  <2> QED BY <1>3, <2>2, ConfigStep DEF SetProtocolFee
<1>4. ASSUME NEW on \in BOOLEAN, NEW age \in MaxAges, SetOracleConfig(on, age)
      PROVE  Sound
  <2>1. age \in Nat
    BY VaultAssumption DEF VaultAssumption
  <2>2. PICK o \in OracleConfig : o = [enabled |-> on, max_age |-> age]
    BY <2>1 DEF OracleConfig
  <2>3. [config EXCEPT !.oracle = o] \in Config
    BY <1>1 DEF Config
  <2> QED BY <1>4, <2>2, <2>3, ConfigStep DEF SetOracleConfig
<1>5. ASSUME NEW cap \in CapDefaults
      PROVE  cap \in Nat \cup {None}
  BY VaultAssumption DEF VaultAssumption
<1>6. ASSUME NEW cap \in CapDefaults, SetGlobalCapDefault(cap)
      PROVE  Sound
  <2>1. [config EXCEPT !.cap_default = cap] \in Config
    BY <1>1, <1>5 DEF Config
  <2> QED BY <1>6, <2>1, ConfigStep DEF SetGlobalCapDefault
<1>7. ASSUME NEW cap \in CapDefaults, NEW m \in Merchants,
             SetMerchantCapDefault(m, cap)
      PROVE  Sound
  <2>1. config.merch_cap \in CapTable
    BY <1>1 DEF Config
  <2>2. PICK f \in CapTable : f = [config.merch_cap EXCEPT ![m] = cap]
    BY <1>5, <2>1 DEF CapTable
  <2>3. [config EXCEPT !.merch_cap = f] \in Config
    BY <1>1 DEF Config
  <2> QED BY <1>7, <2>2, <2>3, ConfigStep DEF SetMerchantCapDefault
<1>8. ASSUME NEW c \in Subscribers, NEW tok \in Tokens, NEW limit \in CreditLimits,
             SetSubscriberCreditLimit(c, tok, limit)
      PROVE  Sound
  <2>1. limit \in Nat /\ config.credit_limit \in [Subscribers -> [Tokens -> Nat]]
    BY <1>1, VaultAssumption DEF Config, LimitTable, VaultAssumption
  <2>2. [config.credit_limit[c] EXCEPT ![tok] = limit] \in [Tokens -> Nat]
    BY <2>1
  <2>3. PICK f \in LimitTable : f = [config.credit_limit EXCEPT ![c][tok] = limit]
    BY <2>1, <2>2 DEF LimitTable
  <2>4. [config EXCEPT !.credit_limit = f] \in Config
    BY <1>1 DEF Config
  <2> QED BY <1>8, <2>3, <2>4, ConfigStep DEF SetSubscriberCreditLimit
<1>9. ASSUME NEW p \in DOMAIN Plans, NEW max \in PlanLimits,
             SetPlanMaxActiveSubs(p, max)
      PROVE  Sound
  <2>1. max \in Nat /\ config.plan_max \in PlanTable
    BY <1>1, VaultAssumption DEF Config, VaultAssumption
  <2>2. PICK f \in PlanTable : f = [config.plan_max EXCEPT ![p] = max]
    BY <2>1 DEF PlanTable
  <2>3. [config EXCEPT !.plan_max = f] \in Config
    BY <1>1 DEF Config
  <2> QED BY <1>9, <2>2, <2>3, ConfigStep DEF SetPlanMaxActiveSubs
<1>10. ASSUME NEW tok \in Tokens,
             AddAcceptedToken(tok) \/ RemoveAcceptedToken(tok)
      PROVE  Sound
  <2>1. PICK v \in TokenSets, w \in TokenSets :
          v = config.accepted \cup {tok} /\ w = config.accepted \ {tok}
    BY <1>1 DEF Config, TokenSets
  <2>2. /\ [config EXCEPT !.accepted = v] \in Config
        /\ [config EXCEPT !.accepted = w] \in Config
    BY <1>1 DEF Config
  <2> QED
    BY <1>10, <2>1, <2>2, ConfigStep DEF AddAcceptedToken, RemoveAcceptedToken
<1> QED
  BY <1>2, <1>3, <1>4, <1>6, <1>7, <1>8, <1>9, <1>10 DEF TermsNext

-------------------------------------------------------------------------------
(***************************************************************************)
(* The whole contract.  A batch never runs under the emergency stop, which *)
(* is what lets its items charge without asking again.                     *)
(***************************************************************************)
StopOutsideBatch == config.stopped => Idle

IType == TypeOK /\ StopOutsideBatch

\* Every entry point, and the clock, is sound.
LEMMA StepIsSound ==
  ASSUME IType, Next
  PROVE  Sound
<1>1. TypeOK /\ (config.stopped => Idle)
  BY DEF IType, StopOutsideBatch
<1>2. CASE Tick
  <2>1. now' = now + 1 /\ UNCHANGED <<subs, nextId, moneyVars, batch, config>>
    BY <1>2 DEF Tick
  <2>2. SubsStep /\ MoneyOK'
    BY <1>1, <2>1 DEF SubsStep, MoneyOK, TypeOK, moneyVars
  <2> QED BY <1>1, <2>1, <2>2, MoneyStep DEF TypeOK
<1>3. CASE CreateNext \/ LifecycleNext
  BY <1>1, <1>3, CreateStep, LifecycleStep, QuietStep
<1> QED
  BY <1>1, <1>2, <1>3, ChargeStep, FundsStep, ReclaimStep, GateStep, TermsStep
     DEF Next, CoreNext

\* No batch starts under the stop and no stop is raised inside a batch.
LEMMA StopStep ==
  ASSUME IType, Next
  PROVE  StopOutsideBatch'
<1> USE DEF StopOutsideBatch, Idle
<1>1. CASE UNCHANGED <<batch, config>>
  BY <1>1 DEF IType
<1>2. CASE GateNext \/ TermsNext
  <2>1. Idle /\ UNCHANGED batch
    BY <1>2 DEF GateNext, TermsNext, SetConfig, EnableEmergencyStop,
       DisableEmergencyStop, PauseMerchant, UnpauseMerchant, SetMerchantConfig,
       AddToBlocklist, RemoveFromBlocklist, AddAcceptedToken,
       RemoveAcceptedToken, SetMinTopup, SetProtocolFee, SetOracleConfig,
       SetGlobalCapDefault, SetMerchantCapDefault, SetSubscriberCreditLimit,
       SetPlanMaxActiveSubs
  <2> QED BY <2>1
<1>3. CASE ChargeNext
  <2>1. ASSUME NEW ids \in BatchLists, BatchCharge(ids) PROVE StopOutsideBatch'
    BY <2>1 DEF BatchCharge
  <2>2. CASE BatchItem
    BY <2>2 DEF BatchItem, IType
  <2>3. ASSUME NEW id \in Ids,
               \/ ChargeSubscription(id)
               \/ \E v \in Values : ChargeUsage(id, v) \/ ChargeOneOff(id, v)
        PROVE  UNCHANGED <<batch, config>>
    BY <2>3 DEF ChargeSubscription, ChargeUsage, ChargeOneOff
  <2> QED BY <1>1, <1>3, <2>1, <2>2, <2>3 DEF ChargeNext, UsageNext, BillNext
<1>4. CASE FundsNext
  <2>1. UNCHANGED <<batch, config>>
    BY <1>4, ZenonT(30) DEF FundsNext, DepositFunds, PartialRefund, WithdrawMerchantFunds,
                MerchantRefund, DirectTransfer, RecoverStrandedFunds
  <2> QED BY <1>1, <2>1
<1>5. CASE Tick \/ ReclaimNext
  <2>1. UNCHANGED <<batch, config>>
    BY <1>5 DEF Tick, ReclaimNext, WithdrawSubscriberFunds
  <2> QED BY <1>1, <2>1
<1>6. CASE CreateNext \/ LifecycleNext
  <2>1. UNCHANGED <<batch, config>>
    BY <1>6, CreateStep, LifecycleStep DEF IType
  <2> QED BY <1>1, <2>1
<1> QED
  BY <1>2, <1>3, <1>4, <1>5, <1>6 DEF Next, CoreNext

\* do_init establishes the invariant.
LEMMA InitIType == Init => IType
<1> SUFFICES ASSUME Init PROVE IType
  OBVIOUS
<1>1. /\ now \in Nat /\ nextId \in 0 .. MAX_SUBSCRIPTION_ID
      /\ subs \in [0 .. (nextId - 1) -> Subscription]
  <2>1. nextId = 0 /\ now = 1 /\ subs = [id \in {} |-> {}]
        /\ MAX_SUBSCRIPTION_ID \in Nat
    BY VaultAssumption DEF Init, VaultAssumption
  <2>2. 0 .. (nextId - 1) = {}
    BY <2>1
  <2> QED BY <2>1, <2>2
<1>2. MoneyOK
  <2>1. balance \in [Payees -> [Tokens -> Nat]]
    BY DEF Init
  <2>2. earnings \in [Payees -> [Tokens -> [EarningFields -> Nat]]]
    BY DEF Init
  <2>3. /\ accounted \in [Tokens -> Int] /\ vault \in [Tokens -> Nat]
        /\ outside \in [Tokens -> Nat] /\ recovered \subseteq RecoveryIds
    BY VaultAssumption DEF Init, VaultAssumption
  <2> QED BY <2>1, <2>2, <2>3 DEF MoneyOK
<1>3. batch \in Seq(Ids) /\ Idle
  BY DEF Init, Idle
<1>4. config \in Config
  <2>1. PICK topup \in Int : config = InitialConfig(topup)
    BY VaultAssumption DEF Init, VaultAssumption
  <2>2. PICK m \in CapTable, l \in LimitTable, p \in PlanTable,
             o \in OracleConfig :
          /\ m = [x \in Merchants |-> None]
          /\ l = [x \in Subscribers |-> [tok \in Tokens |-> 0]]
          /\ p = [x \in DOMAIN Plans |-> 0]
          /\ o = [enabled |-> FALSE, max_age |-> 0]
    BY DEF CapTable, LimitTable, PlanTable, OracleConfig
  <2>3. /\ 0 \in BasisPoints /\ None \in TreasuryKey
        /\ {DefaultToken} \in TokenSets /\ {} \in ClientSets /\ {} \in ShopSets
    BY VaultAssumption DEF VaultAssumption, BasisPoints, TreasuryKey,
                           TokenSets, ClientSets, ShopSets
  <2>4. config = [stopped |-> FALSE, min_topup |-> topup, fee_bps |-> 0,
                  treasury |-> None, accepted |-> {DefaultToken},
                  cap_default |-> None, merch_cap |-> m, credit_limit |-> l,
                  plan_max |-> p, blocklist |-> {}, flag_paused |-> {},
                  config_paused |-> {}, oracle |-> o]
    BY <2>1, <2>2, Zenon DEF InitialConfig
  <2> QED BY <2>3, <2>4 DEF Config
<1> QED
  BY <1>1, <1>2, <1>3, <1>4 DEF IType, TypeOK, MoneyOK, StopOutsideBatch

\* The inductive step, in the form the invariants and action properties use.
LEMMA StepIType ==
  ASSUME IType, [Next]_vars
  PROVE  IType' /\ (Sound \/ UNCHANGED vars)
<1>1. CASE Next
  BY <1>1, StepIsSound, StopStep DEF IType, Sound
<1>2. CASE UNCHANGED vars
  BY <1>2 DEF IType, TypeOK, StopOutsideBatch, Idle, vars
<1> QED BY <1>1, <1>2

\* The invariant everything else rests on holds of every behaviour.
THEOREM Foundation == Spec => []IType
<1>1. IType /\ [Next]_vars => IType'
  BY StepIType
<1> QED
  BY InitIType, <1>1, PTL DEF Spec

\* Every value the contract stores stays of its type, whatever sequence of
\* calls, batches and clock advances: no prepaid or merchant balance goes
\* negative and no id beyond the limit is issued.
THEOREM TypeCorrect == Spec => []TypeOK
<1>1. IType => TypeOK
  BY DEF IType
<1> QED
  BY Foundation, <1>1, PTL

-------------------------------------------------------------------------------
(***************************************************************************)
(* What the updates of a record leave alone.                               *)
(***************************************************************************)
\* The fields that only a migration or an interval charge may change.
SameTerms(s, t) ==
  /\ t.cap = s.cap /\ t.plan = s.plan /\ t.amount = s.amount
  /\ t.interval = s.interval /\ t.start = s.start
  /\ t.subscriber = s.subscriber /\ t.merchant = s.merchant
  /\ t.expires = s.expires

SameBooks(s, t) == t.charged = s.charged /\ t.billed = s.billed

SamePeriod(s, t) ==
  t.period = s.period /\ t.snaps = s.snaps /\ t.last_payment = s.last_payment

\* A debit of `a` moves it from prepaid to charged and to one statement kind.
LEMMA DebitedFields ==
  ASSUME NEW s \in Subscription, NEW kind \in Kinds, NEW a \in Nat
  PROVE  LET t == Debited(s, kind, a) IN
         /\ SameTerms(s, t) /\ SamePeriod(s, t)
         /\ t.prepaid = s.prepaid - a /\ t.charged = s.charged + a
         /\ t.billed = [s.billed EXCEPT ![kind] = @ + a]
         /\ t.status \in {s.status, Cancelled}
<1> DEFINE b == [s.billed EXCEPT ![kind] = @ + a]
           r == [s EXCEPT !.prepaid = @ - a, !.charged = @ + a, !.billed = b]
<1>1. r = [s EXCEPT !.prepaid = @ - a, !.charged = @ + a, !.billed[kind] = @ + a]
  BY DEF Subscription
<1>2. Debited(s, kind, a) \in {r, [r EXCEPT !.status = Cancelled]}
  BY <1>1 DEF Debited
<1> HIDE DEF b
<1> QED
  BY <1>2, ZenonT(30) DEF Subscription, SameTerms, SamePeriod, b

\* The interval debit also sets the billing date to the start of the period.
LEMMA PaidIntervalFields ==
  ASSUME NEW s \in Subscription, NEW a \in Nat, now \in Nat
  PROVE  LET t == PaidInterval(s, a) IN
         /\ SameTerms(s, t)
         /\ t.prepaid = s.prepaid - a /\ t.charged = s.charged + a
         /\ t.billed = [s.billed EXCEPT !["interval"] = @ + a]
         /\ t.period = s.period /\ t.snaps = s.snaps
         /\ t.last_payment = PeriodStart(s)
         /\ t.status \in {Active, Cancelled}
<1> DEFINE r == [s EXCEPT !.last_payment = PeriodStart(s), !.status = Active]
<1>1. /\ r \in Subscription /\ SameTerms(s, r) /\ SameBooks(s, r)
      /\ r.prepaid = s.prepaid /\ r.period = s.period /\ r.snaps = s.snaps
      /\ r.last_payment = PeriodStart(s) /\ r.status = Active
  BY PeriodStartNat DEF Subscription, Statuses, SameTerms, SameBooks
<1>2. PaidInterval(s, a) = Debited(r, "interval", a)
  BY DEF PaidInterval
<1> HIDE DEF r
<1>3. "interval" \in Kinds
  BY DEF Kinds
<1> QED
  BY <1>1, <1>2, <1>3, DebitedFields DEF SameTerms, SameBooks, SamePeriod

\* Closing a period touches nothing but the period and its snapshot.
LEMMA ClosePeriodFields ==
  ASSUME NEW s \in Subscription, NEW k \in Nat
  PROVE  LET t == ClosePeriod(s, k) IN
         /\ SameTerms(s, t) /\ SameBooks(s, t) /\ t.prepaid = s.prepaid
         /\ t.status = s.status /\ t.last_payment = s.last_payment
         /\ t.period = k /\ t.snaps = s.snaps \cup {k}
  BY DEF ClosePeriod, Subscription, SameTerms, SameBooks

\* Updates that charge nothing: the first keeps the terms, the second is a
\* migration.
Unbilled(s, t) == SameTerms(s, t) /\ SameBooks(s, t) /\ SamePeriod(s, t)

Reterms(s, t) ==
  /\ Migrated(s, t) /\ SameBooks(s, t) /\ SamePeriod(s, t)
  /\ t.start = s.start /\ t.prepaid = s.prepaid /\ t.subscriber = s.subscriber
  /\ t.merchant = s.merchant /\ t.expires = s.expires /\ t.status = s.status
  /\ t.plan # None /\ s.plan # None
  /\ t.cap # None => s.charged <= t.cap

\* A charge of `a`, and what becomes of the period.
Bills(s, t, a, k) ==
  /\ a <= s.prepaid /\ WithinCap(s, a) /\ ~config.stopped
  /\ ~IsExpired(s) /\ s.status \in {Active, GracePeriod, Paused}
  /\ k # "one_off" => ~IsMerchantPaused(s.merchant)
  /\ SameTerms(s, t)
  /\ t.prepaid = s.prepaid - a /\ t.charged = s.charged + a
  /\ t.billed = [s.billed EXCEPT ![k] = @ + a]

BillsInterval(s, t) ==
  /\ Due(s) /\ t.last_payment = PeriodStart(s)
  /\ s.status \in {Active, GracePeriod} /\ t.status \in {Active, Cancelled}

Closes(s, t) ==
  /\ BillsInterval(s, t)
  /\ t.period = PeriodIndex(s) /\ t.snaps = s.snaps \cup {t.period}

Aborts(s, t, a) ==
  /\ BillsInterval(s, t)
  /\ t.period = s.period /\ t.snaps = s.snaps
  /\ a \in ChargeAmounts(s) /\ ~CanClose(s, a)

Spends(s, t) ==
  /\ SamePeriod(s, t) /\ s.status \in {Active, Paused}
  /\ \/ t.status \in {s.status, Cancelled}
     \/ s.status = Active /\ t.status = InsufficientBalance /\ t.prepaid = 0

\* An interval charge takes what resolve_charge_amount says.
Priced(s, a, k) == k = "interval" /\ a \in ChargeAmounts(s)

\* Each of the seven ways, field by field, with the guards of its path.
LEMMA SubStepFields ==
  ASSUME NEW s \in Subscription, NEW t, now \in Nat, SubStep(s, t)
  PROVE  \/ Unbilled(s, t) /\ Restatused(s, t) /\ t.prepaid = s.prepaid
         \/ Unbilled(s, t) /\ Deposited(s, t)
         \/ /\ Unbilled(s, t) /\ Returned(s, t)
            /\ t.status = s.status /\ t.prepaid <= s.prepaid
         \/ Reterms(s, t)
         \/ \E a \in Nat, k \in Kinds :
              /\ Bills(s, t, a, k)
              /\ \/ Priced(s, a, k) /\ CanClose(s, a) /\ Closes(s, t)
                 \/ Priced(s, a, k) /\ Aborts(s, t, a)
                 \/ k # "interval" /\ Spends(s, t)
<1>1. CASE Restatused(s, t)
  BY <1>1 DEF Restatused, Subscription, Unbilled, SameTerms, SameBooks, SamePeriod
<1>2. CASE Deposited(s, t)
  BY <1>2 DEF Deposited, ToppedUp, Subscription, Unbilled, SameTerms,
              SameBooks, SamePeriod
<1>3. CASE Returned(s, t)
  <2>1. PICK a \in Nat : a <= s.prepaid /\ t = [s EXCEPT !.prepaid = @ - a]
    BY <1>3 DEF Returned
  <2>2. s.prepaid \in Nat
    BY DEF Subscription
  <2>3. t.prepaid = s.prepaid - a
    BY <2>1 DEF Subscription
  <2>4. /\ SameTerms(s, t) /\ SameBooks(s, t) /\ SamePeriod(s, t)
        /\ t.status = s.status
    BY <2>1 DEF Subscription, SameTerms, SameBooks, SamePeriod
  <2> QED BY <1>3, <2>2, <2>3, <2>4 DEF Unbilled
<1>4. CASE Migrated(s, t)
  <2>1. PICK p \in DOMAIN Plans :
          /\ s.plan # None /\ t = OnPlan(s, p)
          /\ Plans[p].cap # None => s.charged <= Plans[p].cap
    BY <1>4 DEF Migrated
  <2>2. PICK cap, amount, interval :
          cap = Plans[p].cap /\ amount = Plans[p].amount
            /\ interval = Plans[p].interval
    OBVIOUS
  <2>3. t = [s EXCEPT !.cap = cap, !.amount = amount, !.interval = interval,
                      !.plan = p]
    BY <2>1, <2>2, Zenon DEF OnPlan
  <2>4. /\ SameBooks(s, t) /\ SamePeriod(s, t) /\ t.start = s.start
        /\ t.prepaid = s.prepaid /\ t.subscriber = s.subscriber
        /\ t.merchant = s.merchant /\ t.expires = s.expires
        /\ t.status = s.status /\ t.plan = p /\ t.cap = cap
    BY <2>3 DEF Subscription, SameBooks, SamePeriod
  <2> QED BY <1>4, <2>1, <2>2, <2>4, PlanType DEF Reterms
<1>5. CASE IntervalCharged(s, t)
  <2>1. PICK a \in Nat : /\ ~config.stopped
                         /\ Due(s) /\ WithinCap(s, a) /\ a <= s.prepaid
                         /\ a \in ChargeAmounts(s) /\ CanClose(s, a)
                         /\ t = ClosePeriod(PaidInterval(s, a), PeriodIndex(s))
    BY <1>5 DEF IntervalCharged
  <2>2. PaidInterval(s, a) \in Subscription /\ PeriodIndex(s) \in Nat
    BY <2>1, PaidIntervalType, PeriodIndexNat
  <2>3. /\ SameTerms(s, t)
        /\ t.prepaid = s.prepaid - a /\ t.charged = s.charged + a
        /\ t.billed = [s.billed EXCEPT !["interval"] = @ + a]
        /\ t.period = PeriodIndex(s) /\ t.snaps = s.snaps \cup {t.period}
        /\ t.last_payment = PeriodStart(s) /\ t.status \in {Active, Cancelled}
    BY <2>1, <2>2, PaidIntervalFields, ClosePeriodFields
       DEF SameTerms, SameBooks
  <2>4. /\ ~IsExpired(s) /\ ~IsMerchantPaused(s.merchant)
        /\ s.status \in {Active, GracePeriod} /\ "interval" \in Kinds
    BY <2>1 DEF Due, Open, Kinds
  <2> QED BY <2>1, <2>3, <2>4 DEF Bills, Closes, BillsInterval, Priced
<1>6. CASE IntervalAborted(s, t)
  <2>1. PICK a \in Nat : /\ ~config.stopped
                         /\ Due(s) /\ WithinCap(s, a) /\ a <= s.prepaid
                         /\ a \in ChargeAmounts(s) /\ ~CanClose(s, a)
                         /\ t = PaidInterval(s, a)
    BY <1>6 DEF IntervalAborted
  <2>2. /\ SameTerms(s, t)
        /\ t.prepaid = s.prepaid - a /\ t.charged = s.charged + a
        /\ t.billed = [s.billed EXCEPT !["interval"] = @ + a]
        /\ t.period = s.period /\ t.snaps = s.snaps
        /\ t.last_payment = PeriodStart(s) /\ t.status \in {Active, Cancelled}
    BY <2>1, PaidIntervalFields
  <2>3. /\ ~IsExpired(s) /\ ~IsMerchantPaused(s.merchant)
        /\ s.status \in {Active, GracePeriod} /\ "interval" \in Kinds
    BY <2>1 DEF Due, Open, Kinds
  <2> QED BY <2>1, <2>2, <2>3 DEF Bills, Aborts, BillsInterval, Priced
<1>7. CASE Spent(s, t)
  <2>1. PICK a \in Nat, k \in Kinds \ {"interval"} :
          /\ ~config.stopped /\ ~IsExpired(s) /\ WithinCap(s, a)
          /\ a <= s.prepaid /\ s.status \in {Active, Paused}
          /\ k # "one_off" => ~IsMerchantPaused(s.merchant)
          /\ \/ t = Debited(s, k, a)
             \/ /\ s.status = Active /\ Debited(s, k, a).prepaid = 0
                /\ t = [Debited(s, k, a) EXCEPT !.status = InsufficientBalance]
    BY <1>7 DEF Spent
  <2> DEFINE r == Debited(s, k, a)
  <2>2. /\ SameTerms(s, r) /\ SamePeriod(s, r)
        /\ r.prepaid = s.prepaid - a /\ r.charged = s.charged + a
        /\ r.billed = [s.billed EXCEPT ![k] = @ + a]
        /\ r.status \in {s.status, Cancelled}
    BY DebitedFields
  <2>3. r \in Subscription
    BY <2>1, DebitedType
  <2> HIDE DEF r
  <2>4. CASE t = r
    BY <2>1, <2>2, <2>4 DEF Bills, Spends
  <2>5. CASE /\ s.status = Active /\ r.prepaid = 0
             /\ t = [r EXCEPT !.status = InsufficientBalance]
    <3>1. /\ SameTerms(r, t) /\ SamePeriod(r, t) /\ SameBooks(r, t)
          /\ t.prepaid = r.prepaid /\ t.status = InsufficientBalance
      BY <2>3, <2>5 DEF Subscription, SameTerms, SamePeriod, SameBooks
    <3>2. /\ SameTerms(s, t) /\ SamePeriod(s, t)
          /\ t.prepaid = s.prepaid - a /\ t.charged = s.charged + a
          /\ t.billed = [s.billed EXCEPT ![k] = @ + a]
      BY <2>2, <3>1 DEF SameTerms, SamePeriod, SameBooks
    <3> QED BY <2>1, <2>5, <3>1, <3>2 DEF Bills, Spends
  <2> QED BY <2>1, <2>4, <2>5 DEF r
<1> QED
  BY <1>1, <1>2, <1>3, <1>4, <1>5, <1>6, <1>7 DEF SubStep

-------------------------------------------------------------------------------
(***************************************************************************)
(* Billing periods and the clock.                                          *)
(***************************************************************************)
\* What integer division promises.
LEMMA DivBounds ==
  ASSUME NEW n \in Nat, NEW i \in Nat \ {0}
  PROVE  /\ (n \div i) \in Nat
         /\ (n \div i) * i <= n /\ n < (n \div i) * i + i
  BY SMT

\* Whole intervals that fit are counted.
LEMMA DivAtLeast ==
  ASSUME NEW n \in Nat, NEW i \in Nat \ {0}, NEW p \in Nat, n >= p * i + i
  PROVE  n \div i > p
<1>1. PICK k \in Nat : k = n \div i /\ n < k * i + i
  BY DivBounds
<1>2. ASSUME k <= p PROVE FALSE
  <2>1. (p - k) * i >= 0
    BY <1>2, SMT
  <2>2. (p - k) * i = p * i - k * i
    BY SMT
  <2>3. PICK u \in Int, w \in Int : u = p * i /\ w = k * i
    BY SMT
  <2> QED BY <1>1, <2>1, <2>2, <2>3
<1> QED BY <1>1, <1>2

\* As many intervals as have passed are counted.
LEMMA DivReaches ==
  ASSUME NEW n \in Nat, NEW i \in Nat \ {0}, NEW p \in Nat, n >= p * i
  PROVE  p <= n \div i
<1>1. CASE p = 0
  BY <1>1, DivBounds
<1>2. CASE p # 0
  <2>1. PICK q \in Nat : q = p - 1
    BY <1>2
  <2>2. p * i = q * i + i
    BY <2>1, SMT
  <2>3. n \div i > q /\ n \div i \in Nat
    BY <2>1, <2>2, DivAtLeast, DivBounds
  <2> QED BY <2>1, <2>3
<1> QED BY <1>1, <1>2

\* A due interval charge moves the billing date forward, but not past now.
LEMMA DueAdvances ==
  ASSUME NEW s \in Subscription, now \in Nat, Due(s)
  PROVE  s.last_payment < PeriodStart(s) /\ PeriodStart(s) <= now
<1>1. /\ s.start \in Nat /\ s.interval \in Nat \ {0}
      /\ s.last_payment \in Nat /\ s.period \in Nat
  BY DEF Subscription
<1>2. now >= s.last_payment + s.interval /\ PeriodIndex(s) > s.period
  BY DEF Due, NextChargeTime
<1>3. now >= s.start
  <2>1. SUFFICES ASSUME ~(now >= s.start) PROVE FALSE
    OBVIOUS
  <2>2. PeriodIndex(s) = 0 \div s.interval
    BY <2>1 DEF PeriodIndex
  <2>3. 0 \div s.interval = 0
    BY <1>1, SMT
  <2> QED BY <1>1, <1>2, <2>2, <2>3
<1>4. PICK n \in Nat : n = now - s.start
  BY <1>1, <1>3
<1>5. PeriodIndex(s) = n \div s.interval
  BY <1>3, <1>4 DEF PeriodIndex
<1>6. PICK e \in Nat : e = (n \div s.interval) * s.interval
  BY <1>1, SMT
<1>7. e <= n /\ n < e + s.interval
  BY <1>1, <1>6, DivBounds
<1>8. PeriodStart(s) = s.start + e
  BY <1>5, <1>6 DEF PeriodStart
<1> QED
  BY <1>1, <1>2, <1>4, <1>7, <1>8

-------------------------------------------------------------------------------
(***************************************************************************)
(* The inductive invariant, for one subscription.                          *)
(***************************************************************************)
WithinOwnCap(s) == s.cap # None => s.charged <= s.cap
PrepaidFits(s) == s.plan = None /\ s.cap # None => s.charged + s.prepaid <= s.cap
BooksAgree(s) ==
  s.charged = s.billed["interval"] + s.billed["usage"] + s.billed["one_off"]
PeriodsClosed(s) == s.snaps \subseteq 1 .. s.period
\* Without a plan the terms never change, so the billing date stays on the
\* grid of the interval.
OnGrid(s) ==
  s.plan = None => /\ s.amount > 0
                   /\ s.last_payment = s.start + s.period * s.interval

SubInv(s) == /\ WithinOwnCap(s) /\ PrepaidFits(s) /\ BooksAgree(s)
             /\ PeriodsClosed(s) /\ OnGrid(s)

\* Only a plan can price a charge at nothing; and no batch item is refused
\* after its debit because of a snapshot.
LEMMA AbortNeedsPlan ==
  ASSUME TypeOK, NEW s \in Subscription, SubInv(s), Due(s),
         NEW a \in ChargeAmounts(s), ~CanClose(s, a)
  PROVE  s.plan # None
<1>1. SUFFICES ASSUME s.plan = None PROVE FALSE
  OBVIOUS
<1>2. a > 0
  <2>1. s.amount > 0
    BY <1>1 DEF SubInv, OnGrid
  <2> QED BY <2>1 DEF ChargeAmounts, PricedReplies
<1>3. PeriodIndex(s) \notin s.snaps
  <2>1. PeriodIndex(s) \in Nat /\ s.period \in Nat
    BY PeriodIndexNat DEF TypeOK, Subscription
  <2> QED BY <2>1 DEF SubInv, PeriodsClosed, Due
<1> QED
  BY <1>2, <1>3 DEF CanClose

\* A new subscription satisfies its invariant.
LEMMA FreshInv ==
  ASSUME NEW s, Fresh(s)
  PROVE  SubInv(s)
<1>1. /\ s \in Subscription
      /\ s.charged = 0 /\ s.prepaid = 0 /\ s.snaps = {} /\ s.period = 0
      /\ s.billed = [k \in Kinds |-> 0]
      /\ s.start = now /\ s.last_payment = now
      /\ s.plan = None => s.amount > 0
  BY DEF Fresh
<1>2. /\ s.cap \in Nat \cup {None} /\ s.interval \in Nat /\ s.start \in Nat
  BY <1>1 DEF Subscription
<1>3. BooksAgree(s)
  <2>1. s.billed["interval"] = 0 /\ s.billed["usage"] = 0 /\ s.billed["one_off"] = 0
    BY <1>1 DEF Kinds
  <2> QED BY <1>1, <2>1 DEF BooksAgree
<1>4. WithinOwnCap(s) /\ PrepaidFits(s) /\ PeriodsClosed(s)
  BY <1>1, <1>2 DEF WithinOwnCap, PrepaidFits, PeriodsClosed
<1>5. OnGrid(s)
  BY <1>1, <1>2 DEF OnGrid
<1> QED
  BY <1>3, <1>4, <1>5 DEF SubInv

\* Each of the seven ways preserves the invariant of the subscription.
LEMMA SubInvStep ==
  ASSUME TypeOK, NEW s \in Subscription, NEW t, SubInv(s), SubStep(s, t)
  PROVE  SubInv(t)
<1>1. /\ t \in Subscription /\ now \in Nat
  BY SubStepType DEF TypeOK
<1>2. /\ s.charged \in Nat /\ s.prepaid \in Nat /\ s.cap \in Nat \cup {None}
      /\ s.billed \in [Kinds -> Nat] /\ s.period \in Nat /\ s.snaps \subseteq Nat
      /\ t.prepaid \in Nat /\ t.cap \in Nat \cup {None}
  BY <1>1 DEF Subscription
<1>3. CASE Unbilled(s, t) /\ t.prepaid <= s.prepaid
  <2>1. WithinOwnCap(t) /\ BooksAgree(t) /\ PeriodsClosed(t) /\ OnGrid(t)
    BY <1>3 DEF SubInv, WithinOwnCap, BooksAgree, PeriodsClosed, OnGrid,
                Unbilled, SameTerms, SameBooks, SamePeriod
  <2>2. PrepaidFits(t)
    BY <1>2, <1>3 DEF SubInv, PrepaidFits, Unbilled, SameTerms, SameBooks
  <2> QED BY <2>1, <2>2 DEF SubInv
<1>4. CASE Unbilled(s, t) /\ Deposited(s, t)
  <2>1. WithinOwnCap(t) /\ BooksAgree(t) /\ PeriodsClosed(t) /\ OnGrid(t)
    BY <1>4 DEF SubInv, WithinOwnCap, BooksAgree, PeriodsClosed, OnGrid,
                Unbilled, SameTerms, SameBooks, SamePeriod
  <2>2. PICK a \in Nat : DepositWithinCap(s, a) /\ t = ToppedUp(s, a)
    BY <1>4 DEF Deposited
  <2>3. t.prepaid = s.prepaid + a
    BY <2>2 DEF ToppedUp, Subscription
  <2>4. PrepaidFits(t)
    BY <1>2, <1>4, <2>2, <2>3
       DEF PrepaidFits, DepositWithinCap, Unbilled, SameTerms, SameBooks
  <2> QED BY <2>1, <2>4 DEF SubInv
<1>5. CASE Reterms(s, t)
  <2>1. WithinOwnCap(t) /\ PrepaidFits(t) /\ OnGrid(t)
    BY <1>5 DEF Reterms, WithinOwnCap, PrepaidFits, OnGrid, SameBooks
  <2>2. BooksAgree(t) /\ PeriodsClosed(t)
    BY <1>5 DEF SubInv, Reterms, BooksAgree, PeriodsClosed, SameBooks, SamePeriod
  <2> QED BY <2>1, <2>2 DEF SubInv
<1>6. ASSUME NEW a \in Nat, NEW k \in Kinds, Bills(s, t, a, k),
             Closes(s, t) \/ Aborts(s, t, a) \/ Spends(s, t)
      PROVE  SubInv(t)
  <2>1. WithinOwnCap(t)
    BY <1>6 DEF Bills, WithinCap, WithinOwnCap, SameTerms
  <2>2. PrepaidFits(t)
    BY <1>2, <1>6 DEF SubInv, PrepaidFits, Bills, SameTerms
  <2>3. BooksAgree(t)
    <3>1. /\ s.billed["interval"] \in Nat /\ s.billed["usage"] \in Nat
          /\ s.billed["one_off"] \in Nat
      BY <1>2 DEF Kinds
    <3>2. \/ /\ t.billed["interval"] = s.billed["interval"] + a
             /\ t.billed["usage"] = s.billed["usage"]
             /\ t.billed["one_off"] = s.billed["one_off"]
          \/ /\ t.billed["interval"] = s.billed["interval"]
             /\ t.billed["usage"] = s.billed["usage"] + a
             /\ t.billed["one_off"] = s.billed["one_off"]
          \/ /\ t.billed["interval"] = s.billed["interval"]
             /\ t.billed["usage"] = s.billed["usage"]
             /\ t.billed["one_off"] = s.billed["one_off"] + a
      BY <1>2, <1>6 DEF Bills, Kinds
    <3> QED BY <1>2, <1>6, <3>1, <3>2 DEF SubInv, BooksAgree, Bills
  <2>4. PeriodIndex(s) \in Nat
    BY <1>1, PeriodIndexNat
  <2>5. CASE Closes(s, t)
    <3>1. PeriodsClosed(t)
      BY <1>2, <2>4, <2>5
         DEF SubInv, PeriodsClosed, Closes, BillsInterval, Due
    <3>2. OnGrid(t)
      BY <1>6, <2>5
         DEF SubInv, OnGrid, Closes, BillsInterval, PeriodStart, Bills, SameTerms
    <3> QED BY <2>1, <2>2, <2>3, <3>1, <3>2 DEF SubInv
  <2>6. CASE Aborts(s, t, a)
    <3>1. s.plan # None
      BY <2>6, AbortNeedsPlan DEF Aborts, BillsInterval
    <3>2. PeriodsClosed(t) /\ OnGrid(t)
      BY <1>6, <2>6, <3>1
         DEF SubInv, PeriodsClosed, OnGrid, Aborts, Bills, SameTerms
    <3> QED BY <2>1, <2>2, <2>3, <3>2 DEF SubInv
  <2>7. CASE Spends(s, t)
    <3>1. PeriodsClosed(t) /\ OnGrid(t)
      BY <1>6, <2>7
         DEF SubInv, PeriodsClosed, OnGrid, Spends, SamePeriod, Bills, SameTerms
    <3> QED BY <2>1, <2>2, <2>3, <3>1 DEF SubInv
  <2> QED BY <1>6, <2>5, <2>6, <2>7
<1> QED
  BY <1>1, <1>2, <1>3, <1>4, <1>5, <1>6, SubStepFields

-------------------------------------------------------------------------------
(***************************************************************************)
(* The inductive invariant of the contract.                                *)
(***************************************************************************)
IInv ==
  /\ IType
  /\ \A id \in DOMAIN subs : SubInv(subs[id]) /\ subs[id].last_payment <= now

\* What one step does to the subscriptions that exist, and to a new one.
EachSub ==
  /\ \A id \in DOMAIN subs :
       /\ id \in DOMAIN subs'
       /\ subs'[id] = subs[id] \/ SubStep(subs[id], subs'[id])
  /\ \A id \in DOMAIN subs' :
       id \notin DOMAIN subs => ~config.stopped /\ Fresh(subs'[id])
  /\ nextId' # nextId => ~config.stopped
  /\ now' \in Nat /\ now' >= now

\* Every step of the contract relates old and new records by EachSub.
LEMMA EachSubStep ==
  ASSUME IType, [Next]_vars
  PROVE  EachSub
<1>1. /\ nextId \in Nat /\ DOMAIN subs = 0 .. (nextId - 1) /\ now \in Nat
  BY VaultAssumption DEF IType, TypeOK, VaultAssumption
<1>2. CASE UNCHANGED vars
  BY <1>1, <1>2 DEF vars, EachSub
<1>3. CASE Sound
  <2>1. now' \in Nat /\ now' >= now
    BY <1>3 DEF Sound, TypeOK
  <2>2. CASE subs' = subs /\ nextId' = nextId
    BY <2>1, <2>2 DEF EachSub
  <2>3. ASSUME NEW id \in DOMAIN subs, NEW t \in Subscription,
               SubStep(subs[id], t), subs' = [subs EXCEPT ![id] = t],
               nextId' = nextId
        PROVE  EachSub
    <3>1. /\ DOMAIN subs' = DOMAIN subs /\ subs'[id] = t
          /\ \A j \in DOMAIN subs : j # id => subs'[j] = subs[j]
      BY <2>3
    <3> QED BY <2>1, <2>3, <3>1 DEF EachSub
  <2>4. ASSUME ~config.stopped, NEW s \in Subscription, Fresh(s),
               subs' = [id \in 0 .. nextId |->
                          IF id # nextId THEN subs[id] ELSE s]
        PROVE  EachSub
    <3>1. /\ DOMAIN subs' = 0 .. nextId /\ subs'[nextId] = s
          /\ \A j \in DOMAIN subs : j \in DOMAIN subs' /\ subs'[j] = subs[j]
          /\ \A j \in DOMAIN subs' : j \notin DOMAIN subs => j = nextId
      BY <1>1, <2>4
    <3> QED BY <2>1, <2>4, <3>1 DEF EachSub
  <2> QED
    BY <1>3, <2>2, <2>3, <2>4 DEF Sound, SubsStep
<1> QED
  BY <1>2, <1>3, StepIType

\* The billing date moves forward, and strictly when a period closes.
LEMMA BillingDateStep ==
  ASSUME IType, NEW s \in Subscription, NEW t, SubStep(s, t),
         s.last_payment <= now
  PROVE  /\ s.last_payment <= t.last_payment /\ t.last_payment <= now
         /\ s.period <= t.period
         /\ t.period # s.period => s.last_payment < t.last_payment
<1>1. now \in Nat /\ s.last_payment \in Nat /\ s.period \in Nat
  BY DEF IType, TypeOK, Subscription
<1>2. CASE SamePeriod(s, t)
  BY <1>1, <1>2 DEF SamePeriod
<1>3. CASE BillsInterval(s, t) /\ t.period \in {s.period, PeriodIndex(s)}
  <2>1. s.last_payment < PeriodStart(s) /\ PeriodStart(s) <= now
    BY <1>1, <1>3, DueAdvances DEF BillsInterval
  <2>2. PeriodStart(s) \in Nat /\ PeriodIndex(s) \in Nat
    BY <1>1, PeriodStartNat, PeriodIndexNat
  <2> QED BY <1>1, <1>3, <2>1, <2>2 DEF BillsInterval, Due
<1> QED
  BY <1>1, <1>2, <1>3, SubStepFields
     DEF Unbilled, Reterms, Closes, Aborts, Spends

\* The inductive step.
LEMMA StepIInv ==
  ASSUME IInv, [Next]_vars
  PROVE  IInv'
<1>1. IType /\ IType' /\ EachSub
  BY StepIType, EachSubStep DEF IInv
<1>2. ASSUME NEW id \in DOMAIN subs'
      PROVE  SubInv(subs'[id]) /\ subs'[id].last_payment <= now'
  <2>1. now \in Nat /\ now' \in Nat /\ now' >= now
    BY <1>1 DEF IType, TypeOK, EachSub
  <2>2. CASE id \notin DOMAIN subs
    <3>1. Fresh(subs'[id])
      BY <1>1, <1>2, <2>2 DEF EachSub
    <3>2. SubInv(subs'[id]) /\ subs'[id].last_payment = now
      BY <3>1, FreshInv DEF Fresh
    <3> QED BY <2>1, <3>2
  <2>3. CASE id \in DOMAIN subs
    <3> DEFINE s == subs[id]
    <3>1. /\ s \in Subscription /\ SubInv(s) /\ s.last_payment <= now
          /\ s.last_payment \in Nat
      BY <1>1, <2>3, KnownType DEF IInv, IType, Subscription
    <3>2. CASE subs'[id] = s
      BY <2>1, <3>1, <3>2
    <3>3. CASE SubStep(s, subs'[id])
      <4>1. SubInv(subs'[id]) /\ subs'[id].last_payment <= now
        BY <1>1, <3>1, <3>3, SubInvStep, BillingDateStep DEF IType
      <4>2. subs'[id] \in Subscription
        BY <1>1, <1>2 DEF IType, TypeOK
      <4>3. subs'[id].last_payment \in Nat
        BY <4>2 DEF Subscription
      <4> QED BY <2>1, <4>1, <4>3
    <3> QED BY <1>1, <2>3, <3>2, <3>3 DEF EachSub
  <2> QED BY <2>2, <2>3
<1> QED
  BY <1>1, <1>2 DEF IInv, SubInv, WithinOwnCap, PrepaidFits, BooksAgree,
                    PeriodsClosed, OnGrid

\* There is nothing to show of an empty table.
LEMMA InitIInv == Init => IInv
<1> SUFFICES ASSUME Init PROVE IInv
  OBVIOUS
<1>1. DOMAIN subs = {}
  BY DEF Init
<1> QED
  BY <1>1, InitIType DEF IInv

\* The inductive invariant, of which the theorems below are consequences.
THEOREM Invariant == Spec => []IInv
<1>1. IInv /\ [Next]_vars => IInv'
  BY StepIInv
<1> QED
  BY InitIInv, <1>1, PTL DEF Spec

-------------------------------------------------------------------------------
(***************************************************************************)
(* Invariants.                                                             *)
(***************************************************************************)
\* No charge path (charge_one, charge_usage_one, do_charge_one_off), alone or
\* in a batch, and no migration takes lifetime_charged past the lifetime cap.
THEOREM CapTheorem == Spec => []CapRespected
<1>1. IInv => CapRespected
  BY DEF IInv, SubInv, WithinOwnCap, CapRespected
<1> QED
  BY Invariant, <1>1, PTL

\* Without a plan, everything prepaid could still be charged under the cap:
\* enforce_deposit_cap never lets a subscriber lock money beyond it.
THEOREM PrepaidTheorem == Spec => []PrepaidChargeable
<1>1. IInv => PrepaidChargeable
  BY DEF IInv, SubInv, PrepaidFits, PrepaidChargeable
<1> QED
  BY Invariant, <1>1, PTL

\* lifetime_charged is the sum of the subscription's statement rows.
THEOREM BooksTheorem == Spec => []ChargedIsBilled
<1>1. IInv => ChargedIsBilled
  BY DEF IInv, SubInv, BooksAgree, ChargedIsBilled
<1> QED
  BY Invariant, <1>1, PTL

\* ChargedPeriod is ahead of every closed snapshot, so write_period_snapshot
\* never refuses after charge_one has stored the debit.
THEOREM SnapshotTheorem == Spec => []SnapshotNeverReopened
<1>1. IInv => SnapshotNeverReopened
  BY DEF IInv, SubInv, PeriodsClosed, SnapshotNeverReopened
<1> QED
  BY Invariant, <1>1, PTL

\* A charge of a subscription without a plan that is due by its billing date
\* is never refused as a replay of a charged period.
THEOREM DueTheorem == Spec => []DueWithoutPlan
<1>1. ASSUME IInv PROVE DueWithoutPlan
  <2>1. SUFFICES ASSUME NEW id \in DOMAIN subs, subs[id].plan = None,
                        now >= NextChargeTime(subs[id])
                 PROVE  PeriodIndex(subs[id]) > subs[id].period
    BY DEF DueWithoutPlan, DueIsNotReplay
  <2> DEFINE s == subs[id]
  <2>2. s \in Subscription /\ now \in Nat /\ OnGrid(s)
    BY <1>1, KnownType DEF IInv, IType, SubInv
  <2>3. s.start \in Nat /\ s.interval \in Nat \ {0} /\ s.period \in Nat
    BY <2>2 DEF Subscription
  <2>4. PICK e \in Nat : e = s.period * s.interval
    BY <2>3, SMT
  <2>5. now >= s.start + e + s.interval
    BY <2>1, <2>2, <2>3, <2>4 DEF OnGrid, NextChargeTime
  <2>6. PICK n \in Nat : n = now - s.start /\ now >= s.start
    BY <2>2, <2>3, <2>5
  <2>7. n >= s.period * s.interval + s.interval
    BY <2>2, <2>3, <2>4, <2>5, <2>6
  <2>8. n \div s.interval > s.period
    BY <2>3, <2>7, DivAtLeast
  <2> QED BY <2>6, <2>8 DEF PeriodIndex
<1> QED
  BY Invariant, <1>1, PTL

-------------------------------------------------------------------------------
(***************************************************************************)
(* Action properties.                                                      *)
(***************************************************************************)
LEMMA StepTransition ==
  ASSUME NEW s \in Subscription, NEW t, now \in Nat, SubStep(s, t)
  PROVE  \/ CanTransition(s.status, t.status)
         \/ /\ t.status = Archived /\ IsExpired(s)
            /\ CanTransition(s.status, Expired)
<1>1. \A st : CanTransition(st, st)
  BY DEF CanTransition
<1>2. CASE Restatused(s, t)
  <2>1. PICK st \in Statuses :
          /\ \/ CanTransition(s.status, st)
             \/ st = Archived /\ IsExpired(s) /\ CanTransition(s.status, Expired)
          /\ t = [s EXCEPT !.status = st]
    BY <1>2 DEF Restatused
  <2>2. t.status = st
    BY <2>1 DEF Subscription
  <2> QED BY <2>1, <2>2
<1>3. CASE Deposited(s, t)
  <2>1. \/ t.status = s.status
        \/ s.status \in {InsufficientBalance, GracePeriod} /\ t.status = Active
    BY <1>3 DEF Deposited, ToppedUp, Subscription
  <2>2. CanTransition(InsufficientBalance, Active) /\ CanTransition(GracePeriod, Active)
    BY DEF CanTransition, AllowedTransitions, Active, Paused, Cancelled,
           InsufficientBalance, GracePeriod, Expired, Archived
  <2> QED BY <1>1, <2>1, <2>2
<1>4. CASE t.status = s.status
  BY <1>1, <1>4
<1>5. CASE BillsInterval(s, t)
  BY <1>5, ChargeTransitions DEF BillsInterval
<1>6. CASE s.status \in {Active, GracePeriod, Paused} /\ Spends(s, t)
  <2>1. CanTransition(Paused, Cancelled)
    BY DEF CanTransition, AllowedTransitions, Active, Paused, Cancelled,
           InsufficientBalance, GracePeriod, Expired, Archived
  <2> QED BY <1>1, <1>6, <2>1, ChargeTransitions DEF Spends
<1> QED
  BY <1>2, <1>3, <1>4, <1>5, <1>6, SubStepFields
     DEF Reterms, Bills, Closes, Aborts

\* Every stored status change is one validate_status_transition allows, or
\* the two steps of cleanup: also the one deposit_funds writes without
\* consulting it.
THEOREM StatusTheorem == Spec => StatusFollowsMachine
<1>1. ASSUME IInv, [Next]_vars, NEW id \in DOMAIN subs
      PROVE  \/ CanTransition(subs[id].status, subs'[id].status)
             \/ /\ subs'[id].status = Archived /\ IsExpired(subs[id])
                /\ CanTransition(subs[id].status, Expired)
  <2>1. IType /\ EachSub /\ subs[id] \in Subscription /\ now \in Nat
    BY <1>1, EachSubStep, KnownType DEF IInv, IType
  <2>2. CASE subs'[id] = subs[id]
    BY <2>2 DEF CanTransition
  <2>3. CASE SubStep(subs[id], subs'[id])
    BY <2>1, <2>3, StepTransition
  <2> QED BY <1>1, <2>1, <2>2, <2>3 DEF EachSub
<1>2. IInv /\ [Next]_vars => [StatusStep]_vars
  BY <1>1 DEF StatusStep
<1> QED
  BY Invariant, <1>2, PTL DEF Spec, StatusFollowsMachine

\* Past its expiry or in a terminal status a subscription is never charged
\* again, on any of the charge paths.
THEOREM EndedTheorem == Spec => NoChargeAfterEnd
<1>1. ASSUME IInv, [Next]_vars, NEW id \in DOMAIN subs,
             IsExpired(subs[id]) \/ subs[id].status \in Terminal
      PROVE  subs'[id].charged = subs[id].charged
  <2>1. EachSub /\ subs[id] \in Subscription /\ now \in Nat
    BY <1>1, EachSubStep, KnownType DEF IInv, IType
  <2>2. ASSUME NEW a, NEW k, Bills(subs[id], subs'[id], a, k) PROVE FALSE
    BY <1>1, <2>2 DEF Bills, Terminal, Active, GracePeriod, Paused, Cancelled,
                      Expired, Archived
  <2>3. CASE SubStep(subs[id], subs'[id])
    BY <2>1, <2>2, <2>3, SubStepFields DEF Unbilled, Reterms, SameBooks
  <2> QED BY <1>1, <2>1, <2>3 DEF EachSub
<1>2. IInv /\ [Next]_vars => [EndedStep]_vars
  BY <1>1 DEF EndedStep
<1> QED
  BY Invariant, <1>2, PTL DEF Spec, NoChargeAfterEnd

\* Under the emergency stop no subscription is created, charged or paid into;
\* a batch that began before the stop is one call and cannot be overtaken.
THEOREM StopTheorem == Spec => StopFreezes
<1>1. ASSUME IInv, [Next]_vars, config.stopped, NEW id \in DOMAIN subs
      PROVE  /\ subs'[id].charged = subs[id].charged
             /\ subs'[id].prepaid <= subs[id].prepaid
  <2>1. EachSub /\ subs[id] \in Subscription /\ now \in Nat
    BY <1>1, EachSubStep, KnownType DEF IInv, IType
  <2>2. subs[id].prepaid \in Nat
    BY <2>1 DEF Subscription
  <2>3. CASE SubStep(subs[id], subs'[id])
    BY <1>1, <2>1, <2>2, <2>3, SubStepFields
       DEF Unbilled, Reterms, SameBooks, Bills, Deposited
  <2> QED BY <1>1, <2>1, <2>2, <2>3 DEF EachSub
<1>2. ASSUME IInv, [Next]_vars, config.stopped
      PROVE  nextId' = nextId
  BY <1>2, EachSubStep DEF EachSub, IInv
<1>3. IInv /\ [Next]_vars => [StoppedStep]_vars
  BY <1>1, <1>2 DEF StoppedStep
<1> QED
  BY Invariant, <1>3, PTL DEF Spec, StopFreezes

\* While a merchant is paused by either switch, no interval or usage charge
\* reaches its subscriptions.
THEOREM PauseTheorem == Spec => PauseHolds
<1>1. ASSUME IInv, [Next]_vars, NEW id \in DOMAIN subs,
             IsMerchantPaused(subs[id].merchant)
      PROVE  /\ subs'[id].billed["interval"] = subs[id].billed["interval"]
             /\ subs'[id].billed["usage"] = subs[id].billed["usage"]
  <2> DEFINE s == subs[id] t == subs'[id]
  <2>1. EachSub /\ s \in Subscription /\ now \in Nat
    BY <1>1, EachSubStep, KnownType DEF IInv, IType
  <2>2. s.prepaid \in Nat /\ s.billed \in [Kinds -> Nat]
    BY <2>1 DEF Subscription
  <2>3. ASSUME NEW a \in Nat, NEW k \in Kinds, Bills(s, t, a, k)
        PROVE  /\ t.billed["interval"] = s.billed["interval"]
               /\ t.billed["usage"] = s.billed["usage"]
    <3>1. t.billed = [s.billed EXCEPT !["one_off"] = @ + a]
      BY <1>1, <2>3 DEF Bills
    <3> QED BY <2>2, <3>1 DEF Kinds
  <2>4. CASE SubStep(s, t)
    BY <1>1, <2>1, <2>2, <2>3, <2>4, SubStepFields
       DEF Unbilled, Reterms, SameBooks, Deposited
  <2> QED BY <1>1, <2>1, <2>2, <2>4 DEF EachSub
<1>2. IInv /\ [Next]_vars => [PausedStep]_vars
  BY <1>1 DEF PausedStep
<1> QED
  BY Invariant, <1>2, PTL DEF Spec, PauseHolds

\* A blocked subscriber gets no new subscription, pays nothing in and is not
\* moved to another plan.
THEOREM BlocklistTheorem == Spec => BlocklistHolds
<1>1. ASSUME IInv, [Next]_vars, NEW c \in config.blocklist,
             NEW id \in DOMAIN subs', subs'[id].subscriber = c
      PROVE  /\ id \in DOMAIN subs
             /\ subs'[id].prepaid <= subs[id].prepaid
             /\ subs'[id].plan = subs[id].plan
  <2>1. EachSub
    BY <1>1, EachSubStep DEF IInv
  <2>2. id \in DOMAIN subs
    BY <1>1, <2>1 DEF EachSub, Fresh, IsBlocklisted
  <2> DEFINE s == subs[id] t == subs'[id]
  <2>3. s \in Subscription /\ now \in Nat
    BY <1>1, <2>2, KnownType DEF IInv, IType
  <2>4. s.prepaid \in Nat
    BY <2>3 DEF Subscription
  <2>5. CASE SubStep(s, t)
    <3>1. t.subscriber = s.subscriber
      BY <2>3, <2>5, SubStepFields DEF Unbilled, Reterms, Bills, SameTerms
    <3>2. ~Deposited(s, t) /\ ~Reterms(s, t)
      BY <1>1, <3>1 DEF Deposited, Reterms, Migrated, IsBlocklisted
    <3>3. ASSUME NEW a \in Nat, NEW k \in Kinds, Bills(s, t, a, k)
          PROVE  t.prepaid <= s.prepaid /\ t.plan = s.plan
      BY <2>4, <3>3 DEF Bills, SameTerms
    <3> QED BY <2>2, <2>3, <2>4, <2>5, <3>2, <3>3, SubStepFields
            DEF Unbilled, SameTerms
  <2> QED BY <2>1, <2>2, <2>4, <2>5 DEF EachSub
<1>2. IInv /\ [Next]_vars => [BlocklistStep]_vars
  BY <1>1 DEF BlocklistStep
<1> QED
  BY Invariant, <1>2, PTL DEF Spec, BlocklistHolds

\* The billing date and ChargedPeriod only move forward and never ahead of
\* the clock, also when a migration changes the interval in between.
THEOREM BillingTheorem == Spec => BillingTimeAdvances
<1>1. ASSUME IInv, [Next]_vars, NEW id \in DOMAIN subs
      PROVE  /\ subs'[id].last_payment >= subs[id].last_payment
             /\ subs'[id].period >= subs[id].period
             /\ subs'[id].period # subs[id].period =>
                  subs[id].last_payment < subs'[id].last_payment
             /\ subs'[id].last_payment <= now'
  <2>1. /\ IType /\ EachSub /\ subs[id] \in Subscription /\ now \in Nat
        /\ subs[id].last_payment <= now /\ now' \in Nat /\ now' >= now
    BY <1>1, EachSubStep, KnownType DEF IInv, IType, EachSub
  <2>2. subs[id].last_payment \in Nat /\ subs[id].period \in Nat
    BY <2>1 DEF Subscription
  <2>3. CASE SubStep(subs[id], subs'[id])
    <3>1. subs'[id] \in Subscription
      BY <2>1, <2>3, SubStepType
    <3>2. subs'[id].last_payment \in Nat /\ subs'[id].period \in Nat
      BY <3>1 DEF Subscription
    <3>3. /\ subs[id].last_payment <= subs'[id].last_payment
          /\ subs'[id].last_payment <= now
          /\ subs[id].period <= subs'[id].period
          /\ subs'[id].period # subs[id].period =>
               subs[id].last_payment < subs'[id].last_payment
      BY <2>1, <2>3, BillingDateStep
    <3> QED BY <2>1, <2>2, <3>2, <3>3
  <2> QED BY <1>1, <2>1, <2>2, <2>3 DEF EachSub
<1>2. IInv /\ [Next]_vars => [BillingStep]_vars
  BY <1>1 DEF BillingStep
<1> QED
  BY Invariant, <1>2, PTL DEF Spec, BillingTimeAdvances

-------------------------------------------------------------------------------
(***************************************************************************)
(* Prices.                                                                 *)
(***************************************************************************)
\* The quotient rounded up covers n, and one less does not.
LEMMA CeilingCovers ==
  ASSUME NEW n \in Int, NEW p \in Nat \ {0}
  PROVE  /\ Ceiling(n, p) \in Int
         /\ Ceiling(n, p) * p >= n /\ (Ceiling(n, p) - 1) * p < n
<1>1. PICK q \in Int : q = (n + (p - 1)) \div p
  BY SMT
<1>2. q * p <= n + (p - 1) /\ n + (p - 1) < q * p + p
  BY <1>1, SMT
<1>3. (q - 1) * p = q * p - p /\ q * p \in Int
  BY SMT
<1>4. q * p >= n /\ (q - 1) * p < n
  BY <1>2, <1>3
<1> QED BY <1>1, <1>4 DEF Ceiling

\* A quoted amount comes from a fresh answer and is rounded up.
LEMMA QuoteCovers ==
  ASSUME TypeOK, NEW s \in Subscription, NEW a \in ChargeAmounts(s),
         config.oracle.enabled
  PROVE  \E r \in OracleReplies :
           /\ r.timestamp # 0 /\ r.timestamp + config.oracle.max_age >= now
           /\ LET worth == s.amount * (IF s.token \in config.accepted
                                       THEN TokenScale[s.token] ELSE DefaultScale)
              IN  a * r.price >= worth /\ (a - 1) * r.price < worth
<1>1. PICK r \in OracleReplies : UsableReply(r) /\ a = QuotedAmount(s, r)
  BY DEF ChargeAmounts, PricedReplies
<1>2. /\ r.price \in Nat \ {0} /\ r.timestamp \in Nat /\ r.timestamp # 0
      /\ now - r.timestamp <= config.oracle.max_age
  BY <1>1, VaultAssumption DEF VaultAssumption, UsableReply
<1>3. now \in Nat /\ config.oracle.max_age \in Nat
  <2>1. config.oracle \in OracleConfig
    BY DEF TypeOK, Config
  <2> QED BY <2>1 DEF TypeOK, OracleConfig
<1>4. PICK scale \in Int :
        scale = IF s.token \in config.accepted
                THEN TokenScale[s.token] ELSE DefaultScale
  BY VaultAssumption DEF VaultAssumption, Subscription
<1>5. PICK worth \in Int : worth = s.amount * scale
  BY SMT DEF Subscription
<1>6. a = Ceiling(worth, r.price)
  BY <1>1, <1>4, <1>5, Zenon DEF QuotedAmount
<1>7. a * r.price >= worth /\ (a - 1) * r.price < worth
  BY <1>2, <1>6, CeilingCovers, Zenon
<1>8. r.timestamp + config.oracle.max_age >= now
  BY <1>2, <1>3
<1> QED BY <1>1, <1>2, <1>4, <1>5, <1>7, <1>8, Zenon

\* What an interval charge adds to the statements of its kind.
LEMMA IntervalGain ==
  ASSUME NEW s \in Subscription, NEW t, now \in Nat, SubStep(s, t),
         t.billed["interval"] - s.billed["interval"] > 0
  PROVE  t.billed["interval"] - s.billed["interval"] \in ChargeAmounts(s)
<1>1. s.billed \in [Kinds -> Nat] /\ "interval" \in Kinds
  BY DEF Subscription, Kinds
<1>2. CASE SameBooks(s, t)
  BY <1>1, <1>2 DEF SameBooks
<1>3. ASSUME NEW a \in Nat, NEW k \in Kinds, Bills(s, t, a, k),
             Priced(s, a, k) \/ k # "interval"
      PROVE  t.billed["interval"] - s.billed["interval"] \in ChargeAmounts(s)
  <2>1. t.billed = [s.billed EXCEPT ![k] = @ + a]
    BY <1>3 DEF Bills
  <2>2. CASE Priced(s, a, k)
    BY <1>1, <2>1, <2>2 DEF Priced
  <2>3. CASE k # "interval"
    BY <1>1, <2>1, <2>3
  <2> QED BY <1>3, <2>2, <2>3
<1> QED BY <1>2, <1>3, SubStepFields DEF Unbilled, Reterms

(***************************************************************************)
(* With the oracle on, an interval charge takes the least number of units  *)
(* worth the amount, at the price of some answer that is fresh now.        *)
(***************************************************************************)
THEOREM OracleTheorem == Spec => OraclePriceCovers
<1>1. ASSUME IType, [Next]_vars
      PROVE  OraclePriceStep
  <2>1. SUFFICES ASSUME NEW id \in DOMAIN subs, config.oracle.enabled,
                        subs'[id].billed["interval"] - subs[id].billed["interval"] > 0
                 PROVE  subs'[id].billed["interval"] - subs[id].billed["interval"]
                          \in ChargeAmounts(subs[id])
    BY <1>1, KnownType, QuoteCovers DEF OraclePriceStep, IType
  <2>2. EachSub /\ subs[id] \in Subscription /\ now \in Nat
    BY <1>1, EachSubStep, KnownType DEF IType
  <2>3. CASE SubStep(subs[id], subs'[id])
    BY <2>1, <2>2, <2>3, IntervalGain
  <2>4. CASE subs'[id] = subs[id]
    <3>1. subs[id].billed \in [Kinds -> Nat] /\ "interval" \in Kinds
      BY <2>2 DEF Subscription, Kinds
    <3> QED BY <2>1, <2>4, <3>1
  <2> QED BY <2>2, <2>3, <2>4 DEF EachSub
<1>2. IType /\ [Next]_vars => [OraclePriceStep]_vars
  BY <1>1
<1> QED BY <1>2, Foundation, PTL DEF Spec, OraclePriceCovers

-------------------------------------------------------------------------------
(***************************************************************************)
(* Without the oracle an interval charge takes the amount of the           *)
(* subscription, and two more properties hold.                             *)
(***************************************************************************)
FixedPrice == ~config.oracle.enabled \/ OracleReplies = {}

\* An interval charge takes the amount of the subscription and nothing else.
LEMMA FixedAmounts ==
  ASSUME FixedPrice, NEW s, NEW a \in ChargeAmounts(s)
  PROVE  a = s.amount
  BY DEF FixedPrice, ChargeAmounts, PricedReplies

\* One subscription of the two properties.
Underfunded(s) ==
  s.plan = None /\ s.status \in Waiting => s.prepaid < s.amount

\* A subscription starts to wait when it cannot pay, and a deposit that
\* covers the interval ends the wait.
LEMMA UnderfundedStep ==
  ASSUME FixedPrice, now \in Nat, NEW s \in Subscription, NEW t \in Subscription,
         SubInv(s), Underfunded(s), SubStep(s, t)
  PROVE  Underfunded(t)
<1>1. /\ s.prepaid \in Nat /\ s.amount \in Int /\ t.prepaid \in Nat
      /\ t.amount \in Int /\ s.plan = None => s.amount > 0
  BY DEF Subscription, SubInv, OnGrid
<1>2. CASE Unbilled(s, t) /\ Restatused(s, t) /\ t.prepaid = s.prepaid
  <2>1. PICK st \in Statuses :
          /\ st \in Waiting => \E a \in ChargeAmounts(s) : ~CanPay(s, a)
          /\ t = [s EXCEPT !.status = st]
    BY <1>2 DEF Restatused
  <2>2. t.status = st /\ t.amount = s.amount /\ t.plan = s.plan
    BY <2>1 DEF Subscription
  <2>3. (\E a \in ChargeAmounts(s) : ~CanPay(s, a)) => ~CanPay(s, s.amount)
    BY FixedAmounts
  <2> QED BY <1>1, <1>2, <2>1, <2>2, <2>3 DEF Underfunded, CanPay
<1>3. CASE Deposited(s, t)
  <2>1. PICK a \in Nat : t = ToppedUp(s, a)
    BY <1>3 DEF Deposited
  <2>2. /\ t.prepaid = s.prepaid + a /\ t.amount = s.amount /\ t.plan = s.plan
        /\ t.status = IF s.status \in Waiting /\ s.prepaid + a >= s.amount
                      THEN Active ELSE s.status
    BY <2>1 DEF ToppedUp, Subscription, Waiting
  <2> QED BY <1>1, <2>2, NotWaiting DEF Underfunded
<1>4. CASE /\ Unbilled(s, t) /\ t.status = s.status /\ t.prepaid <= s.prepaid
  BY <1>1, <1>4 DEF Underfunded, Unbilled, SameTerms
<1>5. CASE Reterms(s, t)
  BY <1>5 DEF Reterms, Underfunded
<1>6. ASSUME NEW a \in Nat, NEW k \in Kinds, Bills(s, t, a, k),
             Closes(s, t) \/ Aborts(s, t, a) \/ Spends(s, t)
      PROVE  Underfunded(t)
  <2>1. CASE BillsInterval(s, t)
    BY <2>1, NotWaiting DEF BillsInterval, Underfunded
  <2>2. CASE Spends(s, t)
    BY <1>1, <1>6, <2>2, NotWaiting DEF Spends, Underfunded, Bills, SameTerms
  <2> QED BY <1>6, <2>1, <2>2 DEF Closes, Aborts
<1> QED BY <1>2, <1>3, <1>4, <1>5, <1>6, SubStepFields

\* What waits for money lacks it, as long as the oracle sets no price: when an
\* oracle price is above the amount, a subscription that has the amount prepaid
\* cannot pay and waits all the same.
THEOREM WaitingTheorem == Spec /\ []FixedPrice => []WaitingIsUnderfunded
<1>1. ASSUME IInv, FixedPrice, WaitingIsUnderfunded, [Next]_vars
      PROVE  WaitingIsUnderfunded'
  <2>1. SUFFICES ASSUME NEW id \in DOMAIN subs' PROVE Underfunded(subs'[id])
    BY DEF WaitingIsUnderfunded, Underfunded, Waiting
  <2>2. EachSub /\ TypeOK /\ TypeOK' /\ now \in Nat
    BY <1>1, EachSubStep, StepIType DEF IInv, IType, TypeOK
  <2>3. subs'[id] \in Subscription
    BY <2>2 DEF TypeOK
  <2>4. CASE id \notin DOMAIN subs
    <3>1. subs'[id].prepaid = 0 /\ (subs'[id].plan = None => subs'[id].amount > 0)
      BY <2>2, <2>4 DEF EachSub, Fresh
    <3> QED BY <3>1 DEF Underfunded
  <2>5. CASE id \in DOMAIN subs
    <3>1. subs[id] \in Subscription /\ SubInv(subs[id]) /\ Underfunded(subs[id])
      BY <1>1, <2>2, <2>5, KnownType
         DEF IInv, WaitingIsUnderfunded, Underfunded, Waiting
    <3>2. CASE subs'[id] = subs[id]
      BY <3>1, <3>2
    <3>3. CASE SubStep(subs[id], subs'[id])
      BY <1>1, <2>2, <2>3, <3>1, <3>3, UnderfundedStep
    <3> QED BY <2>2, <2>5, <3>2, <3>3 DEF EachSub
  <2> QED BY <2>4, <2>5
<1>2. Init => WaitingIsUnderfunded
  BY DEF Init, WaitingIsUnderfunded
<1> QED BY <1>1, <1>2, Invariant, PTL DEF Spec

\* Every closed period was billed once, at the subscription's amount.
BilledBySnapshot(s) ==
  s.plan = None => s.billed["interval"] = s.amount * Cardinality(s.snaps)

\* Snapshots are periods that have passed.
LEMMA SnapshotsFinite ==
  ASSUME NEW s \in Subscription, SubInv(s)
  PROVE  /\ IsFiniteSet(s.snaps) /\ Cardinality(s.snaps) \in Nat
         /\ Cardinality(s.snaps) <= s.period
<1>1. s.period \in Nat /\ s.snaps \subseteq 1 .. s.period
  BY DEF Subscription, SubInv, PeriodsClosed
<1>2. IsFiniteSet(1 .. s.period) /\ Cardinality(1 .. s.period) = s.period
  <2>1. PICK b \in Nat : b = s.period
    BY <1>1
  <2>2. 1 \in Int /\ b \in Int
    OBVIOUS
  <2>3. /\ IsFiniteSet(1 .. b)
        /\ Cardinality(1 .. b) = IF 1 > b THEN 0 ELSE b - 1 + 1
    BY <2>2, FS_Interval, Zenon
  <2>4. Cardinality(1 .. b) = b
    BY <2>3
  <2> QED BY <2>1, <2>3, <2>4
<1> QED BY <1>1, <1>2, FS_Subset, FS_CardinalityType

\* However a record changes, its interval charges stay covered by snapshots.
LEMMA BilledBySnapshotStep ==
  ASSUME FixedPrice, TypeOK, NEW s \in Subscription, NEW t \in Subscription,
         SubInv(s), BilledBySnapshot(s), SubStep(s, t)
  PROVE  BilledBySnapshot(t)
<1>1. /\ s.billed \in [Kinds -> Nat] /\ "interval" \in Kinds /\ s.amount \in Int
      /\ now \in Nat
  BY DEF Subscription, Kinds, TypeOK
<1>2. CASE Unbilled(s, t)
  BY <1>2 DEF Unbilled, SameTerms, SameBooks, SamePeriod, BilledBySnapshot
<1>3. CASE Reterms(s, t)
  BY <1>3 DEF Reterms, BilledBySnapshot
<1>4. ASSUME NEW a \in Nat, NEW k \in Kinds, Bills(s, t, a, k), k # "interval",
             Spends(s, t)
      PROVE  BilledBySnapshot(t)
  BY <1>1, <1>4 DEF Bills, Spends, SameTerms, SamePeriod, BilledBySnapshot
<1>5. ASSUME NEW a \in Nat, NEW k \in Kinds, Bills(s, t, a, k), Priced(s, a, k),
             Aborts(s, t, a)
      PROVE  BilledBySnapshot(t)
  <2>1. s.plan # None
    BY <1>5, AbortNeedsPlan DEF Aborts, BillsInterval, Priced
  <2> QED BY <1>5, <2>1 DEF Bills, SameTerms, BilledBySnapshot
<1>6. ASSUME NEW a \in Nat, NEW k \in Kinds, Bills(s, t, a, k), Priced(s, a, k),
             CanClose(s, a), Closes(s, t)
      PROVE  BilledBySnapshot(t)
  <2>1. a = s.amount /\ t.amount = s.amount /\ t.plan = s.plan
    BY <1>6, FixedAmounts DEF Priced, Bills, SameTerms
  <2>2. t.billed["interval"] = s.billed["interval"] + a
    BY <1>1, <1>6 DEF Bills, Priced
  <2>3. t.snaps = s.snaps \cup {PeriodIndex(s)} /\ PeriodIndex(s) \notin s.snaps
    BY <1>6 DEF Closes, CanClose
  <2>4. PICK c \in Nat : c = Cardinality(s.snaps) /\ Cardinality(t.snaps) = c + 1
    <3>1. IsFiniteSet(s.snaps) /\ Cardinality(s.snaps) \in Nat
      BY SnapshotsFinite
    <3>2. Cardinality(s.snaps \cup {PeriodIndex(s)}) = Cardinality(s.snaps) + 1
      BY <2>3, <3>1, FS_AddElement
    <3> QED BY <2>3, <3>1, <3>2
  <2>5. s.amount * (c + 1) = s.amount * c + s.amount
    BY <1>1, SMT
  <2> QED BY <1>1, <2>1, <2>2, <2>4, <2>5 DEF BilledBySnapshot
<1> QED BY <1>1, <1>2, <1>3, <1>4, <1>5, <1>6, SubStepFields

\* At most one interval charge per whole interval since the start, and as many
\* as there are closed snapshots, as long as the oracle sets no price.
THEOREM PeriodTheorem == Spec /\ []FixedPrice => []BilledOncePerPeriod
<1> DEFINE BillsBySnapshot == \A id \in DOMAIN subs : BilledBySnapshot(subs[id])
<1>1. ASSUME IInv, FixedPrice, BillsBySnapshot, [Next]_vars
      PROVE  BillsBySnapshot'
  <2>1. SUFFICES ASSUME NEW id \in DOMAIN subs' PROVE BilledBySnapshot(subs'[id])
    BY DEF BilledBySnapshot
  <2>2. EachSub /\ TypeOK /\ TypeOK'
    BY <1>1, EachSubStep, StepIType DEF IInv, IType
  <2>3. subs'[id] \in Subscription
    BY <2>2 DEF TypeOK
  <2>4. CASE id \notin DOMAIN subs
    <3>1. /\ subs'[id].billed["interval"] = 0 /\ subs'[id].snaps = {}
          /\ subs'[id].amount \in Int
      BY <2>2, <2>3, <2>4 DEF EachSub, Fresh, Kinds, Subscription
    <3>2. Cardinality(subs'[id].snaps) = 0
      BY <3>1, FS_EmptySet
    <3>3. subs'[id].amount * 0 = 0
      BY <3>1, SMT
    <3> QED BY <3>1, <3>2, <3>3 DEF BilledBySnapshot
  <2>5. CASE id \in DOMAIN subs
    <3>1. subs[id] \in Subscription /\ SubInv(subs[id]) /\ BilledBySnapshot(subs[id])
      BY <1>1, <2>2, <2>5, KnownType DEF IInv
    <3>2. CASE subs'[id] = subs[id]
      BY <3>1, <3>2
    <3>3. CASE SubStep(subs[id], subs'[id])
      BY <1>1, <2>2, <2>3, <3>1, <3>3, BilledBySnapshotStep
    <3> QED BY <2>2, <2>5, <3>2, <3>3 DEF EachSub
  <2> QED BY <2>4, <2>5
<1>2. Init => BillsBySnapshot
  BY DEF Init
<1>3. ASSUME IInv, BillsBySnapshot
      PROVE  BilledOncePerPeriod
  <2>1. SUFFICES ASSUME NEW id \in DOMAIN subs, NEW s, s = subs[id], s.plan = None
                 PROVE  /\ s.billed["interval"] = s.amount * Cardinality(s.snaps)
                        /\ Cardinality(s.snaps) <= (now - s.start) \div s.interval
    BY DEF BilledOncePerPeriod
  <2>2. /\ s \in Subscription /\ SubInv(s) /\ s.last_payment <= now /\ now \in Nat
        /\ BilledBySnapshot(s)
    BY <1>3, <2>1, KnownType DEF IInv, IType
  <2>3. s.start \in Nat /\ s.period \in Nat /\ s.interval \in Nat \ {0}
    BY <2>2 DEF Subscription
  <2>4. PICK e \in Nat : e = s.period * s.interval
    BY <2>3, SMT
  <2>5. PICK n \in Nat : n = now - s.start /\ n >= e
    BY <2>1, <2>2, <2>3, <2>4 DEF SubInv, OnGrid
  <2>6. s.period <= n \div s.interval
    BY <2>3, <2>4, <2>5, DivReaches
  <2>7. n \div s.interval \in Nat
    BY <2>3, DivBounds
  <2> QED
    BY <2>1, <2>2, <2>3, <2>5, <2>6, <2>7, SnapshotsFinite DEF BilledBySnapshot
<1> HIDE DEF BillsBySnapshot
<1> QED BY <1>1, <1>2, <1>3, Invariant, PTL DEF Spec
===============================================================================
