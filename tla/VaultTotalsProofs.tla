--------------------------- MODULE VaultTotalsProofs ---------------------------
(***************************************************************************)
(* Money as totals: what the vault holds against the sum of everything it  *)
(* owes, and the refinement of VaultLedger.                                *)
(*                                                                         *)
(* Moves lists the eight ways a step may move money between the totals;    *)
(* StepMoves shows that every entry point is one of them or moves nothing. *)
(* The theorems about totals, and the refinement, then follow from Moves   *)
(* and are not proved action by action.                                    *)
(***************************************************************************)
EXTENDS VaultProofs, SumTheorems

-------------------------------------------------------------------------------
(***************************************************************************)
(* Totals.                                                                 *)
(***************************************************************************)
\* The total of v over the records of one token.
TokenTotal(ss, v, tok) == SumFunctionOnSet(v, {id \in DOMAIN ss : ss[id].token = tok})

Share(tok, own, a) == IF own = tok THEN a ELSE 0
Gain(f, k, tok, own, a) == IF f = k THEN Share(tok, own, a) ELSE 0

\* One record changes, and keeps its token: the total of that token changes by
\* the same amount, the others do not.
LEMMA OneRecordTotal ==
  ASSUME NEW ss, NEW tt, NEW v, NEW w, NEW tok, IsFiniteSet(DOMAIN ss),
         DOMAIN tt = DOMAIN ss, NEW id \in DOMAIN ss,
         \A x \in DOMAIN ss : tt[x].token = ss[x].token,
         \A x \in DOMAIN ss : v[x] \in Int /\ w[x] \in Int,
         \A x \in DOMAIN ss : x # id => w[x] = v[x]
  PROVE  TokenTotal(tt, w, tok)
           = TokenTotal(ss, v, tok) + Share(tok, ss[id].token, w[id] - v[id])
<1> DEFINE S == {x \in DOMAIN ss : ss[x].token = tok}
<1>1. /\ TokenTotal(ss, v, tok) = SumFunctionOnSet(v, S)
      /\ TokenTotal(tt, w, tok) = SumFunctionOnSet(w, S)
  <2>1. {x \in DOMAIN tt : tt[x].token = tok} = S
    OBVIOUS
  <2> QED BY <2>1 DEF TokenTotal
<1>2. IsFiniteSet(S) /\ \A x \in S : v[x] \in Int /\ w[x] \in Int
  BY FS_Subset
<1>3. SumFunctionOnSet(v, S) \in Int
  BY <1>2, SumInt
<1>4. CASE ss[id].token = tok
  <2>1. id \in S /\ \A x \in S : x # id => v[x] = w[x]
    BY <1>4
  <2> HIDE DEF S
  <2>2. SumFunctionOnSet(w, S) = SumFunctionOnSet(v, S) + (w[id] - v[id])
    BY <1>2, <2>1, SumChange
  <2> QED BY <1>1, <1>4, <2>2 DEF Share
<1>5. CASE ss[id].token # tok
  <2>1. \A x \in S : w[x] = v[x]
    BY <1>5
  <2> HIDE DEF S
  <2>2. SumFunctionOnSet(w, S) = SumFunctionOnSet(v, S)
    BY <1>2, <2>1, SumCongruent
  <2> QED BY <1>1, <1>3, <1>5, <2>2 DEF Share
<1> QED BY <1>4, <1>5

\* A new record that holds nothing changes no total.
LEMMA NewRecordTotal ==
  ASSUME NEW ss, NEW tt, NEW v, NEW w, NEW tok, IsFiniteSet(DOMAIN ss),
         NEW id, id \notin DOMAIN ss, DOMAIN tt = DOMAIN ss \cup {id},
         \A x \in DOMAIN ss : tt[x].token = ss[x].token,
         \A x \in DOMAIN ss : v[x] \in Int /\ w[x] = v[x],
         w[id] = 0
  PROVE  TokenTotal(tt, w, tok) = TokenTotal(ss, v, tok)
<1> DEFINE S == {x \in DOMAIN ss : ss[x].token = tok}
           T == {x \in DOMAIN tt : tt[x].token = tok}
<1>1. /\ TokenTotal(ss, v, tok) = SumFunctionOnSet(v, S)
      /\ TokenTotal(tt, w, tok) = SumFunctionOnSet(w, T)
  BY DEF TokenTotal
<1>2. /\ IsFiniteSet(S) /\ id \notin S
      /\ \A x \in S \cup {id} : w[x] \in Int
      /\ \A x \in S : w[x] = v[x]
  BY FS_Subset
<1>3. T = S \/ T = S \cup {id}
  OBVIOUS
<1> HIDE DEF S, T
<1>4. SumFunctionOnSet(w, S) = SumFunctionOnSet(v, S)
  BY <1>2, SumCongruent
<1>5. SumFunctionOnSet(w, S) \in Int
  BY <1>2, SumInt
<1>6. SumFunctionOnSet(w, S \cup {id}) = w[id] + SumFunctionOnSet(w, S)
  BY <1>2, SumAdd
<1>7. SumFunctionOnSet(w, S \cup {id}) = SumFunctionOnSet(w, S)
  BY <1>5, <1>6
<1> QED BY <1>1, <1>3, <1>4, <1>7, Zenon

\* The totals of payees.
Balances == [Payees -> [Tokens -> Nat]]
EarningTables == [Payees -> [Tokens -> [EarningFields -> Nat]]]
EarnedIn(b, tok) == SumFunctionOnSet([p \in Payees |-> b[p][tok]], Payees)
AccruedIn(e, tok, f) == SumFunctionOnSet([p \in Payees |-> e[p][tok][f]], Payees)

\* Crediting, or debiting, one payee.
LEMMA BalanceTotal ==
  ASSUME NEW b \in [Payees -> [Tokens -> Int]], NEW p \in Payees,
         NEW own \in Tokens, NEW a \in Int, NEW tok \in Tokens
  PROVE  EarnedIn([b EXCEPT ![p][own] = @ + a], tok)
           = EarnedIn(b, tok) + Share(tok, own, a)
<1> DEFINE f == [q \in Payees |-> b[q][tok]]
           c == [b EXCEPT ![p][own] = @ + a]
           g == [q \in Payees |-> c[q][tok]]
<1>1. /\ \A q \in Payees : f[q] \in Int /\ g[q] \in Int
      /\ \A q \in Payees : q # p => f[q] = g[q]
      /\ g[p] = f[p] + Share(tok, own, a)
  BY DEF Share
<1>2. EarnedIn(b, tok) = SumFunctionOnSet(f, Payees)
      /\ EarnedIn(c, tok) = SumFunctionOnSet(g, Payees)
  BY DEF EarnedIn
<1>3. Share(tok, own, a) \in Int /\ f[p] \in Int
  BY DEF Share
<1> HIDE DEF f, g, c
<1>4. SumFunctionOnSet(f, Payees) \in Int
  BY <1>1, AccountsFinite, SumInt DEF AccountsFinite
<1>5. SumFunctionOnSet(g, Payees) = SumFunctionOnSet(f, Payees) + (g[p] - f[p])
  BY <1>1, AccountsFinite, SumChange DEF AccountsFinite
<1>6. EarnedIn(c, tok) = EarnedIn(b, tok) + Share(tok, own, a)
  BY <1>1, <1>2, <1>3, <1>4, <1>5
<1> QED BY <1>6 DEF c

\* Crediting one payee's earnings of a kind adds the credit to the total of
\* that token and kind and to no other.
LEMMA EarningsTotal ==
  ASSUME NEW e \in EarningTables,
         NEW p \in Payees, NEW own \in Tokens, NEW kind \in EarningFields,
         NEW a \in Nat, NEW tok \in Tokens, NEW f \in EarningFields
  PROVE  AccruedIn(CreditEarnings(e, p, own, kind, a), tok, f)
           = AccruedIn(e, tok, f) + Gain(f, kind, tok, own, a)
<1> DEFINE v == [q \in Payees |-> e[q][tok][f]]
           d == CreditEarnings(e, p, own, kind, a)
           w == [q \in Payees |-> d[q][tok][f]]
           gain == Gain(f, kind, tok, own, a)
<1>1. /\ \A q \in Payees : v[q] \in Nat
      /\ \A q \in Payees : q # p => v[q] = w[q]
      /\ w[p] = v[p] + gain
  BY DEF Share, Gain, CreditEarnings, EarningTables
<1>2. /\ AccruedIn(e, tok, f) = SumFunctionOnSet(v, Payees)
      /\ AccruedIn(d, tok, f) = SumFunctionOnSet(w, Payees)
  BY DEF AccruedIn
<1>3. gain \in Nat
  BY DEF Gain, Share
<1> HIDE DEF v, w, d, gain
<1>4. SumFunctionOnSet(v, Payees) \in Int
  BY <1>1, AccountsFinite, SumInt DEF AccountsFinite
<1>5. \A q \in Payees : v[q] \in Int /\ w[q] \in Int
  BY <1>1, <1>3
<1>6. SumFunctionOnSet(w, Payees) = SumFunctionOnSet(v, Payees) + (w[p] - v[p])
  BY <1>1, <1>5, AccountsFinite, SumChange DEF AccountsFinite
<1>7. AccruedIn(d, tok, f) = AccruedIn(e, tok, f) + gain
  BY <1>1, <1>2, <1>3, <1>4, <1>6
<1> QED BY <1>7 DEF d, gain

-------------------------------------------------------------------------------
(***************************************************************************)
(* Every entry point moves money in one of eight ways, or not at all.      *)
(***************************************************************************)
SameMoney(s, t) ==
  t.token = s.token /\ t.prepaid = s.prepaid /\ t.billed = s.billed

\* No money moves: nothing happens to the records, a record keeps its money, or
\* an empty one is added.
Still ==
  /\ UNCHANGED <<balance, earnings, accounted, vault, outside>>
  /\ \/ subs' = subs
     \/ \E id \in DOMAIN subs, t \in Subscription :
          SameMoney(subs[id], t) /\ subs' = [subs EXCEPT ![id] = t]
     \/ \E s \in Subscription :
          /\ s.prepaid = 0 /\ s.billed = [k \in Kinds |-> 0]
          /\ subs' = [id \in 0 .. nextId |-> IF id # nextId THEN subs[id] ELSE s]

\* Money moves in or out of one record.
Rewrites(id, t) ==
  subs' = [subs EXCEPT ![id] = t] /\ t.token = subs[id].token

PaysIn(id, t, a) ==
  /\ Rewrites(id, t) /\ t.billed = subs[id].billed
  /\ t.prepaid = subs[id].prepaid + a
  /\ TransferIn(t.token, a) /\ AddAccounted(t.token, a)
  /\ UNCHANGED <<balance, earnings>>

PaysBack(id, t, a) ==
  /\ Rewrites(id, t) /\ t.billed = subs[id].billed
  /\ a <= subs[id].prepaid /\ t.prepaid = subs[id].prepaid - a
  /\ TransferOut(t.token, a) /\ SubAccounted(t.token, a)
  /\ UNCHANGED <<balance, earnings>>

TakesCharge(id, t, a) ==
  /\ Rewrites(id, t)
  /\ a <= subs[id].prepaid /\ t.prepaid = subs[id].prepaid - a
  /\ \E k \in Kinds :
       /\ t.billed = [subs[id].billed EXCEPT ![k] = @ + a]
       /\ \/ CreditMerchant(subs[id], k, a)
          \/ k = "interval" /\ CreditSplit(subs[id], a)
  /\ UNCHANGED <<accounted, vault, outside>>

\* Money leaves a payee.
PaysOut(p, tok, a) ==
  /\ a <= balance[p][tok] /\ balance' = [balance EXCEPT ![p][tok] = @ - a]
  /\ TransferOut(tok, a)
  /\ \/ SubAccounted(tok, a) /\ UNCHANGED earnings
     \/ /\ earnings' = CreditEarnings(earnings, p, tok, "refunds", a)
        /\ UNCHANGED accounted
  /\ UNCHANGED subs

\* Money that is on no books.
Strays(tok, a) ==
  /\ TransferIn(tok, a) \/ (a <= Recoverable(tok) /\ TransferOut(tok, a))
  /\ UNCHANGED <<subs, balance, earnings, accounted>>

Moves ==
  \/ Still
  \/ \E id \in DOMAIN subs, t \in Subscription, a \in Nat :
       PaysIn(id, t, a) \/ PaysBack(id, t, a) \/ TakesCharge(id, t, a)
  \/ \E p \in Payees, tok \in Tokens, a \in Nat : PaysOut(p, tok, a)
  \/ \E tok \in Tokens, a \in Nat : Strays(tok, a)

\* A record whose money is kept.
LEMMA KeptMoney ==
  ASSUME TypeOK, NEW id \in DOMAIN subs, NEW t \in Subscription,
         SameMoney(subs[id], t), SetSub(id, t),
         UNCHANGED <<balance, earnings, accounted, vault, outside>>
  PROVE  Still
  BY DEF Still, SetSub

\* Writing the status moves no money.
LEMMA StatusMoney ==
  ASSUME NEW s \in Subscription, NEW st \in Statuses
  PROVE  /\ [s EXCEPT !.status = st] \in Subscription
         /\ SameMoney(s, [s EXCEPT !.status = st])
  BY StatusType DEF Subscription, SameMoney

\* A debit stays in its token.
LEMMA DebitedToken ==
  ASSUME NEW s \in Subscription, NEW k \in Kinds, NEW a \in Nat
  PROVE  Debited(s, k, a).token = s.token
<1> DEFINE r == [s EXCEPT !.prepaid = @ - a, !.charged = @ + a,
                          !.billed[k] = @ + a]
<1>1. r.token = s.token /\ [r EXCEPT !.status = Cancelled].token = s.token
  BY DEF Subscription
<1> QED BY <1>1 DEF Debited

\* Creating and the life cycle move nothing.
LEMMA QuietMoves ==
  ASSUME TypeOK, CreateNext \/ LifecycleNext
  PROVE  Still
<1>0. UNCHANGED <<balance, earnings, accounted, vault, outside>>
  BY CreateStep, LifecycleStep DEF moneyVars
<1>1. CASE CreateNext
  <2>1. SubsStep
    BY <1>1, CreateStep
  <2>2. nextId \in Nat
    BY VaultAssumption DEF TypeOK, VaultAssumption
  <2>3. nextId' = nextId + 1
    <3>1. ASSUME NEW c, NEW m, NEW tok, NEW a, NEW i, NEW u, NEW cap, NEW e,
                 CreateSubscription(c, m, tok, a, i, u, cap, e)
          PROVE  nextId' = nextId + 1
      BY <3>1, Zenon DEF CreateSubscription, Allocate
    <3>2. ASSUME NEW c, NEW p, CreateSubscriptionFromPlan(c, p)
          PROVE  nextId' = nextId + 1
      BY <3>2, Zenon DEF CreateSubscriptionFromPlan, Allocate
    <3> QED BY <1>1, <3>1, <3>2, Zenon DEF CreateNext
  <2>4. nextId' # nextId
    BY <2>2, <2>3
  <2> QED BY <1>0, <2>1, <2>4 DEF SubsStep, Fresh, Still
<1> DEFINE restatused(id, st) ==
      id \in DOMAIN subs /\ SetSub(id, [subs[id] EXCEPT !.status = st])
<1>2. ASSUME NEW id, NEW st \in Statuses, restatused(id, st)
      PROVE  Still
  <2>1. subs[id] \in Subscription
    BY <1>2, KnownType
  <2> QED BY <1>0, <1>2, <2>1, StatusMoney, KeptMoney
<1>3. ASSUME NEW id \in Ids, NEW who,
             \/ CancelSubscription(id, who) \/ PauseSubscription(id, who)
             \/ ResumeSubscription(id, who) \/ CleanupSubscription(id)
      PROVE  \E st \in Statuses : restatused(id, st)
  BY <1>3 DEF CancelSubscription, PauseSubscription, ResumeSubscription,
              CleanupSubscription, Known, Statuses
<1>4. ASSUME NEW id \in Ids, NEW p \in DOMAIN Plans,
             MigrateSubscriptionToPlan(id, p)
      PROVE  Still
  <2>1. /\ id \in DOMAIN subs /\ SetSub(id, OnPlan(subs[id], p))
        /\ subs[id].plan # None
    BY <1>4, Zenon DEF MigrateSubscriptionToPlan, Known
  <2>2. subs[id] \in Subscription
    BY <2>1, KnownType
  <2>3. OnPlan(subs[id], p) \in Subscription
    BY <2>1, <2>2, OnPlanType
  <2>4. SameMoney(subs[id], OnPlan(subs[id], p))
    <3>1. PICK cap, amount, interval :
            cap = Plans[p].cap /\ amount = Plans[p].amount
              /\ interval = Plans[p].interval
      OBVIOUS
    <3>2. OnPlan(subs[id], p)
            = [subs[id] EXCEPT !.cap = cap, !.amount = amount,
                               !.interval = interval, !.plan = p]
      BY <3>1, Zenon DEF OnPlan
    <3> QED BY <2>2, <3>2 DEF Subscription, SameMoney
  <2> QED BY <1>0, <2>1, <2>2, <2>3, <2>4, KeptMoney
<1> HIDE DEF restatused
<1> QED BY <1>1, <1>2, <1>3, <1>4 DEF LifecycleNext

\* Interval charges, alone or as an item of a batch.
LEMMA PaidMoney ==
  ASSUME TypeOK, NEW id \in DOMAIN subs, NEW a \in ChargeAmounts(subs[id]),
         NEW t, CanPay(subs[id], a), Due(subs[id]), WithinCap(subs[id], a),
         \/ t = PaidInterval(subs[id], a)
         \/ t = ClosePeriod(PaidInterval(subs[id], a), PeriodIndex(subs[id])),
         SetSub(id, t), CreditSplit(subs[id], a),
         UNCHANGED <<accounted, vault, outside>>
  PROVE  Moves
<1> DEFINE s == subs[id]
           r == PaidInterval(s, a)
<1>1. s \in Subscription /\ now \in Nat
  BY KnownType
<1>2. a \in Nat /\ a <= s.prepaid
  BY <1>1, AmountInt DEF CanPay
<1>3. r \in Subscription /\ PeriodIndex(s) \in Nat
  BY <1>1, <1>2, PaidIntervalType, PeriodIndexNat
<1>4. /\ r.prepaid = s.prepaid - a
      /\ r.billed = [s.billed EXCEPT !["interval"] = @ + a]
  BY <1>1, <1>2, PaidIntervalFields
<1>5. r.token = s.token
  <2> DEFINE q == [s EXCEPT !.last_payment = PeriodStart(s), !.status = Active]
  <2>1. q \in Subscription /\ q.token = s.token
    BY <1>1, PeriodStartNat DEF Subscription, Statuses
  <2>2. r = Debited(q, "interval", a) /\ "interval" \in Kinds
    BY DEF PaidInterval, Kinds
  <2> HIDE DEF q
  <2> QED BY <1>2, <2>1, <2>2, DebitedToken
<1>6. t \in Subscription /\ SameMoney(r, t)
  <2>1. /\ ClosePeriod(r, PeriodIndex(s)) \in Subscription
        /\ SameMoney(r, ClosePeriod(r, PeriodIndex(s)))
    <3> HIDE DEF r
    <3> QED BY <1>3, ClosePeriodType DEF ClosePeriod, Subscription, SameMoney
  <2> QED BY <1>3, <2>1 DEF SameMoney
<1>7. TakesCharge(id, t, a)
  <2> HIDE DEF r
  <2>1. "interval" \in Kinds
    BY DEF Kinds
  <2> QED BY <1>2, <1>4, <1>5, <1>6, <2>1 DEF TakesCharge, Rewrites, SetSub, SameMoney
<1> QED BY <1>2, <1>6, <1>7 DEF Moves

\* What a charge_one that reports Ok moves.
LEMMA ChargeOneMoves ==
  ASSUME TypeOK, NEW id, ChargeOneOk(id)
  PROVE  Moves
<1> DEFINE s == subs[id]
<1>1. id \in DOMAIN subs /\ s \in Subscription
  BY KnownType DEF ChargeOneOk
<1>2. ASSUME NEW st \in Statuses, SetSub(id, [s EXCEPT !.status = st]),
             UNCHANGED ledgerVars
      PROVE  Moves
  <2>1. Still
    BY <1>1, <1>2, StatusMoney, KeptMoney DEF ledgerVars
  <2> QED BY <2>1 DEF Moves
<1>3. CASE FinishCapped(id)
  BY <1>2, <1>3 DEF FinishCapped, Statuses
<1>4. ASSUME NEW a \in ChargeAmounts(s), CancelOverCap(id, a)
      PROVE  Moves
  BY <1>2, <1>4 DEF CancelOverCap, Statuses
<1>5. ASSUME NEW a \in ChargeAmounts(s), ChargeShortfall(id, a)
      PROVE  Moves
  <2>1. GraceStatus(s) \in Statuses
    BY DEF GraceStatus, Statuses
  <2> QED BY <1>2, <1>5, <2>1 DEF ChargeShortfall
<1>6. ASSUME NEW a \in ChargeAmounts(s), ChargeInterval(id, a)
      PROVE  Moves
  <2> DEFINE t == ClosePeriod(PaidInterval(s, a), PeriodIndex(s))
  <2>1. /\ CanPay(s, a) /\ Due(s) /\ WithinCap(s, a) /\ SetSub(id, t)
        /\ CreditSplit(s, a) /\ UNCHANGED <<accounted, vault, outside>>
    BY <1>6 DEF ChargeInterval
  <2>2. t = ClosePeriod(PaidInterval(s, a), PeriodIndex(s))
    OBVIOUS
  <2> HIDE DEF t
  <2> QED BY <1>1, <2>1, <2>2, PaidMoney
<1> QED
  BY <1>3, <1>4, <1>5, <1>6 DEF ChargeOneOk

\* Items of a batch, also those that fail half-way.
LEMMA BatchItemMoves ==
  ASSUME TypeOK, BatchItem
  PROVE  Moves
<1> DEFINE id == Head(batch)
<1>1. CASE ExpireItem(id)
  <2>1. /\ id \in DOMAIN subs /\ Expired \in Statuses
        /\ SetSub(id, [subs[id] EXCEPT !.status = Expired])
        /\ UNCHANGED <<balance, earnings, accounted, vault, outside>>
    BY <1>1 DEF ExpireItem, Statuses, ledgerVars
  <2>2. Still
    BY <2>1, KnownType, StatusMoney, KeptMoney
  <2> QED BY <2>2 DEF Moves
<1>2. ASSUME id \in DOMAIN subs, NEW a \in ChargeAmounts(subs[id]),
             AbortItem(id, a)
      PROVE  Moves
  <2> DEFINE s == subs[id]
             t == PaidInterval(s, a)
  <2>1. /\ CanPay(s, a) /\ Due(s) /\ WithinCap(s, a) /\ SetSub(id, t)
        /\ CreditSplit(s, a) /\ UNCHANGED <<accounted, vault, outside>>
    BY <1>2 DEF AbortItem
  <2>2. t = PaidInterval(s, a)
    OBVIOUS
  <2> HIDE DEF t
  <2> QED BY <1>2, <2>1, <2>2, PaidMoney
<1>3. CASE RefuseItem(id)
  BY <1>3 DEF RefuseItem, ledgerVars, Still, Moves
<1> QED
  BY <1>1, <1>2, <1>3, ChargeOneMoves DEF BatchItem

\* Usage and one-off charges.
LEMMA SpendMoves ==
  ASSUME TypeOK, NEW id \in Ids, NEW v \in Values,
         ChargeUsage(id, v) \/ ChargeOneOff(id, v)
  PROVE  Moves
<1> DEFINE s == subs[id]
<1>1. id \in DOMAIN subs /\ s \in Subscription /\ v \in Int
  BY KnownType, VaultAssumption
     DEF ChargeUsage, ChargeOneOff, Known, VaultAssumption
<1>2. UNCHANGED <<accounted, vault, outside>>
  BY DEF ChargeUsage, ChargeOneOff
<1>3. v \in Nat /\ v <= s.prepaid
  BY <1>1 DEF ChargeUsage, ChargeOneOff
<1>4. ASSUME NEW k \in Kinds, NEW t \in Subscription,
             SameMoney(Debited(s, k, v), t), SetSub(id, t),
             CreditMerchant(s, k, v)
      PROVE  Moves
  <2> DEFINE r == Debited(s, k, v)
  <2>1. /\ r.prepaid = s.prepaid - v /\ r.token = s.token
        /\ r.billed = [s.billed EXCEPT ![k] = @ + v]
    BY <1>1, <1>3, DebitedFields, DebitedToken
  <2> HIDE DEF r
  <2>2. TakesCharge(id, t, v)
    BY <1>1, <1>2, <1>3, <1>4, <2>1 DEF TakesCharge, Rewrites, SetSub, SameMoney, r
  <2> QED BY <1>1, <1>3, <2>2 DEF Moves
<1>5. ASSUME NEW k \in Kinds
      PROVE  Debited(s, k, v) \in Subscription
  BY <1>1, <1>3, DebitedType
<1>6. CASE ChargeOneOff(id, v)
  <2>1. SetSub(id, Debited(s, "one_off", v)) /\ CreditMerchant(s, "one_off", v)
    BY <1>6 DEF ChargeOneOff
  <2> QED BY <1>4, <1>5, <2>1 DEF SameMoney, Kinds
<1>7. CASE ChargeUsage(id, v)
  <2> DEFINE r == Debited(s, "usage", v)
             t == IF r.status = Active /\ r.prepaid = 0
                  THEN [r EXCEPT !.status = InsufficientBalance] ELSE r
  <2>1. CASE /\ SetSub(id, [s EXCEPT !.status = Cancelled])
             /\ UNCHANGED <<balance, earnings>>
    <3>1. Cancelled \in Statuses
      BY DEF Statuses
    <3>2. Still
      BY <1>1, <1>2, <2>1, <3>1, StatusMoney, KeptMoney
    <3> QED BY <3>2 DEF Moves
  <2>2. CASE SetSub(id, t) /\ CreditMerchant(s, "usage", v)
    <3>1. r \in Subscription /\ "usage" \in Kinds
      BY <1>5 DEF Kinds
    <3>2. t \in Subscription /\ SameMoney(r, t)
      <4> HIDE DEF r
      <4> QED BY <3>1, StatusMoney DEF SameMoney, Statuses
    <3> HIDE DEF t
    <3> QED BY <1>4, <2>2, <3>1, <3>2
  <2> QED BY <1>7, <2>1, <2>2 DEF ChargeUsage, UsageDebited
<1> QED BY <1>6, <1>7

\* Deposits, refunds, withdrawals, payouts and recoveries.
LEMMA FundsMoves ==
  ASSUME TypeOK, FundsNext \/ ReclaimNext
  PROVE  Moves
<1>1. ASSUME NEW id, id \in DOMAIN subs, NEW b \in Nat
      PROVE  LET t == [subs[id] EXCEPT !.prepaid = b] IN
             /\ t \in Subscription /\ t.token = subs[id].token
             /\ t.prepaid = b /\ t.billed = subs[id].billed
  <2>1. subs[id] \in Subscription
    BY <1>1, KnownType
  <2> QED BY <2>1, PrepaidType DEF Subscription
<1>2. ASSUME NEW id \in DOMAIN subs, NEW a \in Nat, a <= subs[id].prepaid,
             SetSub(id, [subs[id] EXCEPT !.prepaid = subs[id].prepaid - a]),
             TransferOut(subs[id].token, a), SubAccounted(subs[id].token, a),
             UNCHANGED <<balance, earnings>>
      PROVE  Moves
  <2> DEFINE t == [subs[id] EXCEPT !.prepaid = subs[id].prepaid - a]
  <2>1. subs[id].prepaid \in Nat
    BY KnownType DEF Subscription
  <2>2. subs[id].prepaid - a \in Nat
    BY <1>2, <2>1
  <2>3. /\ t \in Subscription /\ t.token = subs[id].token
        /\ t.prepaid = subs[id].prepaid - a /\ t.billed = subs[id].billed
    BY <1>1, <2>2
  <2> HIDE DEF t
  <2>4. PaysBack(id, t, a)
    BY <1>2, <2>3 DEF PaysBack, Rewrites, SetSub, t
  <2> QED BY <2>3, <2>4 DEF Moves
<1>3. ASSUME NEW id \in Ids, WithdrawSubscriberFunds(id)
      PROVE  Moves
  <2>1. /\ id \in DOMAIN subs /\ SetSub(id, [subs[id] EXCEPT !.prepaid = 0])
        /\ TransferOut(subs[id].token, subs[id].prepaid)
        /\ SubAccounted(subs[id].token, subs[id].prepaid)
        /\ UNCHANGED <<balance, earnings>>
    BY <1>3 DEF WithdrawSubscriberFunds, Known
  <2>2. PICK a \in Nat : a = subs[id].prepaid
    BY <2>1, KnownType DEF Subscription
  <2>3. a - a = 0 /\ a <= a
    OBVIOUS
  <2>4. /\ SetSub(id, [subs[id] EXCEPT !.prepaid = subs[id].prepaid - a])
        /\ TransferOut(subs[id].token, a) /\ SubAccounted(subs[id].token, a)
        /\ a <= subs[id].prepaid
    BY <2>1, <2>2, <2>3, Zenon
  <2> QED BY <1>2, <2>1, <2>4
<1>4. ASSUME NEW v \in Int, NEW id \in Ids, PartialRefund(id, v)
      PROVE  Moves
  <2>1. /\ id \in DOMAIN subs /\ v \in Nat /\ v <= subs[id].prepaid
        /\ SetSub(id, [subs[id] EXCEPT !.prepaid = subs[id].prepaid - v])
        /\ TransferOut(subs[id].token, v) /\ SubAccounted(subs[id].token, v)
        /\ UNCHANGED <<balance, earnings>>
    BY <1>4 DEF PartialRefund, Known
  <2> QED BY <1>2, <2>1
<1>5. ASSUME NEW v \in Int, NEW id \in Ids, DepositFunds(id, v)
      PROVE  Moves
  <2> DEFINE t == ToppedUp(subs[id], v)
  <2>1. /\ id \in DOMAIN subs /\ v \in Nat /\ SetSub(id, t)
        /\ TransferIn(subs[id].token, v) /\ AddAccounted(subs[id].token, v)
        /\ UNCHANGED <<balance, earnings>>
    BY <1>5 DEF DepositFunds, Known
  <2>2. subs[id] \in Subscription
    BY <2>1, KnownType
  <2>3. t \in Subscription
    BY <2>1, <2>2, ToppedUpType
  <2>4. /\ t.token = subs[id].token /\ t.prepaid = subs[id].prepaid + v
        /\ t.billed = subs[id].billed
    BY <2>2 DEF ToppedUp, Subscription
  <2> HIDE DEF t
  <2>5. PaysIn(id, t, v)
    BY <2>1, <2>4 DEF PaysIn, Rewrites, SetSub
  <2> QED BY <2>1, <2>3, <2>5 DEF Moves
<1>6. ASSUME NEW v \in Int, NEW p \in Payees, NEW tok \in Tokens,
             WithdrawMerchantFunds(p, tok, v) \/ MerchantRefund(p, tok, v)
      PROVE  Moves
  <2>1. v \in Nat
    BY <1>6 DEF WithdrawMerchantFunds, MerchantRefund
  <2>2. PaysOut(p, tok, v)
    BY <1>6 DEF WithdrawMerchantFunds, MerchantRefund, PaysOut, CreditEarnings
  <2> QED BY <2>1, <2>2 DEF Moves
<1>7. ASSUME NEW v \in Int, NEW tok \in Tokens, NEW rid,
             DirectTransfer(tok, v) \/ RecoverStrandedFunds(tok, v, rid)
      PROVE  Moves
  <2>1. v \in Nat
    BY <1>7 DEF DirectTransfer, RecoverStrandedFunds
  <2>2. Strays(tok, v)
    BY <1>7 DEF DirectTransfer, RecoverStrandedFunds, Strays
  <2> QED BY <2>1, <2>2 DEF Moves
<1> QED
  BY <1>3, <1>4, <1>5, <1>6, <1>7, VaultAssumption
     DEF FundsNext, ReclaimNext, VaultAssumption

\* Settings and the clock move nothing.
LEMMA SettingMoves ==
  ASSUME TypeOK, Tick \/ GateNext \/ TermsNext
  PROVE  Moves
<1>1. CASE Tick
  BY <1>1 DEF Tick, moneyVars, Still, Moves
<1>2. CASE GateNext \/ TermsNext
  <2>1. UNCHANGED <<subs, balance, earnings, accounted, vault, outside>>
    BY <1>2 DEF GateNext, TermsNext, SetConfig, EnableEmergencyStop,
       DisableEmergencyStop, PauseMerchant, UnpauseMerchant, SetMerchantConfig,
       AddToBlocklist, RemoveFromBlocklist, AddAcceptedToken,
       RemoveAcceptedToken, SetMinTopup, SetProtocolFee, SetOracleConfig,
       SetGlobalCapDefault, SetMerchantCapDefault, SetSubscriberCreditLimit,
       SetPlanMaxActiveSubs, moneyVars
  <2> QED BY <2>1 DEF Still, Moves
<1> QED BY <1>1, <1>2

\* Every entry point is one of them.
LEMMA StepMoves ==
  ASSUME TypeOK, Next
  PROVE  Moves
<1>1. CASE CreateNext \/ LifecycleNext
  BY <1>1, QuietMoves DEF Moves
<1>2. CASE ChargeNext
  <2>1. ASSUME NEW id \in Ids, ChargeSubscription(id) PROVE Moves
    BY <2>1, ChargeOneMoves DEF ChargeSubscription
  <2>2. ASSUME NEW ids, BatchCharge(ids) PROVE Moves
    BY <2>2 DEF BatchCharge, moneyVars, Still, Moves
  <2> QED
    BY <1>2, <2>1, <2>2, SpendMoves, BatchItemMoves DEF ChargeNext, UsageNext, BillNext
<1> QED
  BY <1>1, <1>2, FundsMoves, SettingMoves DEF Next, CoreNext

-------------------------------------------------------------------------------
(***************************************************************************)
(* What each way does to the totals.                                       *)
(***************************************************************************)
LEMMA SubsFinite ==
  ASSUME TypeOK
  PROVE  IsFiniteSet(DOMAIN subs)
<1>1. DOMAIN subs = 0 .. (nextId - 1) /\ nextId - 1 \in Int
  BY VaultAssumption DEF TypeOK, VaultAssumption
<1> QED BY <1>1, FS_Interval

\* Totals are natural numbers, and no record holds more than the total.
LEMMA TotalsNat ==
  ASSUME TypeOK, NEW tok \in Tokens
  PROVE  /\ Prepaid(tok) \in Nat /\ Earned(tok) \in Nat
         /\ \A k \in Kinds : Billed(tok, k) \in Nat
         /\ \A f \in EarningFields : Accrued(tok, f) \in Nat
         /\ Refunded(tok) \in Nat
<1>1. IsFiniteSet(OfToken(tok)) /\ OfToken(tok) \subseteq DOMAIN subs
  BY SubsFinite, FS_Subset DEF OfToken
<1>2. \A id \in DOMAIN subs : subs[id].prepaid \in Nat
                              /\ subs[id].billed \in [Kinds -> Nat]
  BY KnownType DEF Subscription
<1>3. Prepaid(tok) \in Nat
  <2> DEFINE g == [id \in DOMAIN subs |-> subs[id].prepaid]
  <2>1. \A id \in OfToken(tok) : g[id] \in Nat
    BY <1>1, <1>2
  <2> HIDE DEF g
  <2>2. SumFunctionOnSet(g, OfToken(tok)) \in Nat
    BY <1>1, <2>1, SumNat
  <2> QED BY <2>2 DEF g, Prepaid
<1>4. ASSUME NEW k \in Kinds
      PROVE  Billed(tok, k) \in Nat
  <2> DEFINE g == [id \in DOMAIN subs |-> subs[id].billed[k]]
  <2>1. \A id \in OfToken(tok) : g[id] \in Nat
    BY <1>1, <1>2
  <2> HIDE DEF g
  <2>2. SumFunctionOnSet(g, OfToken(tok)) \in Nat
    BY <1>1, <2>1, SumNat
  <2> QED BY <2>2 DEF g, Billed
<1>5. Earned(tok) \in Nat
  <2> DEFINE g == [p \in Payees |-> balance[p][tok]]
  <2>1. \A p \in Payees : g[p] \in Nat
    BY DEF TypeOK
  <2> HIDE DEF g
  <2>2. SumFunctionOnSet(g, Payees) \in Nat
    BY <2>1, SumNat, AccountsFinite DEF AccountsFinite
  <2> QED BY <2>2 DEF g, Earned
<1>6. ASSUME NEW f \in EarningFields
      PROVE  Accrued(tok, f) \in Nat
  <2> DEFINE g == [p \in Payees |-> earnings[p][tok][f]]
  <2>1. \A p \in Payees : g[p] \in Nat
    BY DEF TypeOK
  <2> HIDE DEF g
  <2>2. SumFunctionOnSet(g, Payees) \in Nat
    BY <2>1, SumNat, AccountsFinite DEF AccountsFinite
  <2> QED BY <2>2 DEF g, Accrued
<1>7. Refunded(tok) \in Nat
  BY <1>6 DEF Refunded, EarningFields
<1> QED BY <1>3, <1>4, <1>5, <1>6, <1>7

\* One record, one payee, of the total.
LEMMA TotalsBound ==
  ASSUME TypeOK
  PROVE  /\ \A id \in DOMAIN subs : subs[id].prepaid <= Prepaid(subs[id].token)
         /\ \A p \in Payees, tok \in Tokens : balance[p][tok] <= Earned(tok)
<1>1. ASSUME NEW id \in DOMAIN subs
      PROVE  subs[id].prepaid <= Prepaid(subs[id].token)
  <2> DEFINE g == [x \in DOMAIN subs |-> subs[x].prepaid]
             S == OfToken(subs[id].token)
  <2>1. IsFiniteSet(S) /\ id \in S /\ S \subseteq DOMAIN subs
    BY SubsFinite, FS_Subset DEF OfToken
  <2>2. \A x \in S : g[x] \in Nat
    BY <2>1, KnownType DEF Subscription
  <2>3. g[id] = subs[id].prepaid
    OBVIOUS
  <2> HIDE DEF g, S
  <2>4. g[id] <= SumFunctionOnSet(g, S)
    BY <2>1, <2>2, SumBound
  <2> QED BY <2>3, <2>4 DEF g, S, Prepaid
<1>2. ASSUME NEW p \in Payees, NEW tok \in Tokens
      PROVE  balance[p][tok] <= Earned(tok)
  <2> DEFINE g == [q \in Payees |-> balance[q][tok]]
  <2>1. g[p] = balance[p][tok] /\ \A q \in Payees : g[q] \in Nat
    BY DEF TypeOK
  <2> HIDE DEF g
  <2>2. g[p] <= SumFunctionOnSet(g, Payees)
    BY <2>1, SumBound, AccountsFinite DEF AccountsFinite
  <2> QED BY <2>1, <2>2 DEF g, Earned
<1> QED BY <1>1, <1>2

\* A rewritten record changes the totals of its token by what it gained.
LEMMA RewriteTotals ==
  ASSUME TypeOK, NEW id \in DOMAIN subs, NEW t \in Subscription,
         Rewrites(id, t), NEW tok \in Tokens
  PROVE  /\ Prepaid(tok)' = Prepaid(tok)
              + Share(tok, t.token, t.prepaid - subs[id].prepaid)
         /\ \A k \in Kinds : Billed(tok, k)' = Billed(tok, k)
              + Share(tok, t.token, t.billed[k] - subs[id].billed[k])
<1>1. /\ subs' = [subs EXCEPT ![id] = t] /\ DOMAIN subs' = DOMAIN subs
      /\ \A x \in DOMAIN subs : subs'[x] = IF x = id THEN t ELSE subs[x]
      /\ t.token = subs[id].token
  BY DEF Rewrites
<1>2. /\ \A x \in DOMAIN subs : subs'[x].token = subs[x].token
      /\ DOMAIN subs' = DOMAIN subs
  BY <1>1
<1>3. /\ \A x \in DOMAIN subs : subs[x].prepaid \in Nat
                                /\ subs[x].billed \in [Kinds -> Nat]
      /\ t.prepaid \in Nat /\ t.billed \in [Kinds -> Nat]
  BY KnownType DEF Subscription
<1>4. Prepaid(tok)' = Prepaid(tok)
        + Share(tok, t.token, t.prepaid - subs[id].prepaid)
  <2> DEFINE v == [x \in DOMAIN subs |-> subs[x].prepaid]
             w == [x \in DOMAIN subs' |-> subs'[x].prepaid]
  <2>1. /\ \A x \in DOMAIN subs : v[x] \in Int /\ w[x] \in Int
        /\ \A x \in DOMAIN subs : x # id => w[x] = v[x]
        /\ v[id] = subs[id].prepaid /\ w[id] = t.prepaid
    BY <1>1, <1>3
  <2>2. /\ Prepaid(tok) = TokenTotal(subs, v, tok)
        /\ Prepaid(tok)' = TokenTotal(subs', w, tok)
    BY DEF Prepaid, TokenTotal, OfToken
  <2> HIDE DEF v, w
  <2>3. TokenTotal(subs', w, tok)
          = TokenTotal(subs, v, tok) + Share(tok, subs[id].token, w[id] - v[id])
    BY <1>2, <2>1, SubsFinite, OneRecordTotal
  <2> QED BY <1>1, <2>1, <2>2, <2>3
<1>5. ASSUME NEW k \in Kinds
      PROVE  Billed(tok, k)' = Billed(tok, k)
               + Share(tok, t.token, t.billed[k] - subs[id].billed[k])
  <2> DEFINE v == [x \in DOMAIN subs |-> subs[x].billed[k]]
             w == [x \in DOMAIN subs' |-> subs'[x].billed[k]]
  <2>1. /\ \A x \in DOMAIN subs : v[x] \in Int /\ w[x] \in Int
        /\ \A x \in DOMAIN subs : x # id => w[x] = v[x]
        /\ v[id] = subs[id].billed[k] /\ w[id] = t.billed[k]
    BY <1>1, <1>3
  <2>2. /\ Billed(tok, k) = TokenTotal(subs, v, tok)
        /\ Billed(tok, k)' = TokenTotal(subs', w, tok)
    BY DEF Billed, TokenTotal, OfToken
  <2> HIDE DEF v, w
  <2>3. TokenTotal(subs', w, tok)
          = TokenTotal(subs, v, tok) + Share(tok, subs[id].token, w[id] - v[id])
    BY <1>2, <2>1, SubsFinite, OneRecordTotal
  <2> QED BY <1>1, <2>1, <2>2, <2>3
<1> QED BY <1>4, <1>5

\* A new record is empty.
LEMMA FreshTotals ==
  ASSUME TypeOK, NEW s \in Subscription, s.prepaid = 0,
         s.billed = [k \in Kinds |-> 0], NEW tok \in Tokens,
         subs' = [id \in 0 .. nextId |-> IF id # nextId THEN subs[id] ELSE s]
  PROVE  /\ Prepaid(tok)' = Prepaid(tok)
         /\ \A k \in Kinds : Billed(tok, k)' = Billed(tok, k)
<1>1. /\ DOMAIN subs' = DOMAIN subs \cup {nextId} /\ nextId \notin DOMAIN subs
      /\ \A x \in DOMAIN subs : subs'[x] = subs[x]
      /\ subs'[nextId] = s
  <2>1. nextId \in Nat /\ DOMAIN subs = 0 .. (nextId - 1)
    BY VaultAssumption DEF TypeOK, VaultAssumption
  <2>2. 0 .. nextId = 0 .. (nextId - 1) \cup {nextId} /\ nextId \notin 0 .. (nextId - 1)
    BY <2>1
  <2> QED BY <2>1, <2>2
<1>2. \A x \in DOMAIN subs : subs'[x].token = subs[x].token
  BY <1>1
<1>3. \A x \in DOMAIN subs : subs[x].prepaid \in Nat
                             /\ subs[x].billed \in [Kinds -> Nat]
  BY KnownType DEF Subscription
<1>4. Prepaid(tok)' = Prepaid(tok)
  <2> DEFINE v == [x \in DOMAIN subs |-> subs[x].prepaid]
             w == [x \in DOMAIN subs' |-> subs'[x].prepaid]
  <2>1. (\A x \in DOMAIN subs : v[x] \in Int /\ w[x] = v[x]) /\ w[nextId] = 0
    BY <1>1, <1>3
  <2>2. /\ Prepaid(tok) = TokenTotal(subs, v, tok)
        /\ Prepaid(tok)' = TokenTotal(subs', w, tok)
    BY DEF Prepaid, TokenTotal, OfToken
  <2> HIDE DEF v, w
  <2>3. TokenTotal(subs', w, tok) = TokenTotal(subs, v, tok)
    BY <1>1, <1>2, <2>1, SubsFinite, NewRecordTotal
  <2> QED BY <2>2, <2>3
<1>5. ASSUME NEW k \in Kinds
      PROVE  Billed(tok, k)' = Billed(tok, k)
  <2> DEFINE v == [x \in DOMAIN subs |-> subs[x].billed[k]]
             w == [x \in DOMAIN subs' |-> subs'[x].billed[k]]
  <2>1. (\A x \in DOMAIN subs : v[x] \in Int /\ w[x] = v[x]) /\ w[nextId] = 0
    BY <1>1, <1>3
  <2>2. /\ Billed(tok, k) = TokenTotal(subs, v, tok)
        /\ Billed(tok, k)' = TokenTotal(subs', w, tok)
    BY DEF Billed, TokenTotal, OfToken
  <2> HIDE DEF v, w
  <2>3. TokenTotal(subs', w, tok) = TokenTotal(subs, v, tok)
    BY <1>1, <1>2, <2>1, SubsFinite, NewRecordTotal
  <2> QED BY <2>2, <2>3
<1> QED BY <1>4, <1>5

\* One credit raises the totals of its token by its amount.
LEMMA CreditedBalance ==
  ASSUME NEW b \in Balances, NEW p \in Payees, NEW own \in Tokens, NEW x \in Nat,
         NEW tok \in Tokens
  PROVE  EarnedIn(CreditBalance(b, p, own, x), tok)
           = EarnedIn(b, tok) + Share(tok, own, x)
<1>1. b \in [Payees -> [Tokens -> Int]] /\ x \in Int
  BY DEF Balances
<1> QED BY <1>1, BalanceTotal, Zenon DEF CreditBalance

\* A charge credits what it took, however the fee is split.
LEMMA CreditTotals ==
  ASSUME TypeOK, NEW s \in Subscription, NEW k \in Kinds, NEW a \in Nat,
         CreditMerchant(s, k, a) \/ (k = "interval" /\ CreditSplit(s, a)),
         NEW tok \in Tokens
  PROVE  /\ Earned(tok)' = Earned(tok) + Share(tok, s.token, a)
         /\ \A f \in EarningFields : Accrued(tok, f)' = Accrued(tok, f)
              + Gain(f, k, tok, s.token, a)
<1> SUFFICES ASSUME NEW f \in EarningFields
             PROVE  /\ Earned(tok)' = Earned(tok) + Share(tok, s.token, a)
                    /\ Accrued(tok, f)' = Accrued(tok, f)
                         + Gain(f, k, tok, s.token, a)
  BY DEF EarningFields
<1>1. PICK m \in Payees, own \in Tokens : m = s.merchant /\ own = s.token
  BY DEF Subscription, Payees
<1>2. /\ k \in EarningFields /\ balance \in Balances /\ earnings \in EarningTables
  BY DEF EarningFields, TypeOK, Balances, EarningTables
<1>3. /\ Earned(tok) = EarnedIn(balance, tok) /\ Earned(tok)' = EarnedIn(balance', tok)
      /\ Accrued(tok, f) = AccruedIn(earnings, tok, f)
      /\ Accrued(tok, f)' = AccruedIn(earnings', tok, f)
  BY DEF Earned, EarnedIn, Accrued, AccruedIn
<1>4. CASE CreditMerchant(s, k, a)
  <2>1. /\ balance' = CreditBalance(balance, m, own, a)
        /\ earnings' = CreditEarnings(earnings, m, own, k, a)
    BY <1>1, <1>4 DEF CreditMerchant
  <2>2. EarnedIn(balance', tok) = EarnedIn(balance, tok) + Share(tok, own, a)
    BY <1>2, <2>1, CreditedBalance
  <2>3. AccruedIn(earnings', tok, f)
            = AccruedIn(earnings, tok, f) + Gain(f, k, tok, own, a)
    BY <1>2, <2>1, EarningsTotal
  <2> QED BY <1>1, <1>3, <2>2, <2>3
<1>5. CASE k = "interval" /\ CreditSplit(s, a)
  <2>1. PICK fee \in Nat, rest \in Nat :
          /\ fee = ProtocolFee(a) /\ rest = a - fee
          /\ fee > 0 => config.treasury \in Payees
    BY FeeBound DEF Payees
  <2> DEFINE b == CreditBalance(balance, m, own, rest)
             e == CreditEarnings(earnings, m, own, k, rest)
  <2>2. /\ balance' = IF fee > 0
                      THEN CreditBalance(b, config.treasury, own, fee) ELSE b
        /\ earnings' = IF fee > 0
                       THEN CreditEarnings(e, config.treasury, own, k, fee)
                       ELSE e
    BY <1>1, <1>5, <2>1 DEF CreditSplit
  <2>3. b \in Balances /\ e \in EarningTables
    BY <1>2, CreditTypes DEF Balances, EarningTables
  <2>4. /\ EarnedIn(b, tok) = EarnedIn(balance, tok) + Share(tok, own, rest)
        /\ AccruedIn(e, tok, f)
             = AccruedIn(earnings, tok, f) + Gain(f, k, tok, own, rest)
    BY <1>2, CreditedBalance, EarningsTotal
  <2> HIDE DEF b, e
  <2>5. EarnedIn(balance, tok) \in Int /\ AccruedIn(earnings, tok, f) \in Int
    BY <1>3, TotalsNat
  <2>6. CASE fee > 0
    <3>1. /\ balance' = CreditBalance(b, config.treasury, own, fee)
          /\ earnings' = CreditEarnings(e, config.treasury, own, k, fee)
          /\ config.treasury \in Payees
      BY <2>1, <2>2, <2>6
    <3>2. EarnedIn(balance', tok) = EarnedIn(b, tok) + Share(tok, own, fee)
      BY <2>3, <3>1, CreditedBalance
    <3>3. AccruedIn(earnings', tok, f)
            = AccruedIn(e, tok, f) + Gain(f, k, tok, own, fee)
      BY <1>2, <2>3, <3>1, EarningsTotal
    <3> QED BY <1>1, <1>3, <2>1, <2>4, <2>5, <3>2, <3>3 DEF Share, Gain
  <2>7. CASE ~(fee > 0)
    <3>1. fee = 0 /\ balance' = b /\ earnings' = e
      BY <2>1, <2>2, <2>7
    <3> QED BY <1>1, <1>3, <2>1, <2>4, <2>5, <3>1 DEF Share, Gain
  <2> QED BY <2>6, <2>7
<1> QED BY <1>4, <1>5

\* A step that moves nothing changes no total.
LEMMA StillTotals ==
  ASSUME TypeOK, Still, NEW tok \in Tokens
  PROVE  /\ Prepaid(tok)' = Prepaid(tok)
         /\ \A k \in Kinds : Billed(tok, k)' = Billed(tok, k)
         /\ Earned(tok)' = Earned(tok)
         /\ \A f : Accrued(tok, f)' = Accrued(tok, f)
<1>1. /\ Earned(tok)' = Earned(tok)
      /\ \A f : Accrued(tok, f)' = Accrued(tok, f)
  BY DEF Still, Earned, Accrued
<1>2. CASE subs' = subs
  BY <1>1, <1>2 DEF Prepaid, Billed, OfToken
<1>3. ASSUME NEW id \in DOMAIN subs, NEW t \in Subscription,
             SameMoney(subs[id], t), subs' = [subs EXCEPT ![id] = t]
      PROVE  /\ Prepaid(tok)' = Prepaid(tok)
             /\ \A k \in Kinds : Billed(tok, k)' = Billed(tok, k)
  <2>1. Rewrites(id, t)
    BY <1>3 DEF Rewrites, SameMoney
  <2>2. /\ t.prepaid - subs[id].prepaid = 0
        /\ \A k \in Kinds : t.billed[k] - subs[id].billed[k] = 0
    BY <1>3 DEF SameMoney, Subscription
  <2>3. Share(tok, t.token, 0) = 0
    BY DEF Share
  <2> QED BY <2>1, <2>2, <2>3, RewriteTotals, TotalsNat
<1>4. ASSUME NEW s \in Subscription, s.prepaid = 0, s.billed = [k \in Kinds |-> 0],
             subs' = [id \in 0 .. nextId |-> IF id # nextId THEN subs[id] ELSE s]
      PROVE  /\ Prepaid(tok)' = Prepaid(tok)
             /\ \A k \in Kinds : Billed(tok, k)' = Billed(tok, k)
  BY <1>4, FreshTotals
<1> QED BY <1>1, <1>2, <1>3, <1>4 DEF Still

-------------------------------------------------------------------------------
(***************************************************************************)
(* The books.                                                              *)
(***************************************************************************)
\* Whatever moves, statements and earnings move together.
LEMMA MovesBooks ==
  ASSUME TypeOK, StatementsMatchEarnings, Moves
  PROVE  StatementsMatchEarnings'
<1> SUFFICES ASSUME NEW tok \in Tokens, NEW k \in Kinds
             PROVE  Billed(tok, k)' = Accrued(tok, k)'
  BY DEF StatementsMatchEarnings
<1>1. /\ Billed(tok, k) = Accrued(tok, k)
      /\ Billed(tok, k) \in Int /\ k \in EarningFields
  BY TotalsNat DEF StatementsMatchEarnings, EarningFields
<1>2. CASE Still
  BY <1>1, <1>2, StillTotals
<1>3. ASSUME NEW id \in DOMAIN subs, NEW t \in Subscription, NEW a \in Nat,
             PaysIn(id, t, a) \/ PaysBack(id, t, a)
      PROVE  Billed(tok, k)' = Accrued(tok, k)'
  <2>1. /\ Rewrites(id, t) /\ t.billed = subs[id].billed /\ earnings' = earnings
    BY <1>3 DEF PaysIn, PaysBack
  <2>2. t.billed[k] - subs[id].billed[k] = 0
    BY <2>1 DEF Subscription
  <2>3. Billed(tok, k)' = Billed(tok, k) + Share(tok, t.token, 0)
    BY <2>1, <2>2, RewriteTotals
  <2>4. Accrued(tok, k)' = Accrued(tok, k)
    BY <2>1 DEF Accrued
  <2> QED BY <1>1, <2>3, <2>4 DEF Share
<1>4. ASSUME NEW id \in DOMAIN subs, NEW t \in Subscription, NEW a \in Nat,
             TakesCharge(id, t, a)
      PROVE  Billed(tok, k)' = Accrued(tok, k)'
  <2>1. PICK j \in Kinds :
          /\ t.billed = [subs[id].billed EXCEPT ![j] = @ + a]
          /\ \/ CreditMerchant(subs[id], j, a)
             \/ j = "interval" /\ CreditSplit(subs[id], a)
    BY <1>4 DEF TakesCharge
  <2>2. Rewrites(id, t) /\ t.token = subs[id].token
    BY <1>4 DEF TakesCharge, Rewrites
  <2>3. subs[id] \in Subscription /\ subs[id].billed \in [Kinds -> Nat]
    BY KnownType DEF Subscription
  <2>4. Accrued(tok, k)' = Accrued(tok, k) + Gain(k, j, tok, subs[id].token, a)
    BY <1>1, <2>1, <2>3, CreditTotals
  <2>5. t.billed[k] - subs[id].billed[k] = IF k = j THEN a ELSE 0
    BY <2>1, <2>3
  <2>6. Share(tok, t.token, t.billed[k] - subs[id].billed[k])
          = Gain(k, j, tok, subs[id].token, a)
    BY <2>2, <2>5 DEF Share, Gain
  <2> QED BY <1>1, <2>2, <2>4, <2>6, RewriteTotals
<1>5. ASSUME NEW p \in Payees, NEW own \in Tokens, NEW a \in Nat, PaysOut(p, own, a)
      PROVE  Billed(tok, k)' = Accrued(tok, k)'
  <2>1. Billed(tok, k)' = Billed(tok, k)
    BY <1>5 DEF PaysOut, Billed, OfToken
  <2>2. CASE UNCHANGED earnings
    BY <1>1, <2>1, <2>2 DEF Accrued
  <2>3. CASE earnings' = CreditEarnings(earnings, p, own, "refunds", a)
    <3>1. "refunds" \in EarningFields /\ earnings \in EarningTables
      BY DEF EarningFields, EarningTables, TypeOK
    <3>2. AccruedIn(earnings', tok, k)
            = AccruedIn(earnings, tok, k) + Gain(k, "refunds", tok, own, a)
      BY <1>1, <2>3, <3>1, EarningsTotal
    <3>3. k # "refunds"
      BY DEF Kinds
    <3>4. Gain(k, "refunds", tok, own, a) = 0
      BY <3>3 DEF Gain
    <3>5. /\ Accrued(tok, k) = AccruedIn(earnings, tok, k)
          /\ Accrued(tok, k)' = AccruedIn(earnings', tok, k)
      BY DEF Accrued, AccruedIn
    <3> QED BY <1>1, <2>1, <3>2, <3>4, <3>5
  <2> QED BY <1>5, <2>2, <2>3 DEF PaysOut
<1>6. ASSUME NEW own \in Tokens, NEW a \in Nat, Strays(own, a)
      PROVE  Billed(tok, k)' = Accrued(tok, k)'
  BY <1>1, <1>6 DEF Strays, Billed, Accrued, OfToken
<1> QED BY <1>2, <1>3, <1>4, <1>5, <1>6 DEF Moves

\* The contract starts with every total at zero.
LEMMA InitTotals ==
  ASSUME Init, NEW tok \in Tokens
  PROVE  /\ Prepaid(tok) = 0 /\ Earned(tok) = 0
         /\ \A k \in Kinds : Billed(tok, k) = 0
         /\ \A f \in EarningFields : Accrued(tok, f) = 0
<1>1. DOMAIN subs = {} /\ OfToken(tok) = {}
  BY DEF Init, OfToken
<1>2. Prepaid(tok) = 0 /\ \A k \in Kinds : Billed(tok, k) = 0
  BY <1>1, SumEmpty DEF Prepaid, Billed
<1>3. Earned(tok) = 0
  <2> DEFINE g == [p \in Payees |-> balance[p][tok]]
  <2>1. \A p \in Payees : g[p] = 0
    BY DEF Init
  <2> HIDE DEF g
  <2>2. SumFunctionOnSet(g, Payees) = 0
    BY <2>1, SumZero, AccountsFinite DEF AccountsFinite
  <2> QED BY <2>2 DEF g, Earned
<1>4. ASSUME NEW f \in EarningFields
      PROVE  Accrued(tok, f) = 0
  <2> DEFINE g == [p \in Payees |-> earnings[p][tok][f]]
  <2>1. \A p \in Payees : g[p] = 0
    BY DEF Init
  <2> HIDE DEF g
  <2>2. SumFunctionOnSet(g, Payees) = 0
    BY <2>1, SumZero, AccountsFinite DEF AccountsFinite
  <2> QED BY <2>2 DEF g, Accrued
<1> QED BY <1>2, <1>3, <1>4

\* What all statements say was charged is what all earnings say was accrued.
THEOREM StatementsTheorem == Spec => []StatementsMatchEarnings
<1>1. Init => StatementsMatchEarnings
  BY InitTotals DEF StatementsMatchEarnings, EarningFields
<1>2. ASSUME IType, StatementsMatchEarnings, [Next]_vars
      PROVE  StatementsMatchEarnings'
  <2>1. TypeOK
    BY <1>2 DEF IType
  <2>2. CASE Next
    BY <1>2, <2>1, <2>2, StepMoves, MovesBooks
  <2>3. CASE UNCHANGED vars
    <3>1. subs' = subs /\ earnings' = earnings
      BY <2>3 DEF vars
    <3> QED BY <1>2, <3>1 DEF StatementsMatchEarnings, Billed, Accrued, OfToken
  <2> QED BY <1>2, <2>2, <2>3
<1> QED BY <1>1, <1>2, Foundation, PTL DEF Spec

-------------------------------------------------------------------------------
(***************************************************************************)
(* Custody.                                                                *)
(***************************************************************************)
\* No more tokens than there were reach the vault.
FundsHeld == \A tok \in Tokens : vault[tok] + outside[tok] <= Funds[tok]

\* No token has more units than all tokens together.
LEMMA FundsBound ==
  ASSUME NEW tok \in Tokens
  PROVE  AllFunds \in Nat /\ Funds[tok] \in Nat /\ Funds[tok] <= AllFunds
<1>1. IsFiniteSet(Tokens) /\ \A x \in Tokens : Funds[x] \in Nat
  BY AccountsFinite, VaultAssumption DEF AccountsFinite, VaultAssumption
<1> QED BY <1>1, SumNat, SumBound DEF AllFunds

\* Transfers keep the sum or lower it.
LEMMA FundsHeldStep ==
  ASSUME TypeOK, FundsHeld, Moves
  PROVE  FundsHeld'
<1>1. vault \in [Tokens -> Nat] /\ outside \in [Tokens -> Nat]
      /\ Funds \in [Tokens -> Nat]
  <2>1. Funds \in [Tokens -> Nat]
    BY VaultAssumption DEF VaultAssumption
  <2>2. vault \in [Tokens -> Nat] /\ outside \in [Tokens -> Nat]
    BY Zenon DEF TypeOK
  <2> QED BY <2>1, <2>2
<1>2. CASE UNCHANGED <<vault, outside>>
  BY <1>2 DEF FundsHeld
<1>3. ASSUME NEW tok \in Tokens, NEW a \in Nat,
             TransferIn(tok, a) \/ TransferOut(tok, a)
      PROVE  FundsHeld'
  BY <1>1, <1>3 DEF FundsHeld, TransferIn, TransferOut
<1>4. \A t \in Subscription : t.token \in Tokens
  BY DEF Subscription
<1> QED
  BY <1>2, <1>3, <1>4 DEF Moves, Still, PaysIn, PaysBack, TakesCharge, PaysOut, Strays

PrepaidBook  == [tok \in Tokens |-> Prepaid(tok)]
EarnedBook   == [tok \in Tokens |-> Earned(tok)]
RefundedBook == [tok \in Tokens |-> Refunded(tok)]
Books == [Tokens -> Int]

IsBook(f) == DOMAIN f = Tokens /\ f = [x \in Tokens |-> f[x]]

\* A book in which one token gains an amount, as the ledger writes it.
LEMMA BookGain ==
  ASSUME NEW f \in Books, NEW g, IsBook(g), NEW own \in Tokens, NEW a \in Int,
         \A x \in Tokens : g[x] = f[x] + Share(x, own, a)
  PROVE  g = [f EXCEPT ![own] = @ + a]
<1> DEFINE h == [f EXCEPT ![own] = @ + a]
<1>1. g \in [Tokens -> Int]
  <2>1. \A x \in Tokens : g[x] \in Int
    BY DEF Share, Books
  <2> QED BY <2>1 DEF IsBook
<1>2. h \in [Tokens -> Int]
  BY DEF Books
<1>3. \A x \in Tokens : g[x] = h[x]
  BY DEF Share, Books
<1> HIDE DEF h
<1>4. g = h
  BY <1>1, <1>2, <1>3
<1> QED BY <1>4 DEF h

\* A per-token total that falls for one token only, as an EXCEPT.
LEMMA BookLoss ==
  ASSUME NEW f \in Books, NEW g, IsBook(g), NEW own \in Tokens, NEW a \in Int,
         NEW d, d = 0 - a,
         \A x \in Tokens : g[x] = f[x] + Share(x, own, d)
  PROVE  g = [f EXCEPT ![own] = @ - a]
<1> DEFINE h == [f EXCEPT ![own] = @ - a]
<1>1. g \in [Tokens -> Int]
  <2>1. \A x \in Tokens : g[x] \in Int
    BY DEF Share, Books
  <2> QED BY <2>1 DEF IsBook
<1>2. h \in [Tokens -> Int]
  BY DEF Books
<1>3. \A x \in Tokens : g[x] = h[x]
  BY DEF Share, Books
<1> HIDE DEF h
<1>4. g = h
  BY <1>1, <1>2, <1>3
<1> QED BY <1>4 DEF h

\* What the vault holds bounds every amount a call moves.
LEMMA WithinFunds ==
  ASSUME TypeOK, FundsHeld, NEW tok \in Tokens, NEW a \in Nat,
         a <= vault[tok] \/ a <= outside[tok]
  PROVE  a \in (0 .. AllFunds) \cap Nat
<1>1. vault[tok] \in Nat /\ outside[tok] \in Nat
      /\ vault[tok] + outside[tok] <= Funds[tok]
  BY DEF TypeOK, FundsHeld
<1> QED BY <1>1, FundsBound

\* A change of a record is a change of the prepaid book.
LEMMA PrepaidMoves ==
  ASSUME TypeOK, NEW id \in DOMAIN subs, NEW t \in Subscription,
         Rewrites(id, t), NEW a \in Nat
  PROVE  /\ t.prepaid = subs[id].prepaid + a =>
              PrepaidBook' = [PrepaidBook EXCEPT ![t.token] = @ + a]
         /\ t.prepaid = subs[id].prepaid - a =>
              PrepaidBook' = [PrepaidBook EXCEPT ![t.token] = @ - a]
<1>1. subs[id].prepaid \in Nat /\ t.prepaid \in Nat /\ t.token \in Tokens
  BY KnownType DEF Subscription
<1>2. /\ IsBook(PrepaidBook')
      /\ \A x \in Tokens : /\ PrepaidBook[x] = Prepaid(x)
                           /\ PrepaidBook'[x] = Prepaid(x)'
  BY DEF PrepaidBook, IsBook
<1>3. PrepaidBook \in Books
  BY TotalsNat DEF PrepaidBook, Books
<1>4. \A x \in Tokens : PrepaidBook'[x] = PrepaidBook[x]
                          + Share(x, t.token, t.prepaid - subs[id].prepaid)
  BY <1>2, RewriteTotals
<1>5. ASSUME t.prepaid = subs[id].prepaid + a
      PROVE  PrepaidBook' = [PrepaidBook EXCEPT ![t.token] = @ + a]
  <2>1. t.prepaid - subs[id].prepaid = a /\ a \in Int
    BY <1>1, <1>5
  <2>2. \A x \in Tokens : PrepaidBook'[x] = PrepaidBook[x] + Share(x, t.token, a)
    BY <1>4, <2>1, Zenon
  <2> QED BY <1>1, <1>2, <1>3, <2>1, <2>2, BookGain
<1>6. ASSUME t.prepaid = subs[id].prepaid - a
      PROVE  PrepaidBook' = [PrepaidBook EXCEPT ![t.token] = @ - a]
  <2>1. PICK d : t.prepaid - subs[id].prepaid = d /\ d = 0 - a /\ a \in Int
    BY <1>1, <1>6
  <2>2. \A x \in Tokens : PrepaidBook'[x] = PrepaidBook[x] + Share(x, t.token, d)
    BY <1>4, <2>1, Zenon
  <2> QED BY <1>1, <1>2, <1>3, <2>1, <2>2, BookLoss
<1> QED BY <1>5, <1>6

\* A charge is a gain of the earned book and leaves the refunds.
LEMMA CreditedBooks ==
  ASSUME TypeOK, NEW s \in Subscription, NEW k \in Kinds, NEW a \in Nat,
         CreditMerchant(s, k, a) \/ (k = "interval" /\ CreditSplit(s, a))
  PROVE  /\ EarnedBook' = [EarnedBook EXCEPT ![s.token] = @ + a]
         /\ RefundedBook' = RefundedBook
<1>1. /\ IsBook(EarnedBook')
      /\ \A x \in Tokens : EarnedBook[x] = Earned(x) /\ EarnedBook'[x] = Earned(x)'
  BY DEF EarnedBook, IsBook
<1>2. EarnedBook \in Books
  BY TotalsNat DEF EarnedBook, Books
<1>3. s.token \in Tokens /\ a \in Int
  BY DEF Subscription
<1>4. \A x \in Tokens : EarnedBook'[x] = EarnedBook[x] + Share(x, s.token, a)
  BY <1>1, CreditTotals
<1>5. EarnedBook' = [EarnedBook EXCEPT ![s.token] = @ + a]
  BY <1>1, <1>2, <1>3, <1>4, BookGain
<1>6. ASSUME NEW x \in Tokens
      PROVE  Refunded(x)' = Refunded(x)
  <2>1. "refunds" \in EarningFields /\ "refunds" # k
    BY DEF EarningFields, Kinds
  <2>2. Accrued(x, "refunds")' = Accrued(x, "refunds")
                                   + Gain("refunds", k, x, s.token, a)
    BY <2>1, CreditTotals
  <2>3. Gain("refunds", k, x, s.token, a) = 0
    BY <2>1 DEF Gain
  <2>4. Accrued(x, "refunds") \in Nat
    BY <2>1, TotalsNat
  <2> QED BY <2>2, <2>3, <2>4 DEF Refunded
<1>7. RefundedBook' = RefundedBook
  BY <1>6 DEF RefundedBook
<1> QED BY <1>5, <1>7

DebitBalance(b, p, tok, a) == [b EXCEPT ![p][tok] = @ - a]

\* A payout is a loss of the earned book.
LEMMA PaidOutBook ==
  ASSUME TypeOK, NEW p \in Payees, NEW tok \in Tokens, NEW a \in Nat,
         balance' = DebitBalance(balance, p, tok, a)
  PROVE  EarnedBook' = [EarnedBook EXCEPT ![tok] = @ - a]
<1>1. /\ IsBook(EarnedBook')
      /\ \A x \in Tokens : EarnedBook[x] = Earned(x) /\ EarnedBook'[x] = Earned(x)'
  BY DEF EarnedBook, IsBook
<1>2. EarnedBook \in Books /\ a \in Int
  BY TotalsNat DEF EarnedBook, Books
<1>3. PICK d \in Int : d = 0 - a
  OBVIOUS
<1>4. balance \in [Payees -> [Tokens -> Int]]
  BY DEF TypeOK
<1>5. balance' = [balance EXCEPT ![p][tok] = @ + d]
  <2>1. balance[p][tok] - a = balance[p][tok] + d
    BY <1>3, <1>4
  <2> QED BY <2>1, Zenon DEF DebitBalance
<1>6. \A x \in Tokens : EarnedIn(balance', x) = EarnedIn(balance, x) + Share(x, tok, d)
  <2> SUFFICES ASSUME NEW x \in Tokens
               PROVE  EarnedIn(balance', x) = EarnedIn(balance, x) + Share(x, tok, d)
    OBVIOUS
  <2>1. EarnedIn([balance EXCEPT ![p][tok] = @ + d], x)
          = EarnedIn(balance, x) + Share(x, tok, d)
    BY <1>3, <1>4, BalanceTotal, Zenon
  <2> QED BY <1>5, <2>1, Zenon
<1>7. \A x \in Tokens : EarnedBook'[x] = EarnedBook[x] + Share(x, tok, d)
  BY <1>1, <1>6 DEF Earned, EarnedIn
<1> QED BY <1>1, <1>2, <1>3, <1>7, BookLoss

\* A merchant refund is a gain of the refunded book.
LEMMA RefundedBookGain ==
  ASSUME TypeOK, NEW p \in Payees, NEW tok \in Tokens, NEW a \in Nat,
         earnings' = CreditEarnings(earnings, p, tok, "refunds", a)
  PROVE  RefundedBook' = [RefundedBook EXCEPT ![tok] = @ + a]
<1>1. /\ IsBook(RefundedBook')
      /\ \A x \in Tokens : /\ RefundedBook[x] = Accrued(x, "refunds")
                           /\ RefundedBook'[x] = Accrued(x, "refunds")'
  BY DEF RefundedBook, Refunded, IsBook
<1>2. RefundedBook \in Books /\ a \in Int
  BY TotalsNat DEF RefundedBook, Books
<1>3. "refunds" \in EarningFields /\ earnings \in EarningTables
  BY DEF EarningFields, EarningTables, TypeOK
<1>4. \A x \in Tokens : AccruedIn(earnings', x, "refunds")
        = AccruedIn(earnings, x, "refunds") + Gain("refunds", "refunds", x, tok, a)
  BY <1>3, EarningsTotal
<1>5. \A x \in Tokens : RefundedBook'[x] = RefundedBook[x] + Share(x, tok, a)
  BY <1>1, <1>4 DEF Accrued, AccruedIn, Gain
<1> QED BY <1>1, <1>2, <1>5, BookGain

Custody == Ledger!LedgerInv /\ FundsHeld

\* Every move is a step of the ledger.
LEMMA LedgerMove ==
  ASSUME TypeOK, Custody, Moves
  PROVE  [Ledger!Next]_(Ledger!vars)
<1>0. /\ FundsHeld
      /\ \A tok \in Tokens : /\ vault[tok] \in Nat
                             /\ Prepaid(tok) + Earned(tok) <= vault[tok]
                             /\ Prepaid(tok) \in Nat /\ Earned(tok) \in Nat
  BY TotalsNat DEF Custody, Ledger!LedgerInv, Ledger!Solvent, TypeOK
<1>1. /\ Ledger!vars = <<PrepaidBook, EarnedBook, RefundedBook, accounted, vault>>
      /\ Ledger!vars' = <<PrepaidBook', EarnedBook', RefundedBook', accounted', vault'>>
  BY DEF Ledger!vars, PrepaidBook, EarnedBook, RefundedBook
<1>2. CASE Still
  <2>1. PrepaidBook' = PrepaidBook /\ EarnedBook' = EarnedBook
        /\ RefundedBook' = RefundedBook
    BY <1>2, StillTotals DEF PrepaidBook, EarnedBook, RefundedBook, Refunded
  <2>2. accounted' = accounted /\ vault' = vault
    BY <1>2 DEF Still
  <2> QED BY <1>1, <2>1, <2>2
<1>3. ASSUME NEW tok \in Tokens, NEW a \in Nat,
             a <= vault[tok] \/ a <= outside[tok],
             \/ Ledger!Deposit(tok, a) \/ Ledger!Charge(tok, a)
             \/ Ledger!ReturnPrepaid(tok, a) \/ Ledger!Payout(tok, a)
             \/ Ledger!RefundEarned(tok, a) \/ Ledger!Strand(tok, a) \/ Ledger!Recover(tok, a)
      PROVE  Ledger!Next
  <2>1. a \in (0 .. AllFunds) \cap Nat
    BY <1>0, <1>3, WithinFunds
  <2> QED BY <1>3, <2>1, Zenon DEF Ledger!Next
<1>4. ASSUME NEW id \in DOMAIN subs, NEW t \in Subscription, NEW a \in Nat,
             PaysIn(id, t, a)
      PROVE  Ledger!Next
  <2>1. Rewrites(id, t) /\ t.prepaid = subs[id].prepaid + a /\ t.token \in Tokens
    BY <1>4 DEF PaysIn, Subscription
  <2>2. PrepaidBook' = [PrepaidBook EXCEPT ![t.token] = @ + a]
    BY <2>1, PrepaidMoves
  <2>3. /\ EarnedBook' = EarnedBook /\ RefundedBook' = RefundedBook
    BY <1>4 DEF PaysIn, EarnedBook, RefundedBook, Earned, Refunded, Accrued
  <2>4. /\ a <= outside[t.token]
        /\ accounted' = [accounted EXCEPT ![t.token] = @ + a]
        /\ vault' = [vault EXCEPT ![t.token] = @ + a]
    BY <1>4 DEF PaysIn, TransferIn, AddAccounted
  <2>5. Ledger!Deposit(t.token, a)
    BY <2>2, <2>3, <2>4, Zenon
       DEF Ledger!Deposit, Ledger!Add, PrepaidBook, EarnedBook, RefundedBook
  <2> QED BY <1>3, <2>1, <2>4, <2>5
<1>5. ASSUME NEW id \in DOMAIN subs, NEW t \in Subscription, NEW a \in Nat,
             PaysBack(id, t, a)
      PROVE  Ledger!Next
  <2>1. /\ Rewrites(id, t) /\ t.prepaid = subs[id].prepaid - a /\ t.token \in Tokens
        /\ t.token = subs[id].token /\ a <= subs[id].prepaid
        /\ subs[id].prepaid \in Nat
    BY <1>5, KnownType DEF PaysBack, Subscription, Rewrites
  <2>2. PrepaidBook' = [PrepaidBook EXCEPT ![t.token] = @ - a]
    BY <2>1, PrepaidMoves
  <2>3. /\ EarnedBook' = EarnedBook /\ RefundedBook' = RefundedBook
    BY <1>5 DEF PaysBack, EarnedBook, RefundedBook, Earned, Refunded, Accrued
  <2>4. /\ a <= vault[t.token]
        /\ accounted' = [accounted EXCEPT ![t.token] = @ - a]
        /\ vault' = [vault EXCEPT ![t.token] = @ - a]
    BY <1>5 DEF PaysBack, TransferOut, SubAccounted
  <2>5. a <= PrepaidBook[t.token]
    BY <1>0, <2>1, TotalsBound DEF PrepaidBook
  <2>6. Ledger!ReturnPrepaid(t.token, a)
    BY <2>2, <2>3, <2>4, <2>5, Zenon
       DEF Ledger!ReturnPrepaid, Ledger!Sub, PrepaidBook, EarnedBook, RefundedBook
  <2> QED BY <1>3, <2>1, <2>4, <2>6
<1>6. ASSUME NEW id \in DOMAIN subs, NEW t \in Subscription, NEW a \in Nat,
             TakesCharge(id, t, a)
      PROVE  Ledger!Next
  <2>1. /\ Rewrites(id, t) /\ t.prepaid = subs[id].prepaid - a /\ t.token \in Tokens
        /\ t.token = subs[id].token /\ a <= subs[id].prepaid
        /\ subs[id].prepaid \in Nat /\ subs[id] \in Subscription
        /\ accounted' = accounted /\ vault' = vault
    BY <1>6, KnownType DEF TakesCharge, Subscription, Rewrites
  <2>2. PrepaidBook' = [PrepaidBook EXCEPT ![t.token] = @ - a]
    BY <2>1, PrepaidMoves
  <2>3. PICK k \in Kinds :
          \/ CreditMerchant(subs[id], k, a)
          \/ k = "interval" /\ CreditSplit(subs[id], a)
    BY <1>6 DEF TakesCharge
  <2>4. /\ EarnedBook' = [EarnedBook EXCEPT ![subs[id].token] = @ + a]
        /\ RefundedBook' = RefundedBook
    BY <2>1, <2>3, CreditedBooks
  <2>5. a <= PrepaidBook[t.token] /\ a <= vault[t.token]
    BY <1>0, <2>1, TotalsBound DEF PrepaidBook
  <2>6. Ledger!Charge(t.token, a)
    BY <2>1, <2>2, <2>4, <2>5, Zenon
       DEF Ledger!Charge, Ledger!Sub, Ledger!Add, PrepaidBook, EarnedBook, RefundedBook
  <2> QED BY <1>3, <2>1, <2>5, <2>6
<1>7. ASSUME NEW p \in Payees, NEW tok \in Tokens, NEW a \in Nat, PaysOut(p, tok, a)
      PROVE  Ledger!Next
  <2>1. EarnedBook' = [EarnedBook EXCEPT ![tok] = @ - a]
    <3>1. balance' = DebitBalance(balance, p, tok, a)
      BY <1>7, Zenon DEF PaysOut, DebitBalance
    <3> QED BY <3>1, PaidOutBook
  <2>2. PrepaidBook' = PrepaidBook
    BY <1>7 DEF PaysOut, PrepaidBook, Prepaid, OfToken
  <2>3. a <= vault[tok] /\ vault' = [vault EXCEPT ![tok] = @ - a]
    BY <1>7 DEF PaysOut, TransferOut
  <2>4. a <= EarnedBook[tok]
    <3>1. balance[p][tok] \in Nat /\ a <= balance[p][tok]
      BY <1>7 DEF TypeOK, PaysOut
    <3> QED BY <1>0, <3>1, TotalsBound DEF EarnedBook
  <2>5. CASE SubAccounted(tok, a) /\ UNCHANGED earnings
    <3>1. RefundedBook' = RefundedBook
      BY <2>5 DEF RefundedBook, Refunded, Accrued
    <3>2. Ledger!Payout(tok, a)
      BY <2>1, <2>2, <2>3, <2>4, <2>5, <3>1, Zenon
         DEF Ledger!Payout, Ledger!Sub, PrepaidBook, EarnedBook, RefundedBook, SubAccounted
    <3> QED BY <1>3, <2>3, <3>2
  <2>6. CASE /\ earnings' = CreditEarnings(earnings, p, tok, "refunds", a)
             /\ UNCHANGED accounted
    <3>1. RefundedBook' = [RefundedBook EXCEPT ![tok] = @ + a]
      BY <2>6, RefundedBookGain
    <3>2. Ledger!RefundEarned(tok, a)
      BY <2>1, <2>2, <2>3, <2>4, <2>6, <3>1, Zenon
         DEF Ledger!RefundEarned, Ledger!Sub, Ledger!Add, PrepaidBook, EarnedBook, RefundedBook
    <3> QED BY <1>3, <2>3, <3>2
  <2> QED BY <1>7, <2>5, <2>6 DEF PaysOut
<1>8. ASSUME NEW tok \in Tokens, NEW a \in Nat, Strays(tok, a)
      PROVE  Ledger!Next
  <2>1. /\ PrepaidBook' = PrepaidBook /\ EarnedBook' = EarnedBook
        /\ RefundedBook' = RefundedBook /\ accounted' = accounted
    BY <1>8 DEF Strays, PrepaidBook, Prepaid, OfToken, EarnedBook, Earned,
                RefundedBook, Refunded, Accrued
  <2>2. CASE TransferIn(tok, a)
    <3>1. Ledger!Strand(tok, a)
      BY <2>1, <2>2, Zenon DEF TransferIn, Ledger!Strand, Ledger!Add, PrepaidBook, EarnedBook,
                                RefundedBook
    <3> QED BY <1>3, <2>2, <3>1 DEF TransferIn
  <2>3. CASE a <= Recoverable(tok) /\ TransferOut(tok, a)
    <3>1. Ledger!Recover(tok, a)
      BY <2>1, <2>3, Zenon DEF TransferOut, Ledger!Recover, Ledger!Sub, PrepaidBook,
                                EarnedBook, RefundedBook, Recoverable
    <3> QED BY <1>3, <2>3, <3>1 DEF TransferOut
  <2> QED BY <1>8, <2>2, <2>3 DEF Strays
<1> QED BY <1>2, <1>4, <1>5, <1>6, <1>7, <1>8 DEF Moves

\* The vault starts empty.
LEMMA CustodyInit ==
  ASSUME Init
  PROVE  Ledger!Init /\ FundsHeld
<1>1. \A tok \in Tokens : Prepaid(tok) = 0 /\ Earned(tok) = 0 /\ Refunded(tok) = 0
  BY InitTotals DEF Refunded, EarningFields
<1>2. accounted = [tok \in Tokens |-> 0] /\ vault = [tok \in Tokens |-> 0]
  BY DEF Init
<1>3. Ledger!Init
  BY <1>1, <1>2 DEF Ledger!Init
<1>4. FundsHeld
  BY <1>2, VaultAssumption DEF Init, FundsHeld, VaultAssumption
<1> QED BY <1>3, <1>4

\* Every step of the contract is a step of the ledger, and keeps it in order.
LEMMA CustodyStep ==
  ASSUME TypeOK, Custody, [Next]_vars
  PROVE  [Ledger!Next]_(Ledger!vars) /\ Custody'
<1>1. [Ledger!Next]_(Ledger!vars) /\ FundsHeld'
  <2>1. CASE Next
    BY <2>1, StepMoves, LedgerMove, FundsHeldStep DEF Custody
  <2>2. CASE UNCHANGED vars
    <3>1. /\ subs' = subs /\ balance' = balance /\ earnings' = earnings
          /\ accounted' = accounted /\ vault' = vault /\ outside' = outside
      BY <2>2 DEF vars
    <3>2. Ledger!vars' = Ledger!vars
      BY <3>1 DEF Ledger!vars, Prepaid, OfToken, Earned, Refunded, Accrued
    <3>3. FundsHeld'
      BY <3>1 DEF Custody, FundsHeld
    <3> QED BY <3>2, <3>3
  <2> QED BY <2>1, <2>2
<1>2. Ledger!LedgerInv'
  BY <1>1, Ledger!LedgerStep DEF Custody
<1> QED BY <1>1, <1>2 DEF Custody

\* The ledger is in order in every state the contract reaches.
LEMMA CustodyAlways == Spec => []Custody /\ [][[Ledger!Next]_(Ledger!vars)]_vars
<1>1. Init => Custody
  BY CustodyInit, Ledger!LedgerInit DEF Custody
<1>2. TypeOK /\ Custody /\ [Next]_vars => Custody' /\ [Ledger!Next]_(Ledger!vars)
  BY CustodyStep
<1>3. IType => TypeOK
  BY DEF IType
<1> QED BY <1>1, <1>2, <1>3, Foundation, PTL DEF Spec

(***************************************************************************)
(* The vault holds what it owes: for every set of subscribers, merchants   *)
(* and tokens and every interleaving of entry points, the tokens in the    *)
(* vault cover all prepaid and all earned balances of that token.          *)
(***************************************************************************)
THEOREM SolvencyTheorem == Spec => []Solvency
<1>1. Custody => Solvency
  BY TotalsNat DEF Custody, Ledger!LedgerInv, Ledger!Solvent, Solvency
<1> QED BY <1>1, CustodyAlways, PTL

(***************************************************************************)
(* TotalAccounted is the sum of what is owed plus what merchants refunded: *)
(* recovery, which sweeps only what exceeds it, can reach nothing owed.    *)
(***************************************************************************)
THEOREM AccountedTheorem == Spec => []AccountedWithRefunds
<1>1. Custody => AccountedWithRefunds
  BY DEF Custody, Ledger!LedgerInv, AccountedWithRefunds
<1> QED BY <1>1, CustodyAlways, PTL

(***************************************************************************)
(* The contract implements the ledger: every step of every entry point is, *)
(* in the sums, one of the ledger's moves or a stutter.                    *)
(***************************************************************************)
THEOREM LedgerRefinement == Spec => ImplementsLedger
<1>1. Init => Ledger!Init
  BY CustodyInit
<1>2. TypeOK /\ Custody /\ [Next]_vars => [Ledger!Next]_(Ledger!vars)
  BY CustodyStep
<1>3. IType => TypeOK
  BY DEF IType
<1> QED BY <1>1, <1>2, <1>3, Foundation, CustodyAlways, PTL
        DEF Spec, ImplementsLedger, Ledger!Spec

-------------------------------------------------------------------------------
(***************************************************************************)
(* Limits at creation.                                                     *)
(***************************************************************************)
\* Only the two create calls hand out an id.
LEMMA OnlyCreateAllocates ==
  ASSUME TypeOK, Next, nextId' # nextId
  PROVE  CreateNext
<1>1. ASSUME LifecycleNext PROVE FALSE
  BY <1>1, Zenon DEF LifecycleNext, MigrateSubscriptionToPlan, CancelSubscription,
     PauseSubscription, ResumeSubscription, CleanupSubscription
<1>2. ASSUME ChargeNext PROVE FALSE
  <2>1. ASSUME NEW id, NEW v, ChargeUsage(id, v) \/ ChargeOneOff(id, v)
        PROVE  FALSE
    BY <2>1, Zenon DEF ChargeUsage, ChargeOneOff
  <2>2. ASSUME NEW id, ChargeSubscription(id)
        PROVE  FALSE
    BY <2>2, Zenon DEF ChargeSubscription
  <2>3. ASSUME NEW ids, BatchCharge(ids)
        PROVE  FALSE
    BY <2>3, Zenon DEF BatchCharge
  <2>4. ASSUME BatchItem
        PROVE  FALSE
    BY <2>4, Zenon DEF BatchItem
  <2> QED BY <1>2, <2>1, <2>2, <2>3, <2>4, Zenon DEF ChargeNext, UsageNext, BillNext
<1>3. ASSUME FundsNext \/ ReclaimNext \/ Tick PROVE FALSE
  BY <1>3, ZenonT(30) DEF FundsNext, DepositFunds, PartialRefund,
     WithdrawMerchantFunds, MerchantRefund, DirectTransfer, RecoverStrandedFunds,
     ReclaimNext, WithdrawSubscriberFunds, Tick
<1>4. ASSUME GateNext \/ TermsNext PROVE FALSE
  BY <1>4, ZenonT(30) DEF GateNext, TermsNext, SetConfig, EnableEmergencyStop,
     DisableEmergencyStop, PauseMerchant, UnpauseMerchant, SetMerchantConfig,
     AddToBlocklist, RemoveFromBlocklist, AddAcceptedToken, RemoveAcceptedToken,
     SetMinTopup, SetProtocolFee, SetOracleConfig, SetGlobalCapDefault,
     SetMerchantCapDefault, SetSubscriberCreditLimit, SetPlanMaxActiveSubs
<1> QED BY <1>1, <1>2, <1>3, <1>4, Zenon DEF Next, CoreNext

\* What one record adds to its subscriber's exposure.
Weight(s) == s.prepaid + (IF s.status = Active THEN s.amount ELSE 0)

\* Adding one Active record: one more exposure, one more active subscription.
LEMMA AllocatedTotals ==
  ASSUME TypeOK, NEW s, Weight(s) = s.amount, s.amount \in Int, s.status = Active,
         subs' = [id \in 0 .. nextId |-> IF id # nextId THEN subs[id] ELSE s]
  PROVE  /\ Exposure(s.subscriber, s.token)' = Exposure(s.subscriber, s.token) + s.amount
         /\ Exposure(s.subscriber, s.token) \in Int
         /\ Cardinality(ActiveOnPlan(s.subscriber, s.plan)')
              = Cardinality(ActiveOnPlan(s.subscriber, s.plan)) + 1
         /\ Cardinality(ActiveOnPlan(s.subscriber, s.plan)) \in Nat
<1>1. /\ DOMAIN subs' = DOMAIN subs \cup {nextId} /\ nextId \notin DOMAIN subs
      /\ \A x \in DOMAIN subs : subs'[x] = subs[x]
      /\ subs'[nextId] = s
  <2>1. nextId \in Nat /\ DOMAIN subs = 0 .. (nextId - 1)
    BY VaultAssumption DEF TypeOK, VaultAssumption
  <2>2. 0 .. nextId = 0 .. (nextId - 1) \cup {nextId} /\ nextId \notin 0 .. (nextId - 1)
    BY <2>1
  <2> QED BY <2>1, <2>2
<1>2. PICK c, tok, p : c = s.subscriber /\ tok = s.token /\ p = s.plan
  OBVIOUS
<1>3. /\ Exposure(c, tok)' = Exposure(c, tok) + s.amount
      /\ Exposure(c, tok) \in Int
  <2> DEFINE v == [x \in DOMAIN subs |-> Weight(subs[x])]
             w == [x \in DOMAIN subs' |-> Weight(subs'[x])]
             S == {x \in DOMAIN subs : subs[x].subscriber = c /\ subs[x].token = tok}
             T == {x \in DOMAIN subs' : subs'[x].subscriber = c /\ subs'[x].token = tok}
  <2>1. /\ Exposure(c, tok) = SumFunctionOnSet(v, S)
        /\ Exposure(c, tok)' = SumFunctionOnSet(w, T)
    BY DEF Exposure, Weight
  <2>2. T = S \cup {nextId} /\ nextId \notin S /\ S \subseteq DOMAIN subs
    BY <1>1, <1>2
  <2>3. IsFiniteSet(S)
    BY <2>2, SubsFinite, FS_Subset
  <2>4. \A x \in DOMAIN subs : Weight(subs[x]) \in Int
    BY KnownType DEF Subscription, Weight
  <2>5. /\ \A x \in S : v[x] \in Int /\ w[x] = v[x]
        /\ w[nextId] = s.amount
    BY <1>1, <2>2, <2>4
  <2> HIDE DEF v, w, S, T
  <2>6. SumFunctionOnSet(v, S) = SumFunctionOnSet(w, S) /\ SumFunctionOnSet(v, S) \in Int
    BY <2>3, <2>5, SumCongruent, SumInt
  <2>7. \A x \in S \cup {nextId} : w[x] \in Int
    BY <2>5
  <2>8. SumFunctionOnSet(w, S \cup {nextId}) = w[nextId] + SumFunctionOnSet(w, S)
    BY <2>2, <2>3, <2>7, SumAdd
  <2> QED BY <2>1, <2>2, <2>5, <2>6, <2>8
<1>4. /\ Cardinality(ActiveOnPlan(c, p)') = Cardinality(ActiveOnPlan(c, p)) + 1
      /\ Cardinality(ActiveOnPlan(c, p)) \in Nat
  <2>1. /\ ActiveOnPlan(c, p)' = ActiveOnPlan(c, p) \cup {nextId}
        /\ nextId \notin ActiveOnPlan(c, p) /\ ActiveOnPlan(c, p) \subseteq DOMAIN subs
    BY <1>1, <1>2 DEF ActiveOnPlan
  <2>2. IsFiniteSet(ActiveOnPlan(c, p))
    BY <2>1, SubsFinite, FS_Subset
  <2> QED BY <2>1, <2>2, FS_AddElement, FS_CardinalityType
<1> QED BY <1>2, <1>3, <1>4

\* The record that Allocate stores.
NewRecord(c, m, tok, a, i, u, cap, e, p) ==
  [subscriber |-> c, merchant |-> m, token |-> tok, amount |-> a, interval |-> i,
   last_payment |-> now, status |-> Active, prepaid |-> 0, usage |-> u,
   cap |-> cap, charged |-> 0, start |-> now, expires |-> e, plan |-> p,
   period |-> 0, snaps |-> {}, billed |-> [k \in Kinds |-> 0]]

\* Each limit that was checked before the record was stored holds after.
LEMMA AllocatedLimits ==
  ASSUME TypeOK, NEW c \in Subscribers, NEW m, NEW tok \in Tokens, NEW a \in Int,
         NEW i, NEW u, NEW cap, NEW e, NEW p,
         WithinCreditLimit(c, tok, a), p # None => WithinPlanLimit(c, p),
         config.plan_max \in [DOMAIN Plans -> Nat],
         config.credit_limit \in [Subscribers -> [Tokens -> Nat]],
         Allocate(c, m, tok, a, i, u, cap, e, p)
  PROVE  CreationStep
<1>1. PICK s : s = NewRecord(c, m, tok, a, i, u, cap, e, p)
  OBVIOUS
<1>2. /\ s.subscriber = c /\ s.token = tok /\ s.amount = a /\ s.plan = p
      /\ s.status = Active /\ s.prepaid = 0
  BY <1>1 DEF NewRecord
<1>3. subs' = [id \in 0 .. nextId |-> IF id # nextId THEN subs[id] ELSE s]
  BY <1>1, Zenon DEF Allocate, NewRecord
<1>4. Weight(s) = s.amount
  BY <1>2 DEF Weight
<1>5. /\ Exposure(c, tok)' = Exposure(c, tok) + a /\ Exposure(c, tok) \in Int
      /\ Cardinality(ActiveOnPlan(c, p)') = Cardinality(ActiveOnPlan(c, p)) + 1
      /\ Cardinality(ActiveOnPlan(c, p)) \in Nat
  BY <1>2, <1>3, <1>4, AllocatedTotals
<1>6. subs'[nextId] = s
  <2>1. nextId \in 0 .. nextId
    BY VaultAssumption DEF TypeOK, VaultAssumption
  <2> QED BY <1>3, <2>1
<1>7. ASSUME a > 0, config.credit_limit[c][tok] # 0
      PROVE  Exposure(c, tok)' <= config.credit_limit[c][tok]
  BY <1>5, <1>7 DEF WithinCreditLimit
<1>8. ASSUME p # None, p \in DOMAIN Plans, config.plan_max[p] # 0
      PROVE  Cardinality(ActiveOnPlan(c, p)') <= config.plan_max[p]
  <2>1. Cardinality(ActiveOnPlan(c, p)) < config.plan_max[p]
    BY <1>8 DEF WithinPlanLimit, ActiveOnPlan
  <2> QED BY <1>5, <1>8, <2>1
<1> QED BY <1>2, <1>6, <1>7, <1>8 DEF CreationStep

(***************************************************************************)
(* A step that creates a subscription leaves the subscriber's exposure     *)
(* within the credit limit and the plan within its maximum, whatever runs  *)
(* before it.                                                              *)
(***************************************************************************)
THEOREM CreationTheorem == Spec => CreationWithinLimits
<1>1. ASSUME IType, Next PROVE CreationStep
  <2>1. TypeOK /\ config.plan_max \in [DOMAIN Plans -> Nat]
        /\ config.credit_limit \in [Subscribers -> [Tokens -> Nat]]
    <3>1. config.plan_max \in PlanTable /\ config.credit_limit \in LimitTable
      BY <1>1 DEF IType, TypeOK, Config
    <3> QED BY <1>1, <3>1 DEF IType, PlanTable, LimitTable
  <2>2. ASSUME NEW c \in Subscribers, NEW m \in Merchants, NEW tok \in Tokens,
               NEW a \in Amounts, NEW i, NEW u, NEW cap, NEW e,
               CreateSubscription(c, m, tok, a, i, u, cap, e)
        PROVE  CreationStep
    <3>1. a \in Int
      BY VaultAssumption DEF VaultAssumption
    <3>2. /\ WithinCreditLimit(c, tok, a)
          /\ Allocate(c, m, tok, a, i, u, ResolveCap(m, cap), e, None)
      BY <2>2 DEF CreateSubscription
    <3> QED BY <2>1, <3>1, <3>2, AllocatedLimits
  <2>3. ASSUME NEW c \in Subscribers, NEW p \in DOMAIN Plans,
               CreateSubscriptionFromPlan(c, p)
        PROVE  CreationStep
    <3>1. PICK plan : plan = Plans[p]
      OBVIOUS
    <3>2. plan.amount \in Int /\ plan.token \in Tokens
      BY <3>1, PlanType DEF PlanTemplate
    <3>3. /\ WithinCreditLimit(c, plan.token, plan.amount)
          /\ WithinPlanLimit(c, p)
          /\ Allocate(c, plan.merchant, plan.token, plan.amount, plan.interval,
                      plan.usage, ResolveCap(plan.merchant, plan.cap), None, p)
      BY <2>3, <3>1 DEF CreateSubscriptionFromPlan
    <3> QED BY <2>1, <3>2, <3>3, AllocatedLimits
  <2>4. CASE nextId' # nextId
    <3>1. CreateNext
      BY <1>1, <2>1, <2>4, OnlyCreateAllocates
    <3> QED BY <2>2, <2>3, <3>1, Zenon DEF CreateNext
  <2> QED BY <2>4 DEF CreationStep
<1>2. IType /\ [Next]_vars => [CreationStep]_vars
  BY <1>1
<1> QED BY <1>2, Foundation, PTL DEF Spec, CreationWithinLimits
===============================================================================
