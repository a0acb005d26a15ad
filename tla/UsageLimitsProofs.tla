--------------------------- MODULE UsageLimitsProofs ---------------------------
(***************************************************************************)
(* What metering keeps for every set of references and every choice of     *)
(* limits.  BurstHeld is not inductive: it needs that the limiter's last   *)
(* timestamp is not before any charge made under the limits in force       *)
(* (LastCovers) and that no receipt is ahead of the clock.                 *)
(*                                                                         *)
(* The rate and unit limits need more (LimiterInv): the limiter stores one *)
(* window and one count, and what it stores must cover the charges made.   *)
(* RateState and UnitState say how, for one function of times or amounts;  *)
(* ClockOf says that the limiter's stamps are in order and that its last   *)
(* call is a charge that moved money, unless that call ended the           *)
(* subscription.                                                           *)
(***************************************************************************)
EXTENDS UsageLimits, VaultProofs, SumTheorems

(***************************************************************************)
(* Metering adds nothing to what the vault may do.                         *)
(***************************************************************************)
LEMMA MeterStepIsVaultStep == [MNext]_meteredVars => [Next]_vars
<1>1. ASSUME NEW id \in Ids, NEW a \in Values, NEW r,
             ChargeUsageWithReference(id, a, r)
      PROVE  Next
  BY <1>1 DEF ChargeUsageWithReference, Next, CoreNext, ChargeNext, UsageNext
<1>2. ASSUME NEW id \in Ids, NEW l, ConfigureUsageLimits(id, l)
      PROVE  UNCHANGED vars
  BY <1>2 DEF ConfigureUsageLimits
<1>3. MeterNext => [Next]_vars
  BY <1>1, <1>2 DEF MeterNext, ChargeUsagePlain
<1>4. OtherNext => Next
  BY DEF OtherNext, Next, CoreNext, ChargeNext
<1>5. UNCHANGED meteredVars => UNCHANGED vars
  BY DEF meteredVars
<1> QED
  BY <1>3, <1>4, <1>5 DEF MNext

(***************************************************************************)
(* A metered vault is a vault: every theorem about Vault holds of it, also *)
(* when calls are refused as replays or by the limits.                     *)
(***************************************************************************)
THEOREM MeteredImplementsVault == MSpec => Spec
<1>1. MInit => Init
  BY DEF MInit
<1> QED
  BY <1>1, MeterStepIsVaultStep, PTL DEF MSpec, Spec

-------------------------------------------------------------------------------
(***************************************************************************)
(* The inductive invariant.                                                *)
(***************************************************************************)
MeterType ==
  /\ limits \in [Ids -> LimitChoices \cup {None}]
  /\ usage \in [Ids -> UsageState \cup {None}]
  /\ refs \in [Ids -> SUBSET References]
  /\ receipts \in [Ids -> Seq(Receipt)]
  /\ mark \in [Ids -> Nat]

\* Nothing charged is ahead of the clock, and the limiter has seen every
\* charge made under the limits in force.
LastCovers ==
  \A id \in Ids :
    /\ \A k \in Charges(id) : receipts[id][k].at <= now
    /\ limits[id] # None => \A k \in Recent(id) :
         usage[id] # None /\ receipts[id][k].at <= usage[id].last

MInv == MeterType /\ LastCovers /\ ReferencesChargedOnce /\ BurstHeld

\* Nothing is charged or configured at first.
LEMMA MInitInv == MInit => MInv
<1> SUFFICES ASSUME MInit PROVE MInv
  OBVIOUS
<1>1. MeterType
  BY DEF MInit, MeterType
<1>2. \A id \in Ids : Charges(id) = {} /\ Recent(id) = {} /\ refs[id] = {}
  BY DEF MInit, Charges, Recent
<1> QED
  BY <1>1, <1>2 DEF MInv, LastCovers, ReferencesChargedOnce, BurstHeld

\* What the limiter computes is well-typed, and so is a stored receipt.
LEMMA PeriodicType ==
  ASSUME NEW l, NEW u \in UsageState, NEW s, PeriodIndex(s) \in Nat
  PROVE  Periodic(l, u, s) \in UsageState
<1>1. ASSUME NEW p \in Nat, NEW n \in Int
      PROVE  [u EXCEPT !.period = p, !.units = n] \in UsageState
  BY DEF UsageState
<1>2. 0 \in Int
  OBVIOUS
<1>3. [u EXCEPT !.period = PeriodIndex(s), !.units = 0] \in UsageState
  BY <1>1, <1>2, Zenon
<1> QED
  BY <1>3 DEF Periodic

\* Counting a call keeps the usage state well-typed.
LEMMA CountedType ==
  ASSUME NEW u \in UsageState, NEW a \in Int, now \in Nat
  PROVE  Counted(u, a) \in UsageState /\ Counted(u, a).last = now
<1>1. u.calls + 1 \in Nat /\ u.units + a \in Int
  BY DEF UsageState
<1>2. ASSUME NEW t \in Nat, NEW c \in Nat, NEW n \in Int
      PROVE  LET v == [u EXCEPT !.last = t, !.calls = c, !.units = n]
             IN  v \in UsageState /\ v.last = t
  BY DEF UsageState
<1> QED
  BY <1>1, <1>2 DEF Counted

\* Receipts are stamped with a time.
LEMMA ReceiptAt ==
  ASSUME MeterType, NEW id \in Ids, NEW k \in Charges(id)
  PROVE  receipts[id][k].at \in Nat
<1>1. receipts[id] \in Seq(Receipt) /\ k \in 1 .. Len(receipts[id])
  BY DEF MeterType, Charges
<1>2. receipts[id][k] \in Receipt
  BY <1>1
<1> QED
  BY <1>2 DEF Receipt

\* The state that judges a call is well-typed.
LEMMA JudgedType ==
  ASSUME MeterType, TypeOK, NEW id \in Ids, id \in DOMAIN subs,
         limits[id] # None
  PROVE  Found(id) \in UsageState /\ Judged(id) \in UsageState
<1>1. /\ subs[id] \in Subscription /\ now \in Nat /\ limits[id] \in Limits
      /\ usage[id] \in UsageState \cup {None}
  BY KnownType, UsageAssumption DEF MeterType, UsageAssumption
<1>2. PeriodIndex(subs[id]) \in Nat
  BY <1>1, PeriodIndexNat
<1>3. FreshUsage(subs[id]) \in UsageState
  BY <1>1, <1>2 DEF FreshUsage, UsageState
<1>4. Found(id) \in UsageState
  BY <1>1, <1>3 DEF Found
<1>5. Windowed(limits[id], Found(id)) \in UsageState
  BY <1>1, <1>4 DEF Windowed, UsageState
<1> QED
  BY <1>2, <1>4, <1>5, PeriodicType DEF Judged

(***************************************************************************)
(* A charge that moves money appends one receipt and burns one reference.  *)
(***************************************************************************)
LEMMA ChargeKeeps ==
  ASSUME MInv, TypeOK, NEW id \in Ids, NEW a \in Values, NEW r \in References,
         ChargeUsageWithReference(id, a, r)
  PROVE  MInv'
<1> DEFINE rec == [ref |-> r, amount |-> a, at |-> now]
<1>1. /\ id \in DOMAIN subs /\ r \notin refs[id] /\ now \in Nat /\ a \in Int
      /\ limits' = limits /\ mark' = mark
      /\ usage' = [usage EXCEPT ![id] =
                     IF limits[id] = None THEN @ ELSE Counted(Judged(id), a)]
  BY KnownType, VaultAssumption DEF ChargeUsageWithReference, Known, Unseen, VaultAssumption
<1>2. now' = now
  BY DEF ChargeUsageWithReference, ChargeUsage
<1>3. /\ limits[id] # None => Counted(Judged(id), a) \in UsageState
      /\ limits[id] # None => Counted(Judged(id), a).last = now
  BY <1>1, JudgedType, CountedType DEF MInv
<1>4. usage' \in [Ids -> UsageState \cup {None}]
  BY <1>1, <1>3 DEF MInv, MeterType
<1>5. limits[id] # None => usage'[id] # None /\ usage'[id].last = now
  BY <1>1, <1>3, UsageAssumption DEF MInv, MeterType, UsageAssumption
<1>6. \A j \in Ids : j # id => usage'[j] = usage[j]
  BY <1>1 DEF MInv, MeterType
<1>7. CASE UNCHANGED <<refs, receipts>>
  <2>1. MeterType'
    BY <1>1, <1>4, <1>7 DEF MInv, MeterType
  <2>2. \A j \in Ids : Charges(j)' = Charges(j) /\ Recent(j)' = Recent(j)
    BY <1>1, <1>7 DEF Charges, Recent
  <2>3. LastCovers'
    BY <1>1, <1>2, <1>5, <1>6, <1>7, <2>2 DEF MInv, LastCovers, Recent
  <2>4. ReferencesChargedOnce'
    BY <1>7, <2>2 DEF MInv, ReferencesChargedOnce
  <2>5. BurstHeld'
    BY <1>1, <1>7, <2>2 DEF MInv, BurstHeld
  <2> QED BY <2>1, <2>3, <2>4, <2>5 DEF MInv
<1>8. CASE /\ refs' = [refs EXCEPT ![id] = @ \cup {r}]
           /\ receipts' = [receipts EXCEPT ![id] = Append(@, rec)]
  <2> DEFINE n == Len(receipts[id])
  <2>1. receipts[id] \in Seq(Receipt) /\ mark[id] \in Nat /\ n \in Nat
    BY DEF MInv, MeterType
  <2>2. rec \in Receipt
    BY <1>1 DEF Receipt
  <2>3. /\ receipts'[id] = Append(receipts[id], rec) /\ refs'[id] = refs[id] \cup {r}
        /\ \A j \in Ids : j # id => receipts'[j] = receipts[j] /\ refs'[j] = refs[j]
    BY <1>8 DEF MInv, MeterType
  <2>4. /\ DOMAIN receipts[id] = 1 .. n /\ DOMAIN receipts'[id] = 1 .. (n + 1)
        /\ receipts'[id][n + 1] = rec
        /\ \A k \in 1 .. n : receipts'[id][k] = receipts[id][k]
    BY <2>1, <2>2, <2>3
  <2>5. MeterType'
    <3>1. receipts' \in [Ids -> Seq(Receipt)]
      BY <1>8, <2>1, <2>2 DEF MInv, MeterType
    <3>2. refs' \in [Ids -> SUBSET References]
      BY <1>8 DEF MInv, MeterType
    <3> QED BY <1>1, <1>4, <3>1, <3>2 DEF MInv, MeterType
  <2>6. /\ Charges(id)' = Charges(id) \cup {n + 1} /\ Charges(id) = 1 .. n
        /\ n + 1 \notin Charges(id)
        /\ \A j \in Ids : j # id => Charges(j)' = Charges(j)
    BY <2>1, <2>3, <2>4 DEF Charges
  <2>7. /\ \A k \in Recent(id)' : k = n + 1 \/ k \in Recent(id)
        /\ \A j \in Ids : j # id => Recent(j)' = Recent(j)
    BY <1>1, <2>6 DEF Recent
  <2>8. LastCovers'
    <3>1. ASSUME NEW j \in Ids
          PROVE  /\ \A k \in Charges(j)' : receipts'[j][k].at <= now'
                 /\ limits'[j] # None => \A k \in Recent(j)' :
                      usage'[j] # None /\ receipts'[j][k].at <= usage'[j].last
      <4>1. CASE j # id
        BY <1>1, <1>2, <1>6, <2>3, <2>6, <2>7, <4>1 DEF MInv, LastCovers
      <4>2. CASE j = id
        <5>1. \A k \in Charges(id)' : receipts'[id][k].at <= now
          <6>1. \A k \in Charges(id) : receipts[id][k].at <= now
            BY DEF MInv, LastCovers
          <6>2. \A k \in Charges(id) : receipts'[id][k] = receipts[id][k]
            BY <2>4, <2>6
          <6>3. receipts'[id][n + 1].at <= now
            BY <1>1, <2>4
          <6> HIDE DEF n
          <6> QED BY <2>6, <6>1, <6>2, <6>3
        <5>2. \A k \in Recent(id)' : k \in Charges(id)'
          BY DEF Recent
        <5> QED BY <1>1, <1>2, <1>5, <4>2, <5>1, <5>2
      <4> QED BY <4>1, <4>2
    <3> QED BY <3>1 DEF LastCovers
  <2>9. ReferencesChargedOnce'
    <3>1. ASSUME NEW j \in Ids
          PROVE  /\ \A i, k \in Charges(j)' :
                      receipts'[j][i].ref = receipts'[j][k].ref => i = k
                 /\ refs'[j] = {receipts'[j][k].ref : k \in Charges(j)'}
      <4>1. CASE j # id
        BY <2>3, <2>6, <4>1 DEF MInv, ReferencesChargedOnce
      <4>2. CASE j = id
        <5>1. /\ refs[id] = {receipts[id][k].ref : k \in Charges(id)}
              /\ \A i, k \in Charges(id) :
                   receipts[id][i].ref = receipts[id][k].ref => i = k
          BY DEF MInv, ReferencesChargedOnce
        <5>2. /\ \A k \in Charges(id) : receipts'[id][k].ref = receipts[id][k].ref
              /\ receipts'[id][n + 1].ref = r
          BY <2>4, <2>6
        <5>3. \A k \in Charges(id) : receipts'[id][k].ref # r
          BY <1>1, <5>1, <5>2
        <5>4. \A i, k \in Charges(id)' :
                receipts'[id][i].ref = receipts'[id][k].ref => i = k
          BY <2>6, <5>1, <5>2, <5>3
        <5>5. {receipts'[id][k].ref : k \in Charges(id)'}
                = {receipts[id][k].ref : k \in Charges(id)} \cup {r}
          BY <2>6, <5>2
        <5>6. refs'[id] = {receipts'[id][k].ref : k \in Charges(id)'}
          BY <2>3, <5>1, <5>5
        <5> QED BY <4>2, <5>4, <5>6
      <4> QED BY <4>1, <4>2
    <3> QED BY <3>1 DEF ReferencesChargedOnce
  <2>10. BurstHeld'
    <3>1. ASSUME NEW j \in Ids, limits'[j] # None,
                 NEW i \in Recent(j)', NEW k \in Recent(j)', i < k
          PROVE  receipts'[j][k].at - receipts'[j][i].at >= limits'[j].burst
      <4>1. CASE j # id
        BY <1>1, <2>3, <2>7, <3>1, <4>1 DEF MInv, BurstHeld
      <4>2. CASE j = id /\ k # n + 1
        <5>1. k \in Recent(id) /\ k \in 1 .. n
          BY <2>6, <2>7, <3>1, <4>2 DEF Recent
        <5>2. i \in Recent(id) /\ i \in 1 .. n
          BY <2>1, <2>6, <2>7, <3>1, <4>2, <5>1 DEF Recent
        <5> QED BY <1>1, <2>4, <3>1, <4>2, <5>1, <5>2 DEF MInv, BurstHeld
      <4>3. CASE j = id /\ k = n + 1
        <5>1. i \in Recent(id) /\ i \in 1 .. n
          BY <2>1, <2>6, <2>7, <3>1, <4>3 DEF Recent
        <5>2. limits[id] # None /\ limits[id].burst \in Nat
          BY <1>1, <3>1, <4>3, UsageAssumption DEF MInv, MeterType, Limits, UsageAssumption
        <5>3. /\ usage[id] # None /\ usage[id] \in UsageState
              /\ receipts[id][i].at <= usage[id].last /\ receipts[id][i].at <= now
          BY <5>1, <5>2, <2>6 DEF MInv, MeterType, LastCovers
        <5>4. limits[id].burst > 0 => now - usage[id].last >= limits[id].burst
          BY <5>2, <5>3 DEF ChargeUsageWithReference, Admitted, BurstOk, Found
        <5>5. receipts[id][i].at \in Nat /\ usage[id].last \in Nat
          BY <2>6, <5>1, <5>3, ReceiptAt DEF MInv, UsageState
        <5>6. receipts'[id][k].at = now /\ receipts'[id][i].at = receipts[id][i].at
          BY <2>4, <4>3, <5>1
        <5>7. now - receipts[id][i].at >= limits[id].burst
          BY <1>1, <5>2, <5>3, <5>4, <5>5
        <5> QED BY <1>1, <4>3, <5>6, <5>7
      <4> QED BY <4>1, <4>2, <4>3
    <3> QED BY <3>1 DEF BurstHeld
  <2> QED BY <2>5, <2>8, <2>9, <2>10 DEF MInv
<1> QED
  BY <1>7, <1>8 DEF ChargeUsageWithReference

\* New limits start a new configuration: nothing was charged under it yet.
LEMMA ConfigureKeeps ==
  ASSUME MInv, TypeOK, NEW id \in Ids, NEW l \in LimitChoices,
         ConfigureUsageLimits(id, l)
  PROVE  MInv'
<1>1. /\ limits' = [limits EXCEPT ![id] = l]
      /\ mark' = [mark EXCEPT ![id] = Len(receipts[id])]
      /\ now' = now /\ usage' = usage /\ refs' = refs /\ receipts' = receipts
  BY DEF ConfigureUsageLimits, vars
<1>2. receipts[id] \in Seq(Receipt) /\ DOMAIN receipts[id] = 1 .. Len(receipts[id])
  BY DEF MInv, MeterType
<1>3. MeterType'
  BY <1>1, <1>2 DEF MInv, MeterType
<1>4. \A j \in Ids : Charges(j)' = Charges(j)
  BY <1>1 DEF Charges
<1>5. mark'[id] = Len(receipts[id]) /\ Len(receipts[id]) \in Nat
  BY <1>1, <1>2 DEF MInv, MeterType
<1>6. Recent(id)' = {}
  BY <1>2, <1>4, <1>5 DEF Recent, Charges
<1>7. \A j \in Ids : j # id => Recent(j)' = Recent(j) /\ limits'[j] = limits[j]
  BY <1>1, <1>4 DEF MInv, MeterType, Recent
<1>8. LastCovers'
  BY <1>1, <1>4, <1>6, <1>7 DEF MInv, LastCovers
<1>9. ReferencesChargedOnce'
  BY <1>1, <1>4 DEF MInv, ReferencesChargedOnce
<1>10. BurstHeld'
  BY <1>1, <1>6, <1>7 DEF MInv, BurstHeld
<1> QED
  BY <1>3, <1>8, <1>9, <1>10 DEF MInv

\* The rest of the vault, and the clock, leave the meter alone.
LEMMA OthersKeep ==
  ASSUME MInv, now \in Nat, now' \in Nat, now' >= now, UNCHANGED usageVars
  PROVE  MInv'
<1>1. /\ limits' = limits /\ usage' = usage /\ refs' = refs
      /\ receipts' = receipts /\ mark' = mark
  BY DEF usageVars
<1>2. MeterType' /\ ReferencesChargedOnce' /\ BurstHeld'
  BY <1>1 DEF MInv, MeterType, ReferencesChargedOnce, BurstHeld, Charges, Recent
<1>3. \A id \in Ids : Charges(id)' = Charges(id) /\ Recent(id)' = Recent(id)
  BY <1>1 DEF Charges, Recent
<1>4. \A id \in Ids : \A k \in Charges(id) : receipts[id][k].at \in Nat
  BY ReceiptAt DEF MInv
<1>5. LastCovers'
  BY <1>1, <1>3, <1>4 DEF MInv, LastCovers
<1> QED
  BY <1>2, <1>5 DEF MInv

\* Every step keeps the invariant.
LEMMA MStepInv ==
  ASSUME MInv, IType, [MNext]_meteredVars
  PROVE  MInv'
<1>1. TypeOK /\ now \in Nat
  BY DEF IType, TypeOK
<1>2. now' \in Nat /\ now' >= now
  BY MeterStepIsVaultStep, EachSubStep DEF EachSub
<1>3. ASSUME NEW id \in Ids, NEW a \in Values, NEW r \in References,
             ChargeUsageWithReference(id, a, r)
      PROVE  MInv'
  BY <1>1, <1>3, ChargeKeeps
<1>4. ASSUME NEW id \in Ids, NEW l \in LimitChoices, ConfigureUsageLimits(id, l)
      PROVE  MInv'
  BY <1>1, <1>4, ConfigureKeeps
<1>5. CASE MeterNext
  BY <1>3, <1>4, <1>5, UsageAssumption DEF MeterNext, ChargeUsagePlain, UsageAssumption
<1>6. CASE UNCHANGED usageVars
  BY <1>1, <1>2, <1>6, OthersKeep
<1> QED
  BY <1>5, <1>6 DEF MNext, meteredVars

\* The invariant holds throughout.
LEMMA MeterInvariant == MSpec => []MInv
<1>1. MSpec => []IType
  BY MeteredImplementsVault, Foundation, PTL
<1>2. MInv /\ IType /\ [MNext]_meteredVars => MInv'
  BY MStepInv
<1> QED
  BY <1>1, <1>2, MInitInv, PTL DEF MSpec

(***************************************************************************)
(* One reference moves money at most once, and burns only if it did, for   *)
(* every set of references and every order of resent calls.                *)
(***************************************************************************)
THEOREM ReferencesTheorem == MSpec => []ReferencesChargedOnce
<1>1. MInv => ReferencesChargedOnce
  BY DEF MInv
<1> QED
  BY <1>1, MeterInvariant, PTL

(***************************************************************************)
(* Two usage charges under one configuration are a burst interval apart,   *)
(* whatever the limits are and however often they change.                  *)
(***************************************************************************)
THEOREM BurstTheorem == MSpec => []BurstHeld
<1>1. MInv => BurstHeld
  BY DEF MInv
<1> QED
  BY <1>1, MeterInvariant, PTL

-------------------------------------------------------------------------------
(***************************************************************************)
(* Counting.  R is a set of charges, f the time of each.  The limiter      *)
(* knows the current window, which began at ws, and a count; what bounds   *)
(* the charges of an arbitrary span is that the windows before it are      *)
(* disjoint, and of them only the last one can reach into the span.        *)
(***************************************************************************)
Within(f, R, lo, hi) == {k \in R : lo <= f[k] /\ f[k] < hi}

RateState(f, R, ws, calls, w, max) ==
  /\ \A k \in R : f[k] < ws + w
  /\ Cardinality(Within(f, R, ws, ws + w)) <= calls
  /\ Cardinality(Within(f, R, ws, ws + w)) <= max
  /\ Cardinality(Within(f, R, ws - w + 1, ws)) <= max

RateBound(f, R, w, max) ==
  \A i \in R : Cardinality(Within(f, R, f[i], f[i] + w)) <= 2 * max

\* Counting one more call that left no receipt.
LEMMA RateCounted ==
  ASSUME NEW f, NEW R, IsFiniteSet(R), NEW ws \in Nat, NEW calls \in Nat,
         NEW w \in Nat, NEW max \in Nat, RateState(f, R, ws, calls, w, max)
  PROVE  RateState(f, R, ws, calls + 1, w, max)
<1>1. IsFiniteSet(Within(f, R, ws, ws + w))
  BY FS_Subset DEF Within
<1>2. Cardinality(Within(f, R, ws, ws + w)) \in Nat
  BY <1>1, FS_CardinalityType
<1> QED
  BY <1>2 DEF RateState

\* Without charges nothing is exceeded.
LEMMA RateEmpty ==
  ASSUME NEW f, NEW ws \in Nat, NEW calls \in Nat, NEW w \in Nat, NEW max \in Nat
  PROVE  RateState(f, {}, ws, calls, w, max) /\ RateBound(f, {}, w, max)
<1>1. \A lo, hi : Within(f, {}, lo, hi) = {}
  BY DEF Within
<1>2. Cardinality({}) = 0
  BY FS_EmptySet
<1> QED
  BY <1>1, <1>2 DEF RateState, RateBound

\* A window that is over: the charges that may matter later are those of it.
LEMMA RateRestarts ==
  ASSUME NEW f, NEW R, IsFiniteSet(R), \A k \in R : f[k] \in Nat,
         NEW ws \in Nat, NEW calls \in Nat, NEW w \in Nat \ {0}, NEW max \in Nat,
         RateState(f, R, ws, calls, w, max), NEW t \in Nat, t >= ws + w
  PROVE  RateState(f, R, t, 0, w, max)
<1>1. \A k \in R : f[k] < ws + w /\ f[k] < t
  BY DEF RateState
<1>2. Within(f, R, t, t + w) = {}
  BY <1>1 DEF Within
<1>3. Within(f, R, t - w + 1, t) \subseteq Within(f, R, ws, ws + w)
  BY <1>1 DEF Within
<1>4. IsFiniteSet(Within(f, R, ws, ws + w))
  BY FS_Subset DEF Within
<1>5. /\ Cardinality(Within(f, R, t - w + 1, t))
           <= Cardinality(Within(f, R, ws, ws + w))
      /\ Cardinality(Within(f, R, ws, ws + w)) \in Nat
      /\ Cardinality(Within(f, R, t - w + 1, t)) \in Nat
  BY <1>3, <1>4, FS_Subset, FS_CardinalityType
<1>6. Cardinality(Within(f, R, t - w + 1, t)) <= max
  BY <1>5 DEF RateState
<1>7. Cardinality({}) = 0
  BY FS_EmptySet
<1> QED
  BY <1>1, <1>2, <1>6, <1>7 DEF RateState

\* A charge x at time t in a window that is not over and not full.
LEMMA RateAdds ==
  ASSUME NEW f, NEW R, IsFiniteSet(R), \A k \in R : f[k] \in Nat,
         NEW ws \in Nat, NEW calls \in Nat, NEW w \in Nat \ {0}, NEW max \in Nat,
         RateState(f, R, ws, calls, w, max), RateBound(f, R, w, max),
         NEW t \in Nat, ws <= t, t < ws + w, \A k \in R : f[k] <= t,
         calls < max, NEW x, x \notin R,
         NEW g, g[x] = t, \A k \in R : g[k] = f[k]
  PROVE  /\ RateState(g, R \cup {x}, ws, calls + 1, w, max)
         /\ RateBound(g, R \cup {x}, w, max)
<1> DEFINE S == R \cup {x}
           cur == Within(f, R, ws, ws + w)
           prev == Within(f, R, ws - w + 1, ws)
<1>1. IsFiniteSet(cur) /\ IsFiniteSet(prev) /\ x \notin cur
  BY FS_Subset DEF Within
<1>2. PICK c \in Nat, p \in Nat : c = Cardinality(cur) /\ p = Cardinality(prev)
  BY <1>1, FS_CardinalityType
<1>3. c <= calls /\ p <= max /\ \A k \in R : f[k] < ws + w
  BY <1>2 DEF RateState
<1>4. Within(g, S, ws, ws + w) = cur \cup {x}
  BY DEF Within
<1>5. Within(g, S, ws - w + 1, ws) = prev
  BY DEF Within
<1>6. IsFiniteSet(cur \cup {x}) /\ Cardinality(cur \cup {x}) = c + 1
  BY <1>1, <1>2, FS_AddElement
<1>7. RateState(g, S, ws, calls + 1, w, max)
  <2>1. \A k \in S : g[k] < ws + w
    BY <1>3
  <2>2. c + 1 <= calls + 1 /\ c + 1 <= max
    BY <1>3
  <2> HIDE DEF S, cur, prev
  <2> QED
    BY <1>2, <1>3, <1>4, <1>5, <1>6, <2>1, <2>2 DEF RateState
<1>8. ASSUME NEW i \in S
      PROVE  Cardinality(Within(g, S, g[i], g[i] + w)) <= 2 * max
  <2> DEFINE A == Within(g, S, g[i], g[i] + w)
  <2>1. CASE x \notin A
    <3>1. i \in R /\ g[i] = f[i] /\ f[i] \in Nat
      BY <2>1 DEF Within
    <3>2. A \subseteq Within(f, R, f[i], f[i] + w)
      BY <2>1, <3>1 DEF Within
    <3>3. IsFiniteSet(Within(f, R, f[i], f[i] + w))
      BY FS_Subset DEF Within
    <3>4. /\ Cardinality(A) <= Cardinality(Within(f, R, f[i], f[i] + w))
          /\ Cardinality(Within(f, R, f[i], f[i] + w)) \in Nat
          /\ Cardinality(A) \in Nat
      BY <3>2, <3>3, FS_Subset, FS_CardinalityType
    <3>5. Cardinality(Within(f, R, f[i], f[i] + w)) <= 2 * max
      BY <3>1 DEF RateBound
    <3> QED BY <3>4, <3>5
  <2>2. CASE x \in A
    <3>1. g[i] \in Nat /\ t < g[i] + w
      BY <2>2 DEF Within
    <3>2. A \subseteq (cur \cup {x}) \cup prev
      BY <1>3, <3>1 DEF Within
    <3> HIDE DEF A, cur, prev
    <3>3. /\ IsFiniteSet((cur \cup {x}) \cup prev)
          /\ Cardinality((cur \cup {x}) \cup prev) \in Nat
          /\ Cardinality((cur \cup {x}) \cup prev) <= (c + 1) + p
      <4>1. /\ IsFiniteSet((cur \cup {x}) \cup prev)
            /\ Cardinality((cur \cup {x}) \cup prev)
                 = Cardinality(cur \cup {x}) + Cardinality(prev)
                     - Cardinality((cur \cup {x}) \cap prev)
        BY <1>1, <1>6, FS_Union
      <4>2. Cardinality((cur \cup {x}) \cap prev) \in Nat
        BY <1>6, FS_Intersection, FS_CardinalityType
      <4>3. Cardinality((cur \cup {x}) \cup prev) \in Nat
        BY <4>1, FS_CardinalityType
      <4>4. PICK k \in Nat : k = Cardinality((cur \cup {x}) \cap prev)
        BY <4>2
      <4>5. Cardinality((cur \cup {x}) \cup prev) = (c + 1) + p - k
        BY <1>2, <1>6, <4>1, <4>4, Zenon
      <4>6. (c + 1) + p - k <= (c + 1) + p
        OBVIOUS
      <4> QED BY <4>1, <4>3, <4>5, <4>6
    <3>4. Cardinality(A) <= Cardinality((cur \cup {x}) \cup prev)
          /\ Cardinality(A) \in Nat
      BY <3>2, <3>3, FS_Subset, FS_CardinalityType
    <3>5. PICK y \in Nat, z \in Nat :
            y = Cardinality(A) /\ z = Cardinality((cur \cup {x}) \cup prev)
      BY <3>3, <3>4
    <3>6. y <= z /\ z <= (c + 1) + p /\ c <= calls /\ p <= max
      BY <1>3, <3>3, <3>4, <3>5
    <3>7. y <= 2 * max
      BY <3>6
    <3> QED BY <3>5, <3>7 DEF A
  <2> QED BY <2>1, <2>2
<1> QED
  BY <1>7, <1>8 DEF RateBound

-------------------------------------------------------------------------------
(***************************************************************************)
(* Adding up.  p is the billing period of each charge, f its amount.       *)
(***************************************************************************)
OfPeriod(p, R, q) == {k \in R : p[k] = q}

UnitState(p, f, R, q, units) ==
  /\ \A k \in R : p[k] <= q
  /\ SumFunctionOnSet(f, OfPeriod(p, R, q)) <= units

UnitBound(p, f, R, cap) ==
  \A i \in R : SumFunctionOnSet(f, OfPeriod(p, R, p[i])) <= cap

\* Without charges no units are used.
LEMMA UnitEmpty ==
  ASSUME NEW p, NEW f, NEW q \in Nat, NEW units \in Nat, NEW cap
  PROVE  UnitState(p, f, {}, q, units) /\ UnitBound(p, f, {}, cap)
<1>1. OfPeriod(p, {}, q) = {}
  BY DEF OfPeriod
<1>2. SumFunctionOnSet(f, {}) = 0
  BY SumEmpty
<1> QED
  BY <1>1, <1>2 DEF UnitState, UnitBound

\* Counting the units of a call that left no receipt.
LEMMA UnitCounted ==
  ASSUME NEW p, NEW f, NEW R, IsFiniteSet(R), \A k \in R : f[k] \in Int,
         NEW q, NEW units \in Int, NEW a \in Nat, UnitState(p, f, R, q, units)
  PROVE  UnitState(p, f, R, q, units + a)
<1>1. IsFiniteSet(OfPeriod(p, R, q)) /\ OfPeriod(p, R, q) \subseteq R
  BY FS_Subset DEF OfPeriod
<1>2. SumFunctionOnSet(f, OfPeriod(p, R, q)) \in Int
  BY <1>1, SumInt
<1> QED
  BY <1>2 DEF UnitState

\* A later period has no charges yet.
LEMMA UnitRestarts ==
  ASSUME NEW p, NEW f, NEW R, \A k \in R : p[k] \in Nat, NEW q \in Nat,
         NEW units, UnitState(p, f, R, q, units), NEW r \in Nat, r > q
  PROVE  UnitState(p, f, R, r, 0)
<1>1. \A k \in R : p[k] <= q /\ p[k] <= r
  BY DEF UnitState
<1>2. OfPeriod(p, R, r) = {}
  BY <1>1 DEF OfPeriod
<1>3. SumFunctionOnSet(f, {}) = 0
  BY SumEmpty
<1> QED
  BY <1>1, <1>2, <1>3 DEF UnitState

\* A charge x of `a` units in the current period, which they fit; pp and ff are
\* the periods and amounts with it.
Fits(p, f, R, q, units, cap, a, x, pp, ff) ==
  /\ IsFiniteSet(R) /\ x \notin R
  /\ \A k \in R : p[k] \in Nat /\ f[k] \in Int
  /\ q \in Nat /\ units \in Int /\ cap \in Int /\ a \in Int
  /\ UnitState(p, f, R, q, units) /\ UnitBound(p, f, R, cap)
  /\ units + a <= cap
  /\ pp[x] = q /\ ff[x] = a /\ \A k \in R : pp[k] = p[k] /\ ff[k] = f[k]

\* Such a charge is counted, and stays within the cap.
LEMMA UnitAdds ==
  ASSUME NEW p, NEW f, NEW R, NEW q, NEW units, NEW cap, NEW a, NEW x, NEW pp,
         NEW ff, Fits(p, f, R, q, units, cap, a, x, pp, ff)
  PROVE  /\ UnitState(pp, ff, R \cup {x}, q, units + a)
         /\ UnitBound(pp, ff, R \cup {x}, cap)
<1> SUFFICES ASSUME IsFiniteSet(R), x \notin R,
                    \A k \in R : p[k] \in Nat /\ f[k] \in Int,
                    q \in Nat, units \in Int, cap \in Int, a \in Int,
                    UnitState(p, f, R, q, units), UnitBound(p, f, R, cap),
                    units + a <= cap, pp[x] = q, ff[x] = a,
                    \A k \in R : pp[k] = p[k] /\ ff[k] = f[k]
             PROVE  /\ UnitState(pp, ff, R \cup {x}, q, units + a)
                    /\ UnitBound(pp, ff, R \cup {x}, cap)
  BY DEF Fits
<1> DEFINE S == R \cup {x}
<1>1. \A r : OfPeriod(p, R, r) \in SUBSET R /\ IsFiniteSet(OfPeriod(p, R, r))
  BY FS_Subset DEF OfPeriod
<1>2. ASSUME NEW r
      PROVE  /\ SumFunctionOnSet(ff, OfPeriod(p, R, r))
                  = SumFunctionOnSet(f, OfPeriod(p, R, r))
             /\ SumFunctionOnSet(f, OfPeriod(p, R, r)) \in Int
  <2>1. PICK T \in SUBSET R : T = OfPeriod(p, R, r) /\ IsFiniteSet(T)
    BY <1>1
  <2>2. SumFunctionOnSet(ff, T) = SumFunctionOnSet(f, T)
    BY <2>1, SumCongruent
  <2>3. SumFunctionOnSet(f, T) \in Int
    BY <2>1, SumInt
  <2> QED BY <2>1, <2>2, <2>3
<1>3. /\ OfPeriod(pp, S, q) = OfPeriod(p, R, q) \cup {x}
      /\ \A r : r # q => OfPeriod(pp, S, r) = OfPeriod(p, R, r)
  BY DEF OfPeriod
<1>4. SumFunctionOnSet(ff, OfPeriod(p, R, q) \cup {x})
        = a + SumFunctionOnSet(ff, OfPeriod(p, R, q))
  <2>1. PICK T \in SUBSET R : T = OfPeriod(p, R, q) /\ IsFiniteSet(T)
    BY <1>1
  <2>2. x \notin T /\ \A k \in T \cup {x} : ff[k] \in Int
    OBVIOUS
  <2>3. SumFunctionOnSet(ff, T \cup {x}) = ff[x] + SumFunctionOnSet(ff, T)
    BY <2>1, <2>2, SumAdd
  <2> QED BY <2>1, <2>3
<1>5. PICK y \in Int : y = SumFunctionOnSet(f, OfPeriod(p, R, q))
  BY <1>2
<1>6. y <= units /\ \A k \in R : p[k] <= q
  BY <1>5 DEF UnitState
<1>7. SumFunctionOnSet(ff, OfPeriod(pp, S, q)) = a + y
  BY <1>2, <1>3, <1>4, <1>5, Zenon
<1>8. a + y <= units + a /\ a + y <= cap
  BY <1>6
<1>9. UnitState(pp, ff, S, q, units + a)
  <2>1. \A k \in S : pp[k] <= q
    BY <1>6
  <2> HIDE DEF S
  <2> QED BY <1>7, <1>8, <2>1 DEF UnitState
<1>10. ASSUME NEW i \in S
       PROVE  SumFunctionOnSet(ff, OfPeriod(pp, S, pp[i])) <= cap
  <2>1. CASE pp[i] = q
    BY <1>7, <1>8, <2>1
  <2>2. CASE pp[i] # q
    <3>1. i \in R /\ pp[i] = p[i]
      BY <2>2
    <3>2. SumFunctionOnSet(f, OfPeriod(p, R, p[i])) <= cap
      BY <3>1 DEF UnitBound
    <3>3. OfPeriod(pp, S, pp[i]) = OfPeriod(p, R, p[i])
      BY <1>3, <2>2, <3>1, Zenon
    <3> QED BY <1>2, <3>2, <3>3, Zenon
  <2> QED BY <2>1, <2>2
<1> HIDE DEF S
<1>11. UnitBound(pp, ff, S, cap)
  BY <1>10, Zenon DEF UnitBound
<1> QED
  BY <1>9, <1>11 DEF S

-------------------------------------------------------------------------------
(***************************************************************************)
(* What the limiter knows of one subscription.                             *)
(***************************************************************************)
At(id) == [k \in Charges(id) |-> receipts[id][k].at]
AmountOf(id) == [k \in Charges(id) |-> receipts[id][k].amount]
PeriodAt(id) == [k \in Charges(id) |-> PeriodOf(subs[id], receipts[id][k].at)]

RateLimited(id) ==
  limits[id] # None /\ limits[id].max # None /\ limits[id].window > 0
UnitLimited(id) ==
  limits[id] # None /\ limits[id].cap_units # None /\ subs[id].plan = None

\* The limiter's clock: its stamps are in order and not ahead, and the last
\* call it counted moved money, unless it ended the subscription.
ClockOf(id) ==
  LET s == subs[id] u == usage[id] IN
  /\ s.start <= now /\ mark[id] <= Len(receipts[id])
  /\ \A k \in Charges(id) : s.start <= receipts[id][k].at
  /\ u # None =>
       /\ u.window_start <= u.last /\ u.last <= now /\ s.start <= u.last
       /\ u.units >= 0
       /\ s.plan = None => u.period <= PeriodOf(s, u.last)
       /\ s.status \notin Terminal =>
            \E k \in Charges(id) : receipts[id][k].at = u.last

RateOf(id) ==
  RateLimited(id) =>
    LET l == limits[id] u == usage[id] IN
    /\ RateBound(At(id), Recent(id), l.window, l.max)
    /\ u # None => RateState(At(id), Recent(id), u.window_start, u.calls,
                             l.window, l.max)

UnitOf(id) ==
  UnitLimited(id) =>
    LET l == limits[id] u == usage[id] IN
    /\ UnitBound(PeriodAt(id), AmountOf(id), Recent(id), l.cap_units)
    /\ u # None => UnitState(PeriodAt(id), AmountOf(id), Recent(id),
                             u.period, u.units)

Untouched(id) ==
  limits[id] = None /\ usage[id] = None /\ receipts[id] = << >> /\ mark[id] = 0

Metered(id) == ClockOf(id) /\ RateOf(id) /\ UnitOf(id)

LimiterInv ==
  \A id \in Ids : IF id \in DOMAIN subs THEN Metered(id) ELSE Untouched(id)

-------------------------------------------------------------------------------
\* A stored subscription has an id.
LEMMA KnownId ==
  ASSUME IType, NEW id \in DOMAIN subs
  PROVE  id \in Ids
<1>1. MAX_SUBSCRIPTION_ID \in Nat
  BY VaultAssumption DEF VaultAssumption
<1>2. DOMAIN subs = 0 .. (nextId - 1) /\ nextId \in 0 .. MAX_SUBSCRIPTION_ID
  BY DEF IType, TypeOK
<1> QED
  BY <1>1, <1>2 DEF Ids

\* Later is not an earlier period.
LEMMA PeriodGrows ==
  ASSUME NEW s \in Subscription, NEW t \in Nat, NEW v \in Nat,
         s.start <= t, t <= v
  PROVE  /\ PeriodOf(s, t) \in Nat /\ PeriodOf(s, v) \in Nat
         /\ PeriodOf(s, t) <= PeriodOf(s, v)
<1>1. PICK b \in Nat, i \in Nat \ {0} : b = s.start /\ i = s.interval
  BY DEF Subscription
<1>2. PICK x \in Nat, y \in Nat : x = t - b /\ y = v - b /\ x <= y
  BY <1>1
<1>3. PICK p \in Nat : p = x \div i /\ p * i <= x
  BY DivBounds
<1>4. p * i \in Nat /\ y >= p * i
  BY <1>2, <1>3, SMT
<1>5. p <= y \div i /\ y \div i \in Nat
  BY <1>4, DivReaches, DivBounds
<1>6. PeriodOf(s, t) = x \div i /\ PeriodOf(s, v) = y \div i
  BY <1>1, <1>2 DEF PeriodOf
<1> QED
  BY <1>3, <1>5, <1>6

\* The period a call is made in.
LEMMA PeriodNow ==
  ASSUME NEW s \in Subscription, now \in Nat, s.start <= now
  PROVE  PeriodIndex(s) = PeriodOf(s, now)
<1>1. s.start \in Nat
  BY DEF Subscription
<1> QED
  BY <1>1 DEF PeriodIndex, PeriodOf

\* Of a subscription that is not on a plan no step changes what a period is,
\* and none brings an ended one back.
Kept(s, t) ==
  /\ t.start = s.start /\ (t.plan = None <=> s.plan = None)
  /\ s.plan = None => t.interval = s.interval
  /\ s.status \in Terminal => t.status \in Terminal

\* Every step of the vault keeps these.
LEMMA SubKept ==
  ASSUME IType, EachSub, NEW id \in DOMAIN subs
  PROVE  subs[id] \in Subscription /\ Kept(subs[id], subs'[id])
<1>1. subs[id] \in Subscription /\ now \in Nat
  BY KnownType DEF IType
<1>2. CASE subs'[id] = subs[id]
  BY <1>1, <1>2 DEF Kept
<1>3. CASE SubStep(subs[id], subs'[id])
  <2>1. \/ SameTerms(subs[id], subs'[id])
        \/ Reterms(subs[id], subs'[id])
    BY <1>1, <1>3, SubStepFields DEF Unbilled, Bills
  <2>2. /\ subs'[id].start = subs[id].start
        /\ subs'[id].plan = None <=> subs[id].plan = None
        /\ subs[id].plan = None => subs'[id].interval = subs[id].interval
    BY <2>1 DEF SameTerms, Reterms
  <2>3. subs[id].status \in Terminal => subs'[id].status \in Terminal
    <3>1. \/ CanTransition(subs[id].status, subs'[id].status)
          \/ /\ subs'[id].status = Archived
             /\ CanTransition(subs[id].status, Expired)
      BY <1>1, <1>3, StepTransition
    <3> QED
      BY <3>1 DEF CanTransition, AllowedTransitions, Terminal, Active, Paused,
           Cancelled, InsufficientBalance, GracePeriod, Expired, Archived
  <2> QED BY <1>1, <2>2, <2>3 DEF Kept
<1> QED
  BY <1>2, <1>3 DEF EachSub

\* The meter of a subscription whose own limits, usage and receipts a step
\* leaves alone.
LEMMA MeterKept ==
  ASSUME MInv, now \in Nat, now' \in Nat, now' >= now,
         NEW id \in Ids, id \in DOMAIN subs, Metered(id),
         subs[id] \in Subscription, Kept(subs[id], subs'[id]),
         limits'[id] = limits[id], usage'[id] = usage[id],
         receipts'[id] = receipts[id], mark'[id] = mark[id]
  PROVE  Metered(id)'
<1>1. /\ Charges(id)' = Charges(id) /\ Recent(id)' = Recent(id)
      /\ At(id)' = At(id) /\ AmountOf(id)' = AmountOf(id)
  BY DEF Charges, Recent, At, AmountOf
<1>2. subs[id].plan = None =>
        \A t : PeriodOf(subs'[id], t) = PeriodOf(subs[id], t)
  BY DEF Kept, PeriodOf
<1>3. subs[id].plan = None => PeriodAt(id)' = PeriodAt(id)
  BY <1>1, <1>2 DEF PeriodAt, Charges
<1>4. subs[id].start \in Nat /\ (usage[id] # None => usage[id].last \in Nat)
  BY DEF Subscription, MInv, MeterType, UsageState
<1>5. ClockOf(id)'
  BY <1>1, <1>2, <1>4 DEF Metered, ClockOf, Kept
<1>6. RateOf(id)'
  BY <1>1, Zenon DEF Metered, RateOf, RateLimited
<1>7. UnitOf(id)'
  <2> SUFFICES ASSUME UnitLimited(id)' PROVE UnitOf(id)'
    BY Zenon DEF UnitOf
  <2>1. UnitLimited(id)
    BY DEF UnitLimited, Kept
  <2> QED
    BY <1>1, <1>3, <2>1, Zenon DEF Metered, UnitOf, UnitLimited
<1> QED
  BY <1>5, <1>6, <1>7 DEF Metered

\* What the limiter resets before it judges a call.
LEMMA JudgedFields ==
  ASSUME NEW l \in Limits, NEW u \in UsageState, NEW s, now \in Nat,
         PeriodIndex(s) \in Nat
  PROVE  LET w == Periodic(l, Windowed(l, u), s) IN
         /\ w \in UsageState
         /\ IF l.max # None /\ now >= u.window_start + l.window
            THEN w.window_start = now /\ w.calls = 0
            ELSE w.window_start = u.window_start /\ w.calls = u.calls
         /\ IF l.cap_units # None /\ PeriodIndex(s) > u.period
            THEN w.period = PeriodIndex(s) /\ w.units = 0
            ELSE w.period = u.period /\ w.units = u.units
<1> DEFINE x == Windowed(l, u)
           w == Periodic(l, x, s)
<1>1. /\ x \in UsageState /\ x.period = u.period /\ x.units = u.units
      /\ IF l.max # None /\ now >= u.window_start + l.window
         THEN x.window_start = now /\ x.calls = 0
         ELSE x.window_start = u.window_start /\ x.calls = u.calls
  BY DEF Windowed, UsageState
<1> HIDE DEF x
<1>2. PICK q \in Nat : q = PeriodIndex(s)
  OBVIOUS
<1>3. w = IF l.cap_units # None /\ q > x.period
          THEN [x EXCEPT !.period = q, !.units = 0] ELSE x
  BY <1>2 DEF Periodic
<1>4. /\ w \in UsageState /\ w.window_start = x.window_start /\ w.calls = x.calls
      /\ IF l.cap_units # None /\ q > x.period
         THEN w.period = q /\ w.units = 0
         ELSE w.period = x.period /\ w.units = x.units
  <2> HIDE DEF w
  <2>1. CASE l.cap_units # None /\ q > x.period
    <3>1. w = [x EXCEPT !.period = q, !.units = 0]
      BY <1>3, <2>1
    <3>2. PICK z \in Int : z = 0
      OBVIOUS
    <3>3. w = [x EXCEPT !.period = q, !.units = z]
      BY <3>1, <3>2
    <3>4. /\ w \in UsageState /\ w.window_start = x.window_start
          /\ w.calls = x.calls /\ w.period = q /\ w.units = z
      <4>1. x \in UsageState
        BY <1>1
      <4> QED BY <3>3, <4>1 DEF UsageState
    <3> QED BY <2>1, <3>2, <3>4
  <2>2. CASE ~(l.cap_units # None /\ q > x.period)
    <3>1. w = x
      BY <1>3, <2>2
    <3> QED BY <1>1, <2>2, <3>1
  <2> QED BY <2>1, <2>2
<1> HIDE DEF w
<1> QED
  BY <1>1, <1>2, <1>4 DEF w, x

\* What counting a call changes.
LEMMA CountedFields ==
  ASSUME NEW w \in UsageState, NEW a \in Int, now \in Nat
  PROVE  LET v == Counted(w, a) IN
         /\ v.last = now /\ v.window_start = w.window_start
         /\ v.calls = w.calls + 1 /\ v.period = w.period /\ v.units = w.units + a
  BY DEF Counted, UsageState

\* The charges of a subscription, as functions.
LEMMA ChargeFacts ==
  ASSUME MInv, TypeOK, NEW id \in Ids, id \in DOMAIN subs, ClockOf(id)
  PROVE  /\ Charges(id) = 1 .. Len(receipts[id]) /\ Len(receipts[id]) \in Nat
         /\ Recent(id) \subseteq Charges(id) /\ IsFiniteSet(Recent(id))
         /\ \A k \in Charges(id) :
              /\ At(id)[k] \in Nat /\ At(id)[k] <= now
              /\ AmountOf(id)[k] \in Int /\ PeriodAt(id)[k] \in Nat
<1>1. receipts[id] \in Seq(Receipt)
  BY DEF MInv, MeterType
<1>2. Charges(id) = 1 .. Len(receipts[id]) /\ Len(receipts[id]) \in Nat
  BY <1>1 DEF Charges
<1>3. Recent(id) \subseteq Charges(id) /\ IsFiniteSet(Recent(id))
  <2>1. IsFiniteSet(Charges(id))
    BY <1>2, FS_Interval
  <2> QED BY <2>1, FS_Subset DEF Recent
<1>4. ASSUME NEW k \in Charges(id)
      PROVE  /\ At(id)[k] \in Nat /\ At(id)[k] <= now
             /\ AmountOf(id)[k] \in Int /\ PeriodAt(id)[k] \in Nat
  <2>1. receipts[id][k] \in Receipt
    BY <1>1, <1>2
  <2>2. receipts[id][k].at \in Nat /\ receipts[id][k].amount \in Int
    BY <2>1 DEF Receipt
  <2>3. receipts[id][k].at <= now
    BY DEF MInv, LastCovers
  <2>4. PeriodOf(subs[id], receipts[id][k].at) \in Nat
    <3>1. subs[id] \in Subscription /\ subs[id].start <= receipts[id][k].at
      BY KnownType DEF ClockOf
    <3> QED BY <2>2, <3>1, PeriodGrows
  <2> QED BY <2>2, <2>3, <2>4 DEF At, AmountOf, PeriodAt
<1> QED
  BY <1>2, <1>3, <1>4

\* The state a call finds covers the charges made so far, stored or fresh.
LEMMA FoundCovers ==
  ASSUME MInv, TypeOK, NEW id \in Ids, id \in DOMAIN subs, Metered(id),
         limits[id] # None
  PROVE  LET u == Found(id) l == limits[id] s == subs[id] IN
         /\ u \in UsageState /\ u.window_start <= now /\ u.units >= 0
         /\ s.plan = None => u.period <= PeriodIndex(s)
         /\ RateLimited(id) =>
              RateState(At(id), Recent(id), u.window_start, u.calls,
                        l.window, l.max)
         /\ UnitLimited(id) =>
              UnitState(PeriodAt(id), AmountOf(id), Recent(id),
                        u.period, u.units)
<1> DEFINE u == Found(id)
           l == limits[id]
           s == subs[id]
<1>1. /\ s \in Subscription /\ now \in Nat /\ l \in Limits
      /\ ClockOf(id) /\ RateOf(id) /\ UnitOf(id) /\ s.start <= now
  BY KnownType, UsageAssumption DEF MInv, MeterType, Metered, ClockOf
<1>2. u \in UsageState
  BY JudgedType DEF MInv
<1>3. PeriodIndex(s) \in Nat /\ PeriodIndex(s) = PeriodOf(s, now)
  BY <1>1, PeriodIndexNat, PeriodNow
<1>4. CASE usage[id] = None
  <2>1. u = FreshUsage(s)
    BY <1>4 DEF Found
  <2>2. /\ u.window_start = now /\ u.calls = 0 /\ u.units = 0
        /\ u.period = PeriodIndex(s)
    BY <2>1 DEF FreshUsage
  <2>3. Recent(id) = {}
    BY <1>4 DEF MInv, LastCovers
  <2>4. RateLimited(id) => l.window \in Nat /\ l.max \in Nat
    BY <1>1 DEF RateLimited, Limits
  <2>5. RateLimited(id) =>
          RateState(At(id), {}, u.window_start, u.calls, l.window, l.max)
    BY <1>1, <2>2, <2>4, RateEmpty
  <2>6. UnitState(PeriodAt(id), AmountOf(id), {}, u.period, u.units)
    BY <1>3, <2>2, UnitEmpty
  <2> HIDE DEF u
  <2> QED BY <1>1, <1>2, <1>3, <2>2, <2>3, <2>5, <2>6 DEF u
<1>5. CASE usage[id] # None
  <2>1. u = usage[id]
    BY <1>5 DEF Found
  <2>2. /\ u.window_start <= u.last /\ u.last <= now /\ s.start <= u.last
        /\ u.units >= 0 /\ (s.plan = None => u.period <= PeriodOf(s, u.last))
    BY <1>1, <1>5, <2>1 DEF ClockOf
  <2> HIDE DEF u
  <2>3. u.window_start \in Nat /\ u.last \in Nat /\ u.period \in Nat
    BY <1>2 DEF UsageState
  <2>4. PeriodOf(s, u.last) <= PeriodOf(s, now) /\ PeriodOf(s, u.last) \in Nat
    BY <1>1, <2>2, <2>3, PeriodGrows
  <2>5. s.plan = None => u.period <= PeriodIndex(s)
    BY <1>3, <2>2, <2>3, <2>4
  <2>6. u.window_start <= now
    BY <1>1, <2>2, <2>3
  <2>7. /\ RateLimited(id) =>
              RateState(At(id), Recent(id), u.window_start, u.calls,
                        l.window, l.max)
        /\ UnitLimited(id) =>
              UnitState(PeriodAt(id), AmountOf(id), Recent(id),
                        u.period, u.units)
    BY <1>1, <1>5, <2>1, Zenon DEF RateOf, UnitOf
  <2> QED BY <1>2, <2>2, <2>5, <2>6, <2>7 DEF u
<1> QED
  BY <1>4, <1>5

\* So does the state that judges it, with its window and its period current.
LEMMA JudgedCovers ==
  ASSUME MInv, TypeOK, NEW id \in Ids, id \in DOMAIN subs, Metered(id),
         limits[id] # None
  PROVE  LET w == Judged(id) l == limits[id] s == subs[id] IN
         /\ w \in UsageState /\ w.window_start <= now /\ w.units >= 0
         /\ s.plan = None => w.period <= PeriodIndex(s)
         /\ RateLimited(id) =>
              /\ now < w.window_start + l.window
              /\ RateState(At(id), Recent(id), w.window_start, w.calls,
                           l.window, l.max)
         /\ UnitLimited(id) =>
              /\ w.period = PeriodIndex(s)
              /\ UnitState(PeriodAt(id), AmountOf(id), Recent(id),
                           w.period, w.units)
<1> DEFINE u == Found(id)
           w == Judged(id)
           l == limits[id]
           s == subs[id]
<1>1. /\ s \in Subscription /\ now \in Nat /\ l \in Limits /\ ClockOf(id)
  BY KnownType, UsageAssumption DEF MInv, MeterType, Metered
<1>2. PICK q \in Nat : q = PeriodIndex(s)
  BY <1>1, PeriodIndexNat
<1>3. /\ u \in UsageState /\ u.window_start <= now /\ u.units >= 0
      /\ s.plan = None => u.period <= q
      /\ RateLimited(id) =>
           RateState(At(id), Recent(id), u.window_start, u.calls,
                     l.window, l.max)
      /\ UnitLimited(id) =>
           UnitState(PeriodAt(id), AmountOf(id), Recent(id), u.period, u.units)
  BY <1>2, FoundCovers
<1>4. /\ w \in UsageState
      /\ IF l.max # None /\ now >= u.window_start + l.window
         THEN w.window_start = now /\ w.calls = 0
         ELSE w.window_start = u.window_start /\ w.calls = u.calls
      /\ IF l.cap_units # None /\ q > u.period
         THEN w.period = q /\ w.units = 0
         ELSE w.period = u.period /\ w.units = u.units
  <2> HIDE DEF u, l, s
  <2>1. PeriodIndex(s) \in Nat
    BY <1>2
  <2> QED BY <1>1, <1>2, <1>3, <2>1, JudgedFields DEF Judged, u, l, s
<1>5. /\ IsFiniteSet(Recent(id)) /\ \A k \in Recent(id) : At(id)[k] \in Nat
      /\ \A k \in Recent(id) : PeriodAt(id)[k] \in Nat
  BY <1>1, ChargeFacts
<1> HIDE DEF u, w, l, s
<1>6. /\ u.window_start \in Nat /\ u.calls \in Nat /\ u.period \in Nat
      /\ u.units \in Int
  BY <1>3 DEF UsageState
<1>7. w.window_start <= now /\ w.units >= 0 /\ (s.plan = None => w.period <= q)
  BY <1>1, <1>3, <1>4, <1>6
<1>8. ASSUME RateLimited(id)
      PROVE  /\ now < w.window_start + l.window
             /\ RateState(At(id), Recent(id), w.window_start, w.calls,
                          l.window, l.max)
  <2>1. l.window \in Nat \ {0} /\ l.max \in Nat /\ l.max # None
    BY <1>1, <1>8 DEF RateLimited, Limits, l
  <2>2. CASE now >= u.window_start + l.window
    <3>1. w.window_start = now /\ w.calls = 0
      BY <1>4, <2>1, <2>2
    <3>2. RateState(At(id), Recent(id), now, 0, l.window, l.max)
      BY <1>1, <1>3, <1>5, <1>6, <1>8, <2>1, <2>2, RateRestarts
    <3> QED BY <1>1, <2>1, <3>1, <3>2
  <2>3. CASE ~(now >= u.window_start + l.window)
    BY <1>1, <1>3, <1>4, <1>6, <1>8, <2>1, <2>3
  <2> QED BY <2>2, <2>3
<1>9. ASSUME UnitLimited(id)
      PROVE  /\ w.period = q
             /\ UnitState(PeriodAt(id), AmountOf(id), Recent(id),
                          w.period, w.units)
  <2>1. l.cap_units # None /\ s.plan = None
    BY <1>9 DEF UnitLimited, l, s
  <2>2. CASE q > u.period
    <3>1. w.period = q /\ w.units = 0
      BY <1>4, <2>1, <2>2
    <3>2. UnitState(PeriodAt(id), AmountOf(id), Recent(id), q, 0)
      BY <1>3, <1>5, <1>6, <1>9, <2>2, UnitRestarts
    <3> QED BY <3>1, <3>2
  <2>3. CASE ~(q > u.period)
    <3>1. w.period = u.period /\ w.units = u.units /\ u.period = q
      BY <1>3, <1>4, <1>6, <2>1, <2>3
    <3> QED BY <1>3, <1>9, <3>1
  <2> QED BY <2>2, <2>3
<1> QED
  BY <1>2, <1>4, <1>7, <1>8, <1>9 DEF w, l, s

-------------------------------------------------------------------------------
\* A usage charge keeps the meter, whether it moves money or ends the
\* subscription for going over its lifetime cap.
LEMMA ChargeMeters ==
  ASSUME MInv, MInv', TypeOK, NEW id \in Ids, NEW a \in Values,
         NEW r \in References, ChargeUsageWithReference(id, a, r),
         Metered(id), Kept(subs[id], subs'[id])
  PROVE  Metered(id)'
<1> DEFINE n == Len(receipts[id])
           l == limits[id]
           s == subs[id]
           w == Judged(id)
           rec == [ref |-> r, amount |-> a, at |-> now]
<1>1. /\ id \in DOMAIN subs /\ a \in Nat \ {0} /\ now' = now /\ now \in Nat
      /\ limits' = limits /\ mark' = mark /\ limits'[id] = limits[id]
      /\ s \in Subscription /\ ClockOf(id) /\ s.start <= now
      /\ s.start \in Nat /\ mark[id] \in Nat /\ mark[id] <= n
  <2>1. /\ id \in DOMAIN subs /\ limits' = limits /\ mark' = mark
        /\ now' = now /\ a > 0
    BY DEF ChargeUsageWithReference, ChargeUsage, Known
  <2>2. s \in Subscription /\ now \in Nat
    BY <2>1, KnownType
  <2>3. a \in Int
    BY VaultAssumption DEF VaultAssumption
  <2> QED BY <2>1, <2>2, <2>3
    DEF Metered, ClockOf, Subscription, MInv, MeterType
<1>2. /\ l = None => usage'[id] = usage[id]
      /\ l # None => usage'[id] = Counted(w, a)
  BY DEF ChargeUsageWithReference, MInv, MeterType
<1>3. /\ Charges(id) = 1 .. n /\ n \in Nat
      /\ Recent(id) \subseteq Charges(id) /\ IsFiniteSet(Recent(id))
      /\ \A k \in Charges(id) :
           /\ At(id)[k] \in Nat /\ At(id)[k] <= now
           /\ AmountOf(id)[k] \in Int /\ PeriodAt(id)[k] \in Nat
  BY <1>1, ChargeFacts
<1>4. l # None =>
        /\ w \in UsageState /\ w.window_start <= now /\ w.units >= 0
        /\ s.plan = None => w.period <= PeriodIndex(s)
        /\ RateLimited(id) =>
             /\ now < w.window_start + l.window
             /\ RateState(At(id), Recent(id), w.window_start, w.calls,
                          l.window, l.max)
        /\ UnitLimited(id) =>
             /\ w.period = PeriodIndex(s)
             /\ UnitState(PeriodAt(id), AmountOf(id), Recent(id),
                          w.period, w.units)
  BY <1>1, JudgedCovers
<1>5. PeriodIndex(s) = PeriodOf(s, now) /\ PeriodIndex(s) \in Nat
  BY <1>1, PeriodNow, PeriodIndexNat
<1>6. /\ subs'[id].start = s.start /\ (subs'[id].plan = None <=> s.plan = None)
      /\ s.plan = None => \A t : PeriodOf(subs'[id], t) = PeriodOf(s, t)
  BY DEF Kept, PeriodOf
<1>7. /\ RateLimited(id)' <=> RateLimited(id)
      /\ UnitLimited(id)' <=> UnitLimited(id)
  BY <1>1, <1>6 DEF RateLimited, UnitLimited
<1>8. l # None =>
        /\ RateLimited(id) => w.calls < l.max
        /\ UnitLimited(id) => w.units + a <= l.cap_units
  BY DEF ChargeUsageWithReference, Admitted, RateOk, UnitsOk, RateLimited,
         UnitLimited
<1>9. /\ RateLimited(id) =>
           /\ l # None /\ l.window \in Nat \ {0} /\ l.max \in Nat
           /\ RateBound(At(id), Recent(id), l.window, l.max)
      /\ UnitLimited(id) =>
           /\ l # None /\ l.cap_units \in Int /\ s.plan = None
           /\ UnitBound(PeriodAt(id), AmountOf(id), Recent(id), l.cap_units)
  <2>1. l # None => l \in Limits
    BY UsageAssumption DEF MInv, MeterType
  <2> QED
    BY <2>1 DEF RateLimited, UnitLimited, Limits, Metered, RateOf, UnitOf
<1> DEFINE v == usage'[id]
<1> HIDE DEF n, l, s, w, v
<1>10. l # None =>
         /\ v.last = now /\ v.window_start = w.window_start
         /\ v.calls = w.calls + 1 /\ v.period = w.period /\ v.units = w.units + a
         /\ w.window_start \in Nat /\ w.calls \in Nat /\ w.period \in Nat
         /\ w.units \in Int
  <2> SUFFICES ASSUME l # None
               PROVE  /\ v.last = now /\ v.window_start = w.window_start
                      /\ v.calls = w.calls + 1 /\ v.period = w.period
                      /\ v.units = w.units + a
                      /\ w.window_start \in Nat /\ w.calls \in Nat
                      /\ w.period \in Nat /\ w.units \in Int
    OBVIOUS
  <2>1. w \in UsageState /\ a \in Int
    BY <1>1, <1>4
  <2>2. v = Counted(w, a)
    BY <1>2 DEF v
  <2>3. /\ w.window_start \in Nat /\ w.calls \in Nat
        /\ w.period \in Nat /\ w.units \in Int
    BY <2>1 DEF UsageState
  <2> QED BY <1>1, <2>1, <2>2, <2>3, CountedFields
<1>11. CASE UNCHANGED <<refs, receipts>>
  <2>1. subs'[id].status \in Terminal
    <3>1. ~WithinCap(s, a)
      <4> SUFFICES ASSUME WithinCap(s, a) PROVE FALSE
        OBVIOUS
      <4>1. receipts' = [receipts EXCEPT ![id] = Append(@, rec)]
        BY DEF ChargeUsageWithReference, s
      <4>2. receipts[id] \in Seq(Receipt) /\ receipts'[id] = Append(receipts[id], rec)
        BY <4>1 DEF MInv, MeterType
      <4>3. Len(receipts'[id]) = Len(receipts[id]) + 1
        BY <4>2
      <4> QED BY <1>3, <1>11, <4>3 DEF n
    <3>2. subs' = [subs EXCEPT ![id] = [s EXCEPT !.status = Cancelled]]
      BY <3>1 DEF ChargeUsageWithReference, ChargeUsage, SetSub, s
    <3>3. subs'[id].status = Cancelled
      BY <1>1, <3>2 DEF Subscription
    <3> QED BY <3>3 DEF Terminal
  <2>2. /\ Charges(id)' = Charges(id) /\ Recent(id)' = Recent(id)
        /\ At(id)' = At(id) /\ AmountOf(id)' = AmountOf(id)
        /\ receipts'[id] = receipts[id]
        /\ UnitLimited(id) => PeriodAt(id)' = PeriodAt(id)
    BY <1>1, <1>6, <1>9, <1>11 DEF Charges, Recent, At, AmountOf, PeriodAt, s
  <2>3. ClockOf(id)'
    <3>1. CASE l = None
      BY <1>1, <1>2, <1>6, <2>1, <2>2, <3>1 DEF ClockOf, s, n
    <3>2. CASE l # None
      <4>1. v.window_start <= v.last /\ v.last <= now /\ s.start <= v.last
            /\ v.units >= 0 /\ (s.plan = None => v.period <= PeriodOf(s, v.last))
        BY <1>1, <1>4, <1>5, <1>10, <3>2
      <4> QED BY <1>1, <1>6, <2>1, <2>2, <4>1 DEF ClockOf, v, s, n
    <3> QED BY <3>1, <3>2
  <2>4. RateOf(id)'
    <3> SUFFICES ASSUME RateLimited(id) PROVE RateOf(id)'
      BY <1>7, Zenon DEF RateOf
    <3>1. RateState(At(id), Recent(id), w.window_start, w.calls + 1,
                    l.window, l.max)
      BY <1>3, <1>4, <1>9, <1>10, RateCounted
    <3>2. RateState(At(id), Recent(id), v.window_start, v.calls, l.window, l.max)
      BY <1>9, <1>10, <3>1
    <3> QED
      BY <1>1, <1>9, <2>2, <3>2, Zenon DEF RateOf, v, l
  <2>5. UnitOf(id)'
    <3> SUFFICES ASSUME UnitLimited(id) PROVE UnitOf(id)'
      BY <1>7, Zenon DEF UnitOf
    <3>1. UnitState(PeriodAt(id), AmountOf(id), Recent(id), w.period, w.units + a)
      BY <1>1, <1>3, <1>4, <1>9, <1>10, UnitCounted
    <3>2. UnitState(PeriodAt(id), AmountOf(id), Recent(id), v.period, v.units)
      BY <1>9, <1>10, <3>1
    <3> QED
      BY <1>1, <1>9, <2>2, <3>2, Zenon DEF UnitOf, v, l
  <2> QED BY <2>3, <2>4, <2>5 DEF Metered
<1>12. CASE receipts' = [receipts EXCEPT ![id] = Append(@, rec)]
  <2> DEFINE x == n + 1
  <2>1. receipts[id] \in Seq(Receipt) /\ receipts'[id] = Append(receipts[id], rec)
    BY <1>12 DEF MInv, MeterType
  <2>2. /\ DOMAIN receipts'[id] = 1 .. x /\ Len(receipts'[id]) = x
        /\ receipts'[id][x] = rec
        /\ \A k \in 1 .. n : receipts'[id][k] = receipts[id][k]
    BY <2>1 DEF n
  <2>3. /\ Charges(id)' = Charges(id) \cup {x} /\ x \notin Charges(id)
        /\ Recent(id)' = Recent(id) \cup {x} /\ x \notin Recent(id)
        /\ x \in Charges(id)'
    BY <1>1, <1>3, <2>2 DEF Charges, Recent, n
  <2>4. rec.at = now /\ rec.amount = a
    OBVIOUS
  <2>5. /\ At(id)'[x] = now /\ AmountOf(id)'[x] = a
        /\ \A k \in Recent(id) : At(id)'[k] = At(id)[k]
                                 /\ AmountOf(id)'[k] = AmountOf(id)[k]
    <3>1. \A k \in Charges(id) : k \in Charges(id)' /\ receipts'[id][k] = receipts[id][k]
      BY <1>3, <2>2, <2>3
    <3> HIDE DEF x, rec
    <3> QED BY <1>3, <2>2, <2>3, <2>4, <3>1 DEF At, AmountOf
  <2>6. UnitLimited(id) =>
          /\ PeriodAt(id)'[x] = PeriodIndex(s)
          /\ \A k \in Recent(id) : PeriodAt(id)'[k] = PeriodAt(id)[k]
    <3> SUFFICES ASSUME UnitLimited(id)
                 PROVE  /\ PeriodAt(id)'[x] = PeriodIndex(s)
                        /\ \A k \in Recent(id) : PeriodAt(id)'[k] = PeriodAt(id)[k]
      OBVIOUS
    <3>1. \A k \in Charges(id) : k \in Charges(id)' /\ receipts'[id][k] = receipts[id][k]
      BY <1>3, <2>2, <2>3
    <3>2. \A t : PeriodOf(subs'[id], t) = PeriodOf(subs[id], t)
      BY <1>6, <1>9 DEF s
    <3> HIDE DEF x, rec
    <3> QED BY <1>3, <1>5, <2>2, <2>3, <2>4, <3>1, <3>2 DEF PeriodAt, s
  <2> HIDE DEF x
  <2>7. ClockOf(id)'
    <3>1. mark'[id] <= Len(receipts'[id])
      BY <1>1, <1>3, <2>2 DEF x
    <3>2. \A k \in Charges(id)' : s.start <= receipts'[id][k].at
      <4>1. \A k \in Charges(id) : s.start <= receipts[id][k].at
        BY <1>1 DEF ClockOf, s
      <4> HIDE DEF rec
      <4> QED BY <1>1, <1>3, <2>2, <2>3, <2>4, <4>1
    <3>3. CASE l = None
      <4>1. ASSUME NEW k \in Charges(id)
            PROVE  k \in Charges(id)' /\ receipts'[id][k].at = receipts[id][k].at
        BY <1>3, <2>2, <2>3
      <4>2. v = usage[id]
        BY <1>2, <3>3 DEF v
      <4>3. v # None =>
              /\ v.window_start <= v.last /\ v.last <= now /\ s.start <= v.last
              /\ v.units >= 0 /\ (s.plan = None => v.period <= PeriodOf(s, v.last))
              /\ s.status \notin Terminal =>
                   \E k \in Charges(id) : receipts[id][k].at = v.last
        BY <1>1, <4>2 DEF ClockOf, s
      <4>4. v # None /\ subs'[id].status \notin Terminal =>
              \E k \in Charges(id)' : receipts'[id][k].at = v.last
        BY <4>1, <4>3 DEF Kept, s
      <4> QED
        BY <1>1, <1>6, <3>1, <3>2, <4>3, <4>4 DEF ClockOf, v
    <3>4. CASE l # None
      <4>1. v.window_start <= v.last /\ v.last <= now /\ s.start <= v.last
            /\ v.units >= 0 /\ (s.plan = None => v.period <= PeriodOf(s, v.last))
        BY <1>1, <1>4, <1>5, <1>10, <3>4
      <4>2. \E k \in Charges(id)' : receipts'[id][k].at = v.last
        BY <1>10, <2>2, <2>3, <2>4, <3>4
      <4> QED
        BY <1>1, <1>6, <3>1, <3>2, <4>1, <4>2 DEF ClockOf, v
    <3> QED BY <3>3, <3>4
  <2>8. RateOf(id)'
    <3> SUFFICES ASSUME RateLimited(id) PROVE RateOf(id)'
      BY <1>7, Zenon DEF RateOf
    <3>1. /\ RateState(At(id)', Recent(id) \cup {x}, w.window_start,
                       w.calls + 1, l.window, l.max)
          /\ RateBound(At(id)', Recent(id) \cup {x}, l.window, l.max)
      <4>1. \A k \in Recent(id) : At(id)[k] \in Nat /\ At(id)[k] <= now
        BY <1>3
      <4>2. PICK f, g : f = At(id) /\ g = At(id)'
        OBVIOUS
      <4>3. PICK R : R = Recent(id)
        OBVIOUS
      <4>4. PICK ws \in Nat, calls \in Nat, span \in Nat \ {0}, max \in Nat,
                 t \in Nat :
              /\ ws = w.window_start /\ calls = w.calls /\ span = l.window
              /\ max = l.max /\ t = now
        BY <1>1, <1>9, <1>10
      <4>5. /\ RateState(f, R, ws, calls, span, max) /\ RateBound(f, R, span, max)
            /\ IsFiniteSet(R)
        BY <1>3, <1>4, <1>9, <4>2, <4>3, <4>4
      <4>6. ws <= t /\ t < ws + span /\ calls < max
        BY <1>4, <1>8, <1>9, <4>4
      <4>7. /\ \A k \in R : f[k] \in Nat /\ f[k] <= t /\ g[k] = f[k]
            /\ g[x] = t /\ x \notin R
        BY <2>3, <2>5, <4>1, <4>2, <4>3, <4>4
      <4>8. /\ RateState(g, R \cup {x}, ws, calls + 1, span, max)
            /\ RateBound(g, R \cup {x}, span, max)
        BY <4>5, <4>6, <4>7, RateAdds, Zenon
      <4> QED BY <4>2, <4>3, <4>4, <4>8
    <3>2. RateState(At(id)', Recent(id)', v.window_start, v.calls, l.window, l.max)
          /\ RateBound(At(id)', Recent(id)', l.window, l.max)
      BY <1>9, <1>10, <2>3, <3>1, Zenon
    <3> QED
      BY <1>1, <3>2, Zenon DEF RateOf, v, l
  <2>9. UnitOf(id)'
    <3> SUFFICES ASSUME UnitLimited(id) PROVE UnitOf(id)'
      BY <1>7, Zenon DEF UnitOf
    <3>1. PICK p, f, pp, ff : p = PeriodAt(id) /\ f = AmountOf(id)
                              /\ pp = PeriodAt(id)' /\ ff = AmountOf(id)'
      OBVIOUS
    <3>2. \A k \in Recent(id) : p[k] \in Nat /\ f[k] \in Int
      BY <1>3, <3>1
    <3>3. /\ UnitState(p, f, Recent(id), w.period, w.units)
          /\ UnitBound(p, f, Recent(id), l.cap_units)
          /\ pp[x] = w.period /\ ff[x] = a
          /\ \A k \in Recent(id) : pp[k] = p[k] /\ ff[k] = f[k]
      BY <1>4, <1>9, <2>5, <2>6, <3>1
    <3>4. /\ UnitState(pp, ff, Recent(id) \cup {x}, w.period, w.units + a)
          /\ UnitBound(pp, ff, Recent(id) \cup {x}, l.cap_units)
      <4>1. /\ w.period \in Nat /\ w.units \in Int /\ l.cap_units \in Int /\ a \in Int
            /\ w.units + a <= l.cap_units
        BY <1>1, <1>8, <1>9, <1>10
      <4>2. IsFiniteSet(Recent(id)) /\ x \notin Recent(id)
        BY <1>3, <2>3
      <4>3. Fits(p, f, Recent(id), w.period, w.units, l.cap_units, a, x, pp, ff)
        BY <3>2, <3>3, <4>1, <4>2, Zenon DEF Fits
      <4> QED BY <4>3, UnitAdds, Zenon
    <3>5. /\ UnitState(pp, ff, Recent(id)', v.period, v.units)
          /\ UnitBound(pp, ff, Recent(id)', l.cap_units)
      BY <1>9, <1>10, <2>3, <3>4, Zenon
    <3> QED
      BY <1>1, <3>1, <3>5, Zenon DEF UnitOf, v, l
  <2> QED BY <2>7, <2>8, <2>9 DEF Metered
<1> QED
  BY <1>11, <1>12 DEF ChargeUsageWithReference

\* New limits judge nothing that was charged before them.
LEMMA ConfigureMeters ==
  ASSUME MInv, TypeOK, NEW id \in Ids, NEW l \in LimitChoices,
         ConfigureUsageLimits(id, l), Metered(id)
  PROVE  Metered(id)'
<1>1. /\ limits' = [limits EXCEPT ![id] = l]
      /\ mark' = [mark EXCEPT ![id] = Len(receipts[id])]
      /\ now' = now /\ usage' = usage /\ receipts' = receipts /\ subs' = subs
  BY DEF ConfigureUsageLimits, vars
<1>2. limits'[id] = l /\ l \in Limits
  BY <1>1, UsageAssumption DEF MInv, MeterType
<1>3. receipts[id] \in Seq(Receipt) /\ Len(receipts[id]) \in Nat
  BY DEF MInv, MeterType
<1>4. mark'[id] = Len(receipts[id])
  BY <1>1 DEF MInv, MeterType
<1>5. Charges(id)' = Charges(id) /\ Charges(id) = 1 .. Len(receipts[id])
  BY <1>1, <1>3 DEF Charges
<1>6. Recent(id)' = {}
  BY <1>3, <1>4, <1>5 DEF Recent
<1>7. ClockOf(id)'
  BY <1>1, <1>3, <1>4, <1>5 DEF Metered, ClockOf
<1>8. PICK u : u = usage[id] /\ (u # None => u \in UsageState /\ u.units >= 0)
  BY DEF MInv, MeterType, Metered, ClockOf
<1>9. u # None => /\ u.window_start \in Nat /\ u.calls \in Nat
                  /\ u.period \in Nat /\ u.units \in Nat
  BY <1>8 DEF UsageState
<1>10. RateOf(id)'
  <2> SUFFICES ASSUME RateLimited(id)' PROVE RateOf(id)'
    BY Zenon DEF RateOf
  <2>1. l.window \in Nat /\ l.max \in Nat
    BY <1>2 DEF RateLimited, Limits
  <2>2. PICK f : f = At(id)'
    OBVIOUS
  <2>3. /\ RateBound(f, {}, l.window, l.max)
        /\ u # None => RateState(f, {}, u.window_start, u.calls, l.window, l.max)
    <3>1. RateBound(f, {}, l.window, l.max)
      BY DEF RateBound
    <3> QED BY <1>9, <2>1, <3>1, RateEmpty
  <2> QED BY <1>1, <1>2, <1>6, <1>8, <2>2, <2>3, Zenon DEF RateOf
<1>11. UnitOf(id)'
  <2>1. PICK p, f : p = PeriodAt(id)' /\ f = AmountOf(id)'
    OBVIOUS
  <2>2. UnitBound(p, f, {}, l.cap_units)
    BY DEF UnitBound
  <2>3. u # None => UnitState(p, f, {}, u.period, u.units)
    BY <1>9, UnitEmpty
  <2> QED BY <1>1, <1>2, <1>6, <1>8, <2>1, <2>2, <2>3, Zenon DEF UnitOf
<1> QED
  BY <1>7, <1>10, <1>11 DEF Metered

\* A new subscription has an empty meter.
LEMMA FreshMeters ==
  ASSUME NEW id \in Ids, NEW s, s = subs'[id], Fresh(s), now \in Nat,
         now' \in Nat, now' >= now,
         limits'[id] = None, usage'[id] = None, receipts'[id] = << >>,
         mark'[id] = 0
  PROVE  Metered(id)'
<1>1. s.start <= now'
  BY DEF Fresh
<1>2. Charges(id)' = {} /\ Len(receipts'[id]) = 0
  BY DEF Charges
<1>3. ClockOf(id)'
  BY <1>1, <1>2 DEF ClockOf
<1>4. RateOf(id)' /\ UnitOf(id)'
  BY DEF RateOf, UnitOf, RateLimited, UnitLimited
<1> QED
  BY <1>3, <1>4 DEF Metered

\* Before the first subscription every meter is untouched.
LEMMA LimiterInit == MInit => LimiterInv
<1> SUFFICES ASSUME MInit PROVE LimiterInv
  OBVIOUS
<1>1. DOMAIN subs = {}
  BY DEF MInit, Init
<1> QED
  BY <1>1 DEF MInit, LimiterInv, Untouched

\* Every step keeps the meters: the one it charges or configures by
\* ChargeMeters and ConfigureMeters, the others by MeterKept.
LEMMA LimiterStep ==
  ASSUME LimiterInv, MInv, MInv', IType, IType', [MNext]_meteredVars
  PROVE  LimiterInv'
<1>1. TypeOK /\ now \in Nat
  BY DEF IType, TypeOK
<1>2. EachSub /\ now' \in Nat /\ now' >= now
  BY MeterStepIsVaultStep, EachSubStep DEF EachSub
<1>3. \A id \in DOMAIN subs :
        /\ id \in DOMAIN subs' /\ subs[id] \in Subscription
        /\ Kept(subs[id], subs'[id])
  BY <1>2, SubKept DEF EachSub
<1>4. \A id \in DOMAIN subs' : id \notin DOMAIN subs => Fresh(subs'[id])
  BY <1>2 DEF EachSub
\* A subscription whose own meter the step leaves alone.
<1>5. ASSUME NEW id \in Ids,
             limits'[id] = limits[id], usage'[id] = usage[id],
             receipts'[id] = receipts[id], mark'[id] = mark[id]
      PROVE  IF id \in DOMAIN subs' THEN Metered(id)' ELSE Untouched(id)'
  <2>1. CASE id \in DOMAIN subs
    <3>1. Metered(id)
      BY <2>1 DEF LimiterInv
    <3>2. Metered(id)'
      BY <1>1, <1>2, <1>3, <1>5, <2>1, <3>1, MeterKept
    <3> QED BY <1>3, <2>1, <3>2
  <2>2. CASE id \notin DOMAIN subs
    <3>1. Untouched(id)
      BY <2>2 DEF LimiterInv
    <3>2. CASE id \in DOMAIN subs'
      <4>1. Fresh(subs'[id])
        BY <1>4, <2>2, <3>2
      <4>2. Metered(id)'
        BY <1>1, <1>2, <1>5, <3>1, <4>1, FreshMeters DEF Untouched
      <4> QED BY <3>2, <4>2
    <3>3. CASE id \notin DOMAIN subs'
      BY <1>5, <3>1, <3>3 DEF Untouched
    <3> QED BY <3>2, <3>3
  <2> QED BY <2>1, <2>2
<1>6. ASSUME NEW id \in Ids, NEW a \in Values, NEW r \in References,
             ChargeUsageWithReference(id, a, r)
      PROVE  LimiterInv'
  <2>1. id \in DOMAIN subs
    BY <1>6 DEF ChargeUsageWithReference, Known
  <2>2. Metered(id)' /\ id \in DOMAIN subs'
    <3>1. Metered(id)
      BY <2>1 DEF LimiterInv
    <3> QED BY <1>1, <1>3, <1>6, <2>1, <3>1, ChargeMeters
  <2>3. ASSUME NEW j \in Ids, j # id
        PROVE  /\ limits'[j] = limits[j] /\ usage'[j] = usage[j]
               /\ receipts'[j] = receipts[j] /\ mark'[j] = mark[j]
    <3>1. /\ limits' = limits /\ mark' = mark
          /\ usage' = [usage EXCEPT ![id] =
                 IF limits[id] = None THEN @ ELSE Counted(Judged(id), a)]
          /\ \/ receipts' = receipts
             \/ receipts' = [receipts EXCEPT ![id] =
                            Append(@, [ref |-> r, amount |-> a, at |-> now])]
      BY <1>6 DEF ChargeUsageWithReference
    <3>2. receipts'[j] = receipts[j]
      BY <2>3, <3>1 DEF MInv, MeterType
    <3>3. usage'[j] = usage[j]
      BY <2>3, <3>1 DEF MInv, MeterType
    <3> QED BY <3>1, <3>2, <3>3
  <2> QED BY <1>5, <2>2, <2>3, Zenon DEF LimiterInv
<1>7. ASSUME NEW id \in Ids, NEW l \in LimitChoices, ConfigureUsageLimits(id, l)
      PROVE  LimiterInv'
  <2>1. /\ id \in DOMAIN subs /\ subs' = subs
        /\ limits' = [limits EXCEPT ![id] = l]
        /\ mark' = [mark EXCEPT ![id] = Len(receipts[id])]
        /\ usage' = usage /\ receipts' = receipts
    BY <1>7 DEF ConfigureUsageLimits, Known, vars
  <2>2. Metered(id)' /\ id \in DOMAIN subs'
    <3>1. Metered(id)
      BY <2>1 DEF LimiterInv
    <3> QED BY <1>1, <1>7, <2>1, <3>1, ConfigureMeters
  <2>3. ASSUME NEW j \in Ids, j # id
        PROVE  /\ limits'[j] = limits[j] /\ usage'[j] = usage[j]
               /\ receipts'[j] = receipts[j] /\ mark'[j] = mark[j]
    BY <2>1, <2>3 DEF MInv, MeterType
  <2> QED BY <1>5, <2>2, <2>3, Zenon DEF LimiterInv
<1>8. CASE MeterNext
  BY <1>6, <1>7, <1>8, UsageAssumption DEF MeterNext, ChargeUsagePlain, UsageAssumption
<1>9. CASE UNCHANGED usageVars
  <2>1. /\ limits' = limits /\ usage' = usage /\ receipts' = receipts
        /\ mark' = mark
    BY <1>9 DEF usageVars
  <2> QED BY <1>5, <2>1, Zenon DEF LimiterInv
<1> QED
  BY <1>8, <1>9 DEF MNext, meteredVars

\* The meter of every subscription covers its charges, always.
LEMMA LimiterInvariant == MSpec => [](LimiterInv /\ MInv /\ IType)
<1>1. MSpec => []IType
  BY MeteredImplementsVault, Foundation, PTL
<1>2. /\ LimiterInv /\ MInv /\ MInv' /\ IType /\ IType' /\ [MNext]_meteredVars
      => LimiterInv'
  BY LimiterStep
<1> QED
  BY <1>1, <1>2, LimiterInit, MeterInvariant, PTL DEF MSpec

(***************************************************************************)
(* No span of one window length holds more than twice the maximum number   *)
(* of calls, wherever it starts and however the windows fell.              *)
(***************************************************************************)
THEOREM RateTheorem == MSpec => []RateHeld
<1>1. ASSUME LimiterInv, MInv, IType PROVE RateHeld
  <2> SUFFICES ASSUME NEW id \in Ids, RateLimited(id), NEW i \in Recent(id)
               PROVE  Cardinality({j \in Recent(id) :
                        /\ receipts[id][j].at >= receipts[id][i].at
                        /\ receipts[id][j].at
                             < receipts[id][i].at + limits[id].window})
                      <= 2 * limits[id].max
    BY Zenon DEF RateHeld, RateLimited
  <2>1. id \in DOMAIN subs
    BY <1>1 DEF LimiterInv, Untouched, RateLimited
  <2>2. Metered(id)
    BY <1>1, <2>1 DEF LimiterInv
  <2>3. RateBound(At(id), Recent(id), limits[id].window, limits[id].max)
    BY <2>2 DEF Metered, RateOf
  <2>4. Cardinality(Within(At(id), Recent(id), At(id)[i],
                           At(id)[i] + limits[id].window)) <= 2 * limits[id].max
    BY <2>3 DEF RateBound
  <2>5. \A j \in Recent(id) :
          /\ j \in Charges(id) /\ At(id)[j] = receipts[id][j].at
          /\ receipts[id][j].at \in Nat
    BY <1>1, ReceiptAt DEF At, Recent, MInv
  <2>6. Within(At(id), Recent(id), At(id)[i], At(id)[i] + limits[id].window)
          = {j \in Recent(id) :
              /\ receipts[id][j].at >= receipts[id][i].at
              /\ receipts[id][j].at < receipts[id][i].at + limits[id].window}
    BY <2>5 DEF Within
  <2> QED BY <2>4, <2>6
<1> QED
  BY <1>1, LimiterInvariant, PTL

(***************************************************************************)
(* What one billing period is charged under one configuration stays within *)
(* the unit cap.                                                           *)
(***************************************************************************)
THEOREM UnitsTheorem == MSpec => []UnitsHeld
<1>1. ASSUME LimiterInv, MInv, IType PROVE UnitsHeld
  <2> SUFFICES ASSUME NEW id \in DOMAIN subs, UnitLimited(id),
                      NEW i \in Recent(id)
               PROVE  SumFunctionOnSet(
                        [j \in Charges(id) |-> receipts[id][j].amount],
                        {j \in Recent(id) : PeriodOf(subs[id], receipts[id][j].at)
                               = PeriodOf(subs[id], receipts[id][i].at)})
                      <= limits[id].cap_units
    BY Zenon DEF UnitsHeld, UnitLimited
  <2>1. id \in Ids
    BY <1>1, KnownId
  <2>2. Metered(id)
    BY <1>1, <2>1 DEF LimiterInv
  <2>3. UnitBound(PeriodAt(id), AmountOf(id), Recent(id), limits[id].cap_units)
    BY <2>2 DEF Metered, UnitOf
  <2>4. SumFunctionOnSet(AmountOf(id),
                         OfPeriod(PeriodAt(id), Recent(id), PeriodAt(id)[i]))
          <= limits[id].cap_units
    BY <2>3 DEF UnitBound
  <2>5. \A j \in Recent(id) :
          PeriodAt(id)[j] = PeriodOf(subs[id], receipts[id][j].at)
    BY DEF PeriodAt, Recent
  <2>6. OfPeriod(PeriodAt(id), Recent(id), PeriodAt(id)[i])
          = {j \in Recent(id) : PeriodOf(subs[id], receipts[id][j].at)
                                  = PeriodOf(subs[id], receipts[id][i].at)}
    BY <2>5 DEF OfPeriod
  <2> QED BY <2>4, <2>6, Zenon DEF AmountOf
<1> QED
  BY <1>1, LimiterInvariant, PTL

(***************************************************************************)
(* The limiter never locks a subscription out: it refuses no call that is  *)
(* far enough from every charge made.  A stored last call is a charge made *)
(* (ClockOf), so nothing that was refused can delay the next call.         *)
(***************************************************************************)
THEOREM QuietTheorem == MSpec => []QuietIsAdmitted
<1>1. ASSUME LimiterInv, MInv, IType, NEW id \in DOMAIN subs,
             NEW l, l = limits[id], NEW s, s = subs[id],
             l # None, s.plan = None, s.status = Active,
             l.max # 0, now >= l.burst,
             \A k \in Charges(id) :
               /\ now - receipts[id][k].at >= l.burst
               /\ now - receipts[id][k].at >= l.window
               /\ PeriodOf(s, receipts[id][k].at) < PeriodIndex(s),
             NEW a \in Values, l.cap_units # None => a <= l.cap_units
      PROVE  Admitted(id, a)
  <2> DEFINE u == Found(id)
             w == Judged(id)
  <2>1. id \in Ids /\ TypeOK
    BY <1>1, KnownId DEF IType
  <2>2. ClockOf(id)
    BY <1>1, <2>1 DEF LimiterInv, Metered
  <2>3. /\ s \in Subscription /\ now \in Nat /\ l \in Limits /\ s.start <= now
        /\ a \in Int
    BY <1>1, <2>1, <2>2, KnownType, UsageAssumption, VaultAssumption
    DEF MInv, MeterType, ClockOf, VaultAssumption
  <2>4. /\ l.burst \in Nat /\ l.window \in Nat
        /\ l.max # None => l.max \in Nat \ {0}
        /\ l.cap_units # None => l.cap_units \in Int
    BY <1>1, <2>3 DEF Limits
  <2>5. PICK q \in Nat : q = PeriodIndex(s)
    BY <2>3, PeriodIndexNat
  <2>6. u \in UsageState
    BY <1>1, <2>1, JudgedType DEF MInv
  <2>7. /\ IF l.max # None /\ now >= u.window_start + l.window
           THEN w.window_start = now /\ w.calls = 0
           ELSE w.window_start = u.window_start /\ w.calls = u.calls
        /\ IF l.cap_units # None /\ q > u.period
           THEN w.period = q /\ w.units = 0
           ELSE w.period = u.period /\ w.units = u.units
    <3>1. w = Periodic(l, Windowed(l, u), s)
      BY <1>1 DEF Judged
    <3> HIDE DEF u, w
    <3>2. PeriodIndex(s) \in Nat
      BY <2>5
    <3> QED BY <2>3, <2>5, <2>6, <3>1, <3>2, JudgedFields
  <2>8. /\ l.burst > 0 => now - u.last >= l.burst
        /\ l.max # None => u.calls = 0 \/ now >= u.window_start + l.window
        /\ u.units = 0 \/ q > u.period
    <3>1. CASE usage[id] = None
      <4>1. u.last = 0 /\ u.calls = 0 /\ u.units = 0
        BY <3>1 DEF Found, FreshUsage
      <4> HIDE DEF u
      <4> QED BY <1>1, <2>3, <2>4, <4>1
    <3>2. CASE usage[id] # None
      <4>1. u = usage[id]
        BY <3>2 DEF Found
      <4>2. s.status \notin Terminal
        BY <1>1 DEF Terminal, Active, Cancelled, Expired, Archived
      <4>3. PICK k \in Charges(id) : receipts[id][k].at = u.last
        BY <1>1, <2>2, <3>2, <4>1, <4>2 DEF ClockOf
      <4>4. u.window_start <= u.last /\ s.start <= u.last /\ u.period <= PeriodOf(s, u.last)
        BY <1>1, <2>2, <3>2, <4>1 DEF ClockOf
      <4> HIDE DEF u
      <4>5. /\ now - u.last >= l.burst /\ now - u.last >= l.window
            /\ PeriodOf(s, u.last) < q
        BY <1>1, <2>5, <4>3
      <4>6. u.last \in Nat /\ u.window_start \in Nat /\ u.period \in Nat
        BY <2>6 DEF UsageState
      <4>7. PeriodOf(s, u.last) \in Nat
        BY <2>3, <4>4, <4>6, PeriodGrows
      <4> QED BY <2>3, <2>4, <4>4, <4>5, <4>6, <4>7
    <3> QED BY <3>1, <3>2
  <2> HIDE DEF u, w
  <2>9. BurstOk(l, u)
    BY <2>8 DEF BurstOk
  <2>10. RateOk(l, w)
    BY <2>4, <2>7, <2>8 DEF RateOk
  <2>11. UnitsOk(l, w, a)
    BY <1>1, <2>3, <2>4, <2>7, <2>8 DEF UnitsOk
  <2> QED BY <1>1, <2>9, <2>10, <2>11 DEF Admitted, u, w
<1>2. LimiterInv /\ MInv /\ IType => QuietIsAdmitted
  BY <1>1, Zenon DEF QuietIsAdmitted
<1> QED
  BY <1>2, LimiterInvariant, PTL
===============================================================================
