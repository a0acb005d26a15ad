----------------------------- MODULE CatalogProofs -----------------------------
(***************************************************************************)
(* Plan families, the links of subscriptions to them and the directory,    *)
(* for any number of merchants, tokens, templates and subscriptions.       *)
(* PinnedToPlan rests on FamilyUniform: migration compares the family, not *)
(* the merchant.  ReadingExact rests on IndexExact and on where a reader   *)
(* stands between two pages.  The last section is about metadata: the list *)
(* of keys and the entries stay in agreement, for any number of keys.      *)
(***************************************************************************)
EXTENDS Directory, Metadata, SumTheorems, SequenceTheorems, TLAPS

PositiveVersions == \A p \in DOMAIN plans : plans[p].version # 0

PInv == PTypeOK /\ PositiveVersions /\ FamilyUniform /\ PinnedToPlan

\* Template t has the same parties as template r.
SameParties(t, r) ==
  t.merchant = r.merchant /\ t.token = r.token /\ t.usage = r.usage

\* What a new template may be: the first of its family, or a version of p.
FirstOfFamily(t) == t.key = Len(plans) + 1 /\ t.version = 1
VersionOf(t, p) ==
  /\ t.key = plans[p].key /\ t.version = plans[p].version + 1
  /\ SameParties(t, plans[p])

\* The empty catalogue satisfies the invariant.
LEMMA PInitInv == PInit => PInv
<1> SUFFICES ASSUME PInit PROVE PInv
  OBVIOUS
<1>1. plans \in Seq(Template) /\ subs \in Seq(Subscription)
  BY DEF PInit
<1>2. PTypeOK
  BY <1>1, CatalogAssumption DEF PInit, PTypeOK, CatalogAssumption
<1>3. DOMAIN plans = {} /\ DOMAIN subs = {}
  BY DEF PInit
<1> QED
  BY <1>2, <1>3 DEF PInv, PositiveVersions, FamilyUniform, PinnedToPlan

\* The fields of a stored template are numbers where they count.
LEMMA TemplateFields ==
  ASSUME PTypeOK, NEW p \in DOMAIN plans
  PROVE  plans[p] \in Template /\ plans[p].key \in Nat /\ plans[p].version \in Nat
<1>1. plans[p] \in Template
  BY DEF PTypeOK
<1> QED
  BY <1>1 DEF Template

\* A template of either kind keeps the families uniform.
LEMMA TemplateKeeps ==
  ASSUME PInv, NEW t \in Template, plans' = Append(plans, t),
         accepted' = accepted, subs' = subs,
         FirstOfFamily(t) \/ \E p \in DOMAIN plans : VersionOf(t, p)
  PROVE  PInv'
<1> DEFINE n == Len(plans)
<1>1. plans \in Seq(Template) /\ n \in Nat /\ DOMAIN plans = 1 .. n
  BY DEF PInv, PTypeOK
<1>2. /\ plans' \in Seq(Template) /\ DOMAIN plans' = 1 .. (n + 1)
      /\ plans'[n + 1] = t /\ \A p \in 1 .. n : plans'[p] = plans[p]
  BY <1>1
<1>3. PTypeOK'
  BY <1>2 DEF PInv, PTypeOK
<1>4. ASSUME NEW q \in 1 .. n
      PROVE  LET root == plans'[q].key IN
             /\ root \in 1 .. q /\ plans'[root].key = root /\ plans'[root].version = 1
             /\ SameParties(plans'[q], plans'[root])
             /\ plans'[q].version = 1 => q = root
  <2>1. /\ plans[q].key \in 1 .. q /\ plans[plans[q].key].key = plans[q].key
        /\ plans[plans[q].key].version = 1
        /\ SameParties(plans[q], plans[plans[q].key])
        /\ plans[q].version = 1 => q = plans[q].key
    BY <1>1 DEF PInv, FamilyUniform, SameParties
  <2>2. plans[q].key \in 1 .. n
    BY <1>1, <2>1
  <2> QED BY <1>2, <2>1, <2>2
<1>5. LET root == t.key IN
      /\ root \in 1 .. (n + 1) /\ plans'[root].key = root /\ plans'[root].version = 1
      /\ SameParties(t, plans'[root])
      /\ t.version = 1 => n + 1 = root
  <2>1. CASE FirstOfFamily(t)
    <3>1. t.key = n + 1 /\ plans'[t.key] = t /\ t.version = 1
      BY <1>2, <2>1 DEF FirstOfFamily
    <3> QED BY <1>1, <3>1 DEF SameParties
  <2>2. ASSUME NEW p \in DOMAIN plans, VersionOf(t, p)
        PROVE  LET root == t.key IN
               /\ root \in 1 .. (n + 1) /\ plans'[root].key = root
               /\ plans'[root].version = 1 /\ SameParties(t, plans'[root])
               /\ t.version = 1 => n + 1 = root
    <3>1. /\ plans[p].key \in 1 .. p /\ p \in 1 .. n
          /\ plans[plans[p].key].key = plans[p].key
          /\ plans[plans[p].key].version = 1
          /\ SameParties(plans[p], plans[plans[p].key])
          /\ plans[p].version = 1 => p = plans[p].key
      BY <1>1 DEF PInv, FamilyUniform, SameParties
    <3>2. t.key = plans[p].key /\ t.key \in 1 .. n /\ t.key \in 1 .. (n + 1)
      BY <1>1, <2>2, <3>1 DEF VersionOf
    <3>3. plans'[t.key] = plans[t.key]
      BY <1>2, <3>2
    <3>4. SameParties(t, plans[t.key])
      BY <2>2, <3>1, <3>2 DEF VersionOf, SameParties
    <3>5. t.version # 1
      <4>1. plans[p].version \in Nat /\ t.version = plans[p].version + 1
        BY <2>2, TemplateFields DEF PInv, VersionOf
      <4>2. plans[p].version # 0
        BY <3>1, <4>1 DEF PInv, PositiveVersions
      <4> QED BY <4>1, <4>2
    <3> QED BY <3>1, <3>2, <3>3, <3>4, <3>5
  <2> QED BY <2>1, <2>2
<1>6. FamilyUniform'
  <2>1. \A q \in DOMAIN plans' : q \in 1 .. n \/ q = n + 1
    BY <1>1, <1>2
  <2> QED BY <1>2, <1>4, <1>5, <2>1 DEF FamilyUniform, SameParties
<1>7. PinnedToPlan'
  <2>1. \A p \in DOMAIN plans : p \in DOMAIN plans' /\ plans'[p] = plans[p]
    BY <1>1, <1>2
  <2> QED BY <2>1 DEF PInv, PinnedToPlan
<1>8. PositiveVersions'
  <2>1. t.version # 0
    <3>1. CASE FirstOfFamily(t)
      BY <3>1 DEF FirstOfFamily
    <3>2. ASSUME NEW p \in DOMAIN plans, VersionOf(t, p) PROVE t.version # 0
      BY <3>2, TemplateFields DEF PInv, VersionOf
    <3> QED BY <3>1, <3>2
  <2>2. \A q \in DOMAIN plans' : q \in DOMAIN plans \/ q = n + 1
    BY <1>1, <1>2
  <2> QED BY <1>1, <1>2, <2>1, <2>2 DEF PInv, PositiveVersions
<1> QED
  BY <1>3, <1>6, <1>7, <1>8 DEF PInv

\* What a subscription linked to a plan agrees with it on.
Agrees(s) ==
  s.plan # None =>
    /\ s.plan \in DOMAIN plans
    /\ s.merchant = plans[s.plan].merchant /\ s.token = plans[s.plan].token
    /\ s.usage = plans[s.plan].usage /\ s.terms = plans[s.plan].terms

\* Storing a subscription that agrees with its template keeps the invariant.
LEMMA SubKeeps ==
  ASSUME PInv, NEW s \in Subscription, Agrees(s), subs' = Append(subs, s),
         accepted' = accepted, plans' = plans
  PROVE  PInv'
<1> DEFINE n == Len(subs)
<1>1. subs \in Seq(Subscription) /\ n \in Nat /\ DOMAIN subs = 1 .. n
  BY DEF PInv, PTypeOK
<1>2. /\ subs' \in Seq(Subscription) /\ DOMAIN subs' = 1 .. (n + 1)
      /\ subs'[n + 1] = s /\ \A i \in 1 .. n : subs'[i] = subs[i]
  BY <1>1
<1>3. PTypeOK' /\ PositiveVersions' /\ FamilyUniform'
  BY <1>2 DEF PInv, PTypeOK, PositiveVersions, FamilyUniform
<1>4. \A i \in DOMAIN subs' : i \in DOMAIN subs \/ i = n + 1
  BY <1>1, <1>2
<1>5. \A i \in DOMAIN subs : Agrees(subs[i])
  BY DEF PInv, PinnedToPlan, Agrees
<1>6. \A i \in DOMAIN subs' : Agrees(subs'[i])
  BY <1>1, <1>2, <1>4, <1>5
<1>7. PinnedToPlan'
  BY <1>6 DEF PinnedToPlan, Agrees
<1> QED
  BY <1>3, <1>7 DEF PInv

\* A subscription replaced by one that agrees with its plan.
LEMMA ReplaceKeeps ==
  ASSUME PInv, NEW id \in DOMAIN subs, NEW s \in Subscription, Agrees(s),
         subs' = [subs EXCEPT ![id] = s], accepted' = accepted, plans' = plans
  PROVE  PInv'
<1>1. subs \in Seq(Subscription) /\ DOMAIN subs = 1 .. Len(subs)
  BY DEF PInv, PTypeOK
<1>2. /\ subs' \in Seq(Subscription) /\ DOMAIN subs' = DOMAIN subs
      /\ subs'[id] = s /\ \A i \in DOMAIN subs \ {id} : subs'[i] = subs[i]
  BY <1>1
<1>3. PTypeOK' /\ PositiveVersions' /\ FamilyUniform'
  BY <1>2 DEF PInv, PTypeOK, PositiveVersions, FamilyUniform
<1>5. \A i \in DOMAIN subs : Agrees(subs[i])
  BY DEF PInv, PinnedToPlan, Agrees
<1>6. \A i \in DOMAIN subs' : Agrees(subs'[i])
  BY <1>2, <1>5
<1>7. PinnedToPlan'
  BY <1>6 DEF PinnedToPlan, Agrees
<1> QED
  BY <1>3, <1>7 DEF PInv

\* Two templates of one family have the same parties.
LEMMA SameFamily ==
  ASSUME FamilyUniform, NEW p \in DOMAIN plans, NEW q \in DOMAIN plans,
         plans[p].key = plans[q].key
  PROVE  SameParties(plans[p], plans[q])
BY DEF FamilyUniform, SameParties

\* A stored template is well-typed.
LEMMA StorePlanTyped ==
  ASSUME NEW m \in Merchants, NEW tok \in Tokens, NEW u \in BOOLEAN, NEW t \in Terms,
         NEW k \in Nat, NEW v \in Nat
  PROVE  [merchant |-> m, token |-> tok, usage |-> u, terms |-> t,
          key |-> k, version |-> v] \in Template
BY Zenon DEF Template

\* A stored subscription is well-typed.
LEMMA StoreSubTyped ==
  ASSUME NEW c \in Subscribers, NEW m \in Merchants, NEW tok \in Tokens,
         NEW u \in BOOLEAN, NEW t \in Terms, NEW p \in Nat \cup {None}, NEW e \in Stages
  PROVE  [subscriber |-> c, merchant |-> m, token |-> tok, usage |-> u,
          terms |-> t, plan |-> p, stage |-> e] \in Subscription
BY Zenon DEF Subscription

-------------------------------------------------------------------------------
\* Creating a template, or a new version of one, keeps the invariant.
LEMMA PlanNextKeeps == PInv /\ PlanNext => PInv'
<1> SUFFICES ASSUME PInv, PlanNext PROVE PInv'
  OBVIOUS
<1>0. Len(plans) + 1 \in Nat /\ 1 \in Nat /\ DefaultToken \in Tokens
  BY CatalogAssumption DEF PInv, PTypeOK, CatalogAssumption
<1>1. PICK m \in Merchants, u \in BOOLEAN, t \in Terms :
        \/ CreatePlanTemplate(m, u, t)
        \/ \E tok \in Tokens : CreatePlanTemplateWithToken(m, tok, u, t)
        \/ \E p \in 1 .. MaxPlans : UpdatePlanTemplate(m, p, u, t)
  BY DEF PlanNext
<1>2. ASSUME NEW tok \in Tokens, StorePlan(m, tok, u, t, Len(plans) + 1, 1)
      PROVE  PInv'
  <2> DEFINE new == [merchant |-> m, token |-> tok, usage |-> u, terms |-> t,
                     key |-> Len(plans) + 1, version |-> 1]
  <2>1. new \in Template
    BY <1>0, StorePlanTyped, Zenon
  <2>2. plans' = Append(plans, new) /\ accepted' = accepted /\ subs' = subs
    BY <1>2, Zenon DEF StorePlan
  <2>3. FirstOfFamily(new)
    BY DEF FirstOfFamily
  <2> HIDE DEF new
  <2> QED BY <2>1, <2>2, <2>3, TemplateKeeps, Zenon
<1>3. CASE CreatePlanTemplate(m, u, t)
  BY <1>0, <1>2, <1>3, Zenon DEF CreatePlanTemplate
<1>4. ASSUME NEW tok \in Tokens, CreatePlanTemplateWithToken(m, tok, u, t)
      PROVE  PInv'
  BY <1>2, <1>4, Zenon DEF CreatePlanTemplateWithToken
<1>5. ASSUME NEW p \in 1 .. MaxPlans, UpdatePlanTemplate(m, p, u, t)
      PROVE  PInv'
  <2> DEFINE new == [merchant |-> m, token |-> plans[p].token, usage |-> u,
                     terms |-> t, key |-> plans[p].key,
                     version |-> plans[p].version + 1]
  <2>1. p \in DOMAIN plans /\ plans[p].merchant = m /\ plans[p].usage = u
    BY <1>5, Zenon DEF UpdatePlanTemplate, MayUpdate
  <2>2. /\ plans[p] \in Template /\ plans[p].key \in Nat
        /\ plans[p].version + 1 \in Nat
    BY <2>1, TemplateFields DEF PInv
  <2>3. plans[p].token \in Tokens
    BY <2>2 DEF Template
  <2>4. new \in Template
    BY <2>2, <2>3, StorePlanTyped, Zenon
  <2>5. plans' = Append(plans, new) /\ accepted' = accepted /\ subs' = subs
    BY <1>5, Zenon DEF UpdatePlanTemplate, StorePlan
  <2>6. VersionOf(new, p)
    BY <2>1, Zenon DEF VersionOf, SameParties
  <2> HIDE DEF new
  <2> QED BY <2>1, <2>4, <2>5, <2>6, TemplateKeeps, Zenon
<1> QED
  BY <1>1, <1>3, <1>4, <1>5, Zenon

\* Creating a subscription, on a plan or not, keeps the invariant.
LEMMA SubscribeNextKeeps == PInv /\ SubscribeNext => PInv'
<1> SUFFICES ASSUME PInv, SubscribeNext PROVE PInv'
  OBVIOUS
<1>1. ASSUME NEW c \in Subscribers, NEW m \in Merchants, NEW tok \in Tokens,
             NEW u \in BOOLEAN, NEW t \in Terms, NEW p \in Nat \cup {None},
             StoreSub(c, m, tok, u, t, p),
             p # None => /\ p \in DOMAIN plans /\ plans[p].merchant = m
                         /\ plans[p].token = tok /\ plans[p].usage = u
                         /\ plans[p].terms = t
      PROVE  PInv'
  <2> DEFINE s == [subscriber |-> c, merchant |-> m, token |-> tok, usage |-> u,
                   terms |-> t, plan |-> p, stage |-> "open"]
  <2>1. s \in Subscription
    BY StoreSubTyped, Zenon DEF Stages
  <2>2. subs' = Append(subs, s) /\ accepted' = accepted /\ plans' = plans
    BY <1>1, Zenon DEF StoreSub
  <2>3. Agrees(s)
    BY <1>1, Zenon DEF Agrees
  <2> HIDE DEF s
  <2> QED BY <2>1, <2>2, <2>3, SubKeeps, Zenon
<1>2. PICK c \in Subscribers :
        \/ \E m \in Merchants, tok \in Tokens, u \in BOOLEAN, t \in Terms :
             CreateSubscription(c, m, tok, u, t)
        \/ \E p \in 1 .. MaxPlans : CreateSubscriptionFromPlan(c, p)
  BY DEF SubscribeNext
<1>3. ASSUME NEW m \in Merchants, NEW tok \in Tokens, NEW u \in BOOLEAN,
             NEW t \in Terms, CreateSubscription(c, m, tok, u, t)
      PROVE  PInv'
  BY <1>1, <1>3, Zenon DEF CreateSubscription
<1>4. ASSUME NEW p \in 1 .. MaxPlans, CreateSubscriptionFromPlan(c, p)
      PROVE  PInv'
  <2>1. p \in DOMAIN plans
    BY <1>4, Zenon DEF CreateSubscriptionFromPlan
  <2>2. plans[p] \in Template
    BY <2>1, TemplateFields DEF PInv
  <2>3. /\ plans[p].merchant \in Merchants /\ plans[p].token \in Tokens
        /\ plans[p].terms \in Terms
    BY <2>2 DEF Template
  <2>4. plans[p].usage \in BOOLEAN
    BY <2>2 DEF Template
  <2>5. p \in Nat \cup {None}
    BY DEF PInv
  <2>6. StoreSub(c, plans[p].merchant, plans[p].token, plans[p].usage,
                 plans[p].terms, p)
    BY <1>4, Zenon DEF CreateSubscriptionFromPlan
  <2> QED BY <1>1, <2>1, <2>3, <2>4, <2>5, <2>6, Zenon
<1> QED
  BY <1>2, <1>3, <1>4, Zenon

\* Ending a subscription changes one field.
LEMMA Ended ==
  ASSUME NEW s \in Subscription, NEW e \in Stages
  PROVE  [s EXCEPT !.stage = e]
           = [subscriber |-> s.subscriber, merchant |-> s.merchant,
              token |-> s.token, usage |-> s.usage, terms |-> s.terms,
              plan |-> s.plan, stage |-> e]
BY DEF Subscription

\* The fields of a subscription.
LEMMA SubFields ==
  ASSUME NEW s \in Subscription
  PROVE  /\ s.subscriber \in Subscribers /\ s.merchant \in Merchants
         /\ s.token \in Tokens /\ s.terms \in Terms /\ s.plan \in Nat \cup {None}
         /\ s.usage \in BOOLEAN /\ s.stage \in Stages
BY DEF Subscription

\* Cancelling, cleaning up and migrating keep the invariant.
LEMMA ChangeNextKeeps == PInv /\ ChangeNext => PInv'
<1> SUFFICES ASSUME PInv, NEW id \in 1 .. MaxSubs,
                    \/ CancelSubscription(id) \/ CleanupSubscription(id)
                    \/ \E p \in 1 .. MaxPlans : MigrateSubscriptionToPlan(id, p)
             PROVE  PInv'
  BY DEF ChangeNext
<1> DEFINE s == subs[id]
<1>1. id \in DOMAIN subs /\ plans' = plans /\ accepted' = accepted
  BY Zenon DEF CancelSubscription, CleanupSubscription, MigrateSubscriptionToPlan
<1>2. s \in Subscription
  BY <1>1 DEF PInv, PTypeOK
<1>3. /\ s.subscriber \in Subscribers /\ s.merchant \in Merchants
      /\ s.token \in Tokens /\ s.terms \in Terms /\ s.plan \in Nat \cup {None}
      /\ s.usage \in BOOLEAN /\ s.stage \in Stages
  BY <1>2, SubFields, Zenon
<1>4. Agrees(s)
  BY <1>1, Zenon DEF PInv, PinnedToPlan, Agrees
<1>5. ASSUME NEW e \in Stages, subs' = [subs EXCEPT ![id].stage = e]
      PROVE  PInv'
  <2> DEFINE new == [subscriber |-> s.subscriber, merchant |-> s.merchant,
                     token |-> s.token, usage |-> s.usage, terms |-> s.terms,
                     plan |-> s.plan, stage |-> e]
  <2>1. new \in Subscription
    BY <1>3, StoreSubTyped, Zenon
  <2>2. [s EXCEPT !.stage = e] = new
    BY <1>2, Ended, Zenon
  <2>3. subs' = [subs EXCEPT ![id] = [s EXCEPT !.stage = e]]
    BY <1>5, Zenon
  <2>4. Agrees(new)
    BY <1>4, Zenon DEF Agrees
  <2>5. subs' = [subs EXCEPT ![id] = new]
    BY <2>2, <2>3, Zenon
  <2> HIDE DEF new
  <2> QED BY <1>1, <2>1, <2>4, <2>5, ReplaceKeeps, Zenon
<1>6. ASSUME NEW p \in 1 .. MaxPlans, MigrateSubscriptionToPlan(id, p)
      PROVE  PInv'
  <2>0. PICK new : new = [s EXCEPT !.terms = plans[p].terms, !.plan = p]
    OBVIOUS
  <2>1. /\ p \in DOMAIN plans /\ s.plan # None /\ Newer(s.plan, p)
        /\ plans[p].token = s.token /\ plans[p].usage = s.usage
    BY <1>6, Zenon DEF MigrateSubscriptionToPlan
  <2>2. s.plan \in DOMAIN plans /\ s.merchant = plans[s.plan].merchant
    BY <1>4, <2>1, Zenon DEF Agrees
  <2>3. SameParties(plans[p], plans[s.plan])
    BY <2>1, <2>2, SameFamily, Zenon DEF PInv, Newer
  <2>4. plans[p].terms \in Terms /\ p \in Nat \cup {None}
    BY <2>1, TemplateFields DEF PInv, Template
  <2>5. /\ new \in Subscription /\ new.merchant = s.merchant /\ new.token = s.token
        /\ new.usage = s.usage /\ new.terms = plans[p].terms /\ new.plan = p
    <3>1. new \in Subscription
      BY <1>2, <2>0, <2>4 DEF Subscription
    <3>2. /\ new.merchant = s.merchant /\ new.token = s.token
          /\ new.terms = plans[p].terms /\ new.plan = p
      BY <1>2, <2>0, <2>4 DEF Subscription
    <3>3. new.usage = s.usage
      BY <1>2, <2>0, <2>4 DEF Subscription
    <3> QED BY <3>1, <3>2, <3>3, Zenon
  <2>6. subs' = [subs EXCEPT ![id] = new]
    <3>1. subs' = [subs EXCEPT ![id].terms = plans[p].terms, ![id].plan = p]
      BY <1>6, Zenon DEF MigrateSubscriptionToPlan
    <3>2. [subs EXCEPT ![id].terms = plans[p].terms, ![id].plan = p]
            = [subs EXCEPT ![id] = [s EXCEPT !.terms = plans[p].terms, !.plan = p]]
      BY <1>1, <1>2 DEF Subscription
    <3> QED BY <2>0, <3>1, <3>2, Zenon
  <2>7. Agrees(new)
    BY <2>1, <2>2, <2>3, <2>5, Zenon DEF Agrees, SameParties
  <2> QED BY <1>1, <2>5, <2>6, <2>7, ReplaceKeeps, Zenon
<1>7. "cancelled" \in Stages /\ "archived" \in Stages
  BY DEF Stages
<1> QED
  BY <1>5, <1>6, <1>7, Zenon DEF CancelSubscription, CleanupSubscription

\* Changing the accepted tokens keeps the invariant.
LEMMA StillKeeps ==
  ASSUME PInv, plans' = plans, subs' = subs, accepted' \subseteq Tokens
  PROVE  PInv'
BY DEF PInv, PTypeOK, PositiveVersions, FamilyUniform, PinnedToPlan

\* Every step of the catalogue keeps the invariant.
LEMMA PNextKeeps == PInv /\ [PNext]_planVars => PInv'
<1> SUFFICES ASSUME PInv, [PNext]_planVars PROVE PInv'
  OBVIOUS
<1>1. CASE TokenNext
  <2>1. accepted' \subseteq Tokens /\ plans' = plans /\ subs' = subs
    BY <1>1 DEF TokenNext, AddAcceptedToken, RemoveAcceptedToken, PInv, PTypeOK
  <2> QED BY <2>1, StillKeeps, Zenon
<1>2. CASE UNCHANGED planVars
  <2>1. accepted' \subseteq Tokens /\ plans' = plans /\ subs' = subs
    BY <1>2 DEF planVars, PInv, PTypeOK
  <2> QED BY <2>1, StillKeeps, Zenon
<1> QED
  BY <1>1, <1>2, PlanNextKeeps, SubscribeNextKeeps, ChangeNextKeeps, Zenon DEF PNext

\* The invariant holds for any number of merchants, tokens and templates.
THEOREM CatalogInv == PSpec => []PInv
<1> QED BY PInitInv, PNextKeeps, PTL DEF PSpec

(***************************************************************************)
(* The versions of a plan family share their merchant, token and usage     *)
(* flag, for any number of merchants and templates and any order of        *)
(* updates (do_update_plan_template).                                      *)
(***************************************************************************)
THEOREM FamilyTheorem == PSpec => []FamilyUniform
<1>1. PInv => FamilyUniform
  BY DEF PInv
<1> QED BY <1>1, CatalogInv, PTL

(***************************************************************************)
(* A subscription linked to a plan has that plan's merchant, token, usage  *)
(* flag and terms, although do_migrate_subscription_to_plan compares only  *)
(* the family, the token and the flag.                                     *)
(***************************************************************************)
THEOREM PinnedTheorem == PSpec => []PinnedToPlan
<1>1. PInv => PinnedToPlan
  BY DEF PInv
<1> QED BY <1>1, CatalogInv, PTL

-------------------------------------------------------------------------------
(***************************************************************************)
(* The directory.                                                          *)
(***************************************************************************)
LEMMA DirectoryStep == [DNext]_dirVars => [PNext]_planVars
<1> SUFFICES ASSUME [DNext]_dirVars PROVE [PNext]_planVars
  OBVIOUS
<1>1. CASE ListedNext
  <2>1. SubscribeNext
    BY <1>1, Zenon DEF ListedNext, SubscribeNext, ListedSubscription,
                       ListedSubscriptionFromPlan
  <2> QED BY <2>1 DEF PNext
<1>2. CASE ReadNext
  <2>1. UNCHANGED planVars
    BY <1>2, Zenon DEF ReadNext, StartReading, ReadSubscriberPage, ReadIndexPage
  <2> QED BY <2>1
<1>3. CASE PlanNext \/ ChangeNext \/ TokenNext
  BY <1>3 DEF PNext
<1>4. CASE UNCHANGED dirVars
  BY <1>4 DEF dirVars
<1> QED
  BY <1>1, <1>2, <1>3, <1>4 DEF DNext

\* Paging and the indices take nothing from the catalogue.
LEMMA DirectoryImplements == DSpec => PSpec
<1>1. DInit => PInit
  BY DEF DInit
<1> QED BY <1>1, DirectoryStep, PTL DEF DSpec, PSpec

Indexed ==
  byMerchant \in [Merchants -> Seq(Nat)] /\ byToken \in [Tokens -> Seq(Nat)]

DInv == PInv /\ Indexed /\ IndexExact

\* A list of the first n ids with a property, and what it becomes when id
\* n + 1 is created with or without it.
LEMMA ListGrows ==
  ASSUME NEW ids \in Seq(Nat), NEW n \in Nat, Increasing(ids), Elements(ids) \subseteq 1 .. n
  PROVE  /\ Append(ids, n + 1) \in Seq(Nat)
         /\ Increasing(Append(ids, n + 1))
         /\ Elements(Append(ids, n + 1)) = Elements(ids) \cup {n + 1}
<1> DEFINE k == Len(ids)
           more == Append(ids, n + 1)
<1>1. k \in Nat /\ DOMAIN ids = 1 .. k
  OBVIOUS
<1>2. /\ more \in Seq(Nat) /\ DOMAIN more = 1 .. (k + 1)
      /\ more[k + 1] = n + 1 /\ \A i \in 1 .. k : more[i] = ids[i]
  BY <1>1
<1>3. \A i \in 1 .. k : ids[i] \in 1 .. n
  BY <1>1 DEF Elements
<1> HIDE DEF k, more
<1>4. Increasing(more)
  BY <1>1, <1>2, <1>3 DEF Increasing
<1>5. Elements(more) = Elements(ids) \cup {n + 1}
  <2>1. \A i \in DOMAIN more : i \in 1 .. k \/ i = k + 1
    BY <1>1, <1>2
  <2>2. 1 .. k \subseteq DOMAIN more /\ k + 1 \in DOMAIN more
    BY <1>1, <1>2
  <2>3. \A x \in Elements(more) : x \in Elements(ids) \cup {n + 1}
    BY <1>1, <1>2, <2>1 DEF Elements
  <2>4. \A x \in Elements(ids) \cup {n + 1} : x \in Elements(more)
    BY <1>1, <1>2, <2>2 DEF Elements
  <2> QED BY <2>3, <2>4
<1> QED
  BY <1>2, <1>4, <1>5 DEF more

\* Storing and indexing a new subscription keeps the directory exact.
LEMMA ListedKeeps ==
  ASSUME DInv, NEW s \in Subscription, subs' = Append(subs, s),
         IndexSub(s.merchant, s.token), PInv'
  PROVE  DInv'
<1> DEFINE n == Len(subs)
<1>1. subs \in Seq(Subscription) /\ n \in Nat /\ DOMAIN subs = 1 .. n
  BY DEF DInv, PInv, PTypeOK
<1>2. /\ DOMAIN subs' = 1 .. (n + 1) /\ subs'[n + 1] = s
      /\ \A i \in 1 .. n : subs'[i] = subs[i]
  BY <1>1
<1>3. s.merchant \in Merchants /\ s.token \in Tokens
  BY SubFields
<1>4. /\ byMerchant' = [byMerchant EXCEPT ![s.merchant] = Append(@, n + 1)]
      /\ byToken' = [byToken EXCEPT ![s.token] = Append(@, n + 1)]
  BY DEF IndexSub
<1> HIDE DEF n
<1>5. ASSUME NEW m \in Merchants
      PROVE  /\ byMerchant[m] \in Seq(Nat) /\ Increasing(byMerchant[m])
             /\ Elements(byMerchant[m]) = {i \in 1 .. n : subs[i].merchant = m}
             /\ Elements(byMerchant[m]) \subseteq 1 .. n
  BY <1>1 DEF DInv, Indexed, IndexExact
<1>6. ASSUME NEW tok \in Tokens
      PROVE  /\ byToken[tok] \in Seq(Nat) /\ Increasing(byToken[tok])
             /\ Elements(byToken[tok]) = {i \in 1 .. n : subs[i].token = tok}
             /\ Elements(byToken[tok]) \subseteq 1 .. n
  BY <1>1 DEF DInv, Indexed, IndexExact
<1>7. ASSUME NEW m \in Merchants
      PROVE  /\ byMerchant'[m] \in Seq(Nat) /\ Increasing(byMerchant'[m])
             /\ Elements(byMerchant'[m]) = {i \in DOMAIN subs' : subs'[i].merchant = m}
  <2>1. CASE m = s.merchant
    <3>1. byMerchant'[m] = Append(byMerchant[m], n + 1)
      BY <1>3, <1>4, <2>1 DEF DInv, Indexed
    <3>2. /\ byMerchant'[m] \in Seq(Nat) /\ Increasing(byMerchant'[m])
          /\ Elements(byMerchant'[m]) = Elements(byMerchant[m]) \cup {n + 1}
      <4>1. /\ byMerchant[m] \in Seq(Nat) /\ Increasing(byMerchant[m])
            /\ Elements(byMerchant[m]) \subseteq 1 .. n
        BY <1>5
      <4>2. /\ Append(byMerchant[m], n + 1) \in Seq(Nat)
            /\ Increasing(Append(byMerchant[m], n + 1))
            /\ Elements(Append(byMerchant[m], n + 1)) = Elements(byMerchant[m]) \cup {n + 1}
        BY <1>1, <4>1, ListGrows
      <4> QED BY <3>1, <4>2
    <3>3. {i \in DOMAIN subs' : subs'[i].merchant = m}
            = {i \in 1 .. n : subs[i].merchant = m} \cup {n + 1}
      BY <1>1, <1>2, <2>1
    <3> QED BY <1>5, <3>2, <3>3
  <2>2. CASE m # s.merchant
    <3>1. byMerchant'[m] = byMerchant[m]
      BY <1>3, <1>4, <2>2 DEF DInv, Indexed
    <3>2. {i \in DOMAIN subs' : subs'[i].merchant = m}
            = {i \in 1 .. n : subs[i].merchant = m}
      BY <1>1, <1>2, <2>2
    <3> QED BY <1>5, <3>1, <3>2
  <2> QED BY <2>1, <2>2
<1>8. ASSUME NEW tok \in Tokens
      PROVE  /\ byToken'[tok] \in Seq(Nat) /\ Increasing(byToken'[tok])
             /\ Elements(byToken'[tok]) = {i \in DOMAIN subs' : subs'[i].token = tok}
  <2>1. CASE tok = s.token
    <3>1. byToken'[tok] = Append(byToken[tok], n + 1)
      BY <1>3, <1>4, <2>1 DEF DInv, Indexed
    <3>2. /\ byToken'[tok] \in Seq(Nat) /\ Increasing(byToken'[tok])
          /\ Elements(byToken'[tok]) = Elements(byToken[tok]) \cup {n + 1}
      <4>1. /\ byToken[tok] \in Seq(Nat) /\ Increasing(byToken[tok])
            /\ Elements(byToken[tok]) \subseteq 1 .. n
        BY <1>6
      <4>2. /\ Append(byToken[tok], n + 1) \in Seq(Nat)
            /\ Increasing(Append(byToken[tok], n + 1))
            /\ Elements(Append(byToken[tok], n + 1)) = Elements(byToken[tok]) \cup {n + 1}
        BY <1>1, <4>1, ListGrows
      <4> QED BY <3>1, <4>2
    <3>3. {i \in DOMAIN subs' : subs'[i].token = tok}
            = {i \in 1 .. n : subs[i].token = tok} \cup {n + 1}
      BY <1>1, <1>2, <2>1
    <3> QED BY <1>6, <3>2, <3>3
  <2>2. CASE tok # s.token
    <3>1. byToken'[tok] = byToken[tok]
      BY <1>3, <1>4, <2>2 DEF DInv, Indexed
    <3>2. {i \in DOMAIN subs' : subs'[i].token = tok}
            = {i \in 1 .. n : subs[i].token = tok}
      BY <1>1, <1>2, <2>2
    <3> QED BY <1>6, <3>1, <3>2
  <2> QED BY <2>1, <2>2
<1>9. DOMAIN byMerchant' = Merchants /\ DOMAIN byToken' = Tokens
  BY <1>4 DEF DInv, Indexed
<1>10. Indexed'
  <2>1. /\ byMerchant' = [m \in Merchants |-> byMerchant'[m]]
        /\ byToken' = [tok \in Tokens |-> byToken'[tok]]
    BY <1>4, <1>9 DEF DInv, Indexed
  <2> QED BY <1>7, <1>8, <2>1 DEF Indexed
<1>11. IndexExact'
  BY <1>7, <1>8 DEF IndexExact, Increasing, Elements
<1> QED
  BY <1>10, <1>11 DEF DInv

\* Steps that leave the indices and every subscription's parties alone.
LEMMA StillIndexed ==
  ASSUME DInv, PInv', UNCHANGED indexVars, DOMAIN subs' = DOMAIN subs,
         \A i \in DOMAIN subs : /\ subs'[i].merchant = subs[i].merchant
                                /\ subs'[i].token = subs[i].token
  PROVE  DInv'
<1>1. byMerchant' = byMerchant /\ byToken' = byToken
  BY DEF indexVars
<1>2. /\ \A m \in Merchants : {i \in DOMAIN subs' : subs'[i].merchant = m}
                                = {i \in DOMAIN subs : subs[i].merchant = m}
      /\ \A tok \in Tokens : {i \in DOMAIN subs' : subs'[i].token = tok}
                               = {i \in DOMAIN subs : subs[i].token = tok}
  OBVIOUS
<1>3. Indexed'
  BY <1>1 DEF DInv, Indexed
<1>4. IndexExact'
  BY <1>1, <1>2 DEF DInv, IndexExact
<1> QED
  BY <1>3, <1>4 DEF DInv

\* Cancelling, cleaning up and migrating keep the subscriber, the merchant and
\* the token of every record, so the indices need no change.
LEMMA ChangeKeepsParties ==
  ASSUME PInv, ChangeNext
  PROVE  /\ DOMAIN subs' = DOMAIN subs
         /\ \A i \in DOMAIN subs : /\ subs'[i].subscriber = subs[i].subscriber
                                   /\ subs'[i].merchant = subs[i].merchant
                                   /\ subs'[i].token = subs[i].token
<1>1. PICK id \in 1 .. MaxSubs :
        \/ CancelSubscription(id) \/ CleanupSubscription(id)
        \/ \E p \in 1 .. MaxPlans : MigrateSubscriptionToPlan(id, p)
  BY DEF ChangeNext
<1>2. \A i \in DOMAIN subs : subs[i] \in Subscription
  BY DEF PInv, PTypeOK
<1>3. CASE CancelSubscription(id) \/ CleanupSubscription(id)
  BY <1>2, <1>3 DEF CancelSubscription, CleanupSubscription, Subscription
<1>4. ASSUME NEW p \in 1 .. MaxPlans, MigrateSubscriptionToPlan(id, p)
      PROVE  /\ DOMAIN subs' = DOMAIN subs
             /\ \A i \in DOMAIN subs : /\ subs'[i].subscriber = subs[i].subscriber
                                       /\ subs'[i].merchant = subs[i].merchant
                                       /\ subs'[i].token = subs[i].token
  <2>1. subs' = [subs EXCEPT ![id].terms = plans[p].terms, ![id].plan = p]
    BY <1>4, Zenon DEF MigrateSubscriptionToPlan
  <2> QED BY <1>2, <2>1 DEF Subscription
<1> QED BY <1>1, <1>3, <1>4, Zenon

\* The empty directory is exact.
LEMMA DInitInv == DInit => DInv
<1> SUFFICES ASSUME DInit PROVE DInv
  OBVIOUS
<1>1. PInv
  BY PInitInv, Zenon DEF DInit
<1>2. << >> \in Seq(Nat) /\ DOMAIN << >> = {}
  OBVIOUS
<1>3. Indexed
  BY <1>2 DEF DInit, Indexed
<1>4. Increasing(<< >>) /\ Elements(<< >>) = {}
  BY <1>2 DEF Increasing, Elements
<1>5. /\ \A m \in Merchants : byMerchant[m] = << >>
      /\ \A tok \in Tokens : byToken[tok] = << >>
  BY DEF DInit
<1>6. DOMAIN subs = {}
  BY DEF DInit, PInit
<1>7. IndexExact
  BY <1>4, <1>5, <1>6 DEF IndexExact
<1> QED BY <1>1, <1>3, <1>7 DEF DInv

\* Every step keeps the directory exact.
LEMMA DNextKeeps == DInv /\ [DNext]_dirVars => DInv'
<1> SUFFICES ASSUME DInv, [DNext]_dirVars PROVE DInv'
  OBVIOUS
<1>1. PInv /\ PInv'
  BY DirectoryStep, PNextKeeps DEF DInv
<1>2. ASSUME NEW c \in Subscribers, NEW m \in Merchants, NEW tok \in Tokens,
             NEW u \in BOOLEAN, NEW t \in Terms, NEW p \in Nat \cup {None},
             StoreSub(c, m, tok, u, t, p), IndexSub(m, tok)
      PROVE  DInv'
  <2> DEFINE s == [subscriber |-> c, merchant |-> m, token |-> tok, usage |-> u,
                   terms |-> t, plan |-> p, stage |-> "open"]
  <2>1. s \in Subscription
    BY StoreSubTyped, Zenon DEF Stages
  <2>2. subs' = Append(subs, s)
    BY <1>2, Zenon DEF StoreSub
  <2>3. s.merchant = m /\ s.token = tok
    OBVIOUS
  <2> HIDE DEF s
  <2> QED BY <1>1, <1>2, <2>1, <2>2, <2>3, ListedKeeps, Zenon
<1>3. CASE ListedNext
  <2>1. ASSUME NEW c \in Subscribers, NEW m \in Merchants, NEW tok \in Tokens,
               NEW u \in BOOLEAN, NEW t \in Terms, ListedSubscription(c, m, tok, u, t)
        PROVE  DInv'
    BY <1>2, <2>1, Zenon DEF ListedSubscription, CreateSubscription
  <2>2. ASSUME NEW c \in Subscribers, NEW p \in 1 .. MaxPlans,
               ListedSubscriptionFromPlan(c, p)
        PROVE  DInv'
    <3>1. p \in DOMAIN plans
      BY <2>2, Zenon DEF ListedSubscriptionFromPlan, CreateSubscriptionFromPlan
    <3>2. plans[p] \in Template
      BY <1>1, <3>1, TemplateFields DEF PInv
    <3>3. /\ plans[p].merchant \in Merchants /\ plans[p].token \in Tokens
          /\ plans[p].terms \in Terms
      BY <3>2 DEF Template
    <3>4. plans[p].usage \in BOOLEAN
      BY <3>2 DEF Template
    <3>5. p \in Nat \cup {None}
      OBVIOUS
    <3>6. /\ StoreSub(c, plans[p].merchant, plans[p].token, plans[p].usage,
                      plans[p].terms, p)
          /\ IndexSub(plans[p].merchant, plans[p].token)
      BY <2>2, Zenon DEF ListedSubscriptionFromPlan, CreateSubscriptionFromPlan
    <3> QED BY <1>2, <3>3, <3>4, <3>5, <3>6, Zenon
  <2> QED BY <1>3, <2>1, <2>2, Zenon DEF ListedNext
<1>4. CASE ReadNext
  <2>1. UNCHANGED <<planVars, indexVars>>
    BY <1>4, Zenon DEF ReadNext, StartReading, ReadSubscriberPage, ReadIndexPage
  <2>2. UNCHANGED indexVars /\ subs' = subs
    BY <2>1 DEF planVars
  <2> QED BY <1>1, <2>2, StillIndexed
<1>5. CASE ChangeNext /\ UNCHANGED <<indexVars, reader>>
  BY <1>1, <1>5, ChangeKeepsParties, StillIndexed
<1>6. CASE (PlanNext \/ TokenNext) /\ UNCHANGED <<indexVars, reader>>
  <2>1. subs' = subs
    BY <1>6, Zenon DEF PlanNext, TokenNext, CreatePlanTemplate,
                       CreatePlanTemplateWithToken, UpdatePlanTemplate, StorePlan,
                       AddAcceptedToken, RemoveAcceptedToken
  <2> QED BY <1>1, <1>6, <2>1, StillIndexed
<1>7. CASE UNCHANGED dirVars
  <2>1. UNCHANGED indexVars /\ subs' = subs
    BY <1>7 DEF dirVars, planVars
  <2> QED BY <1>1, <2>1, StillIndexed
<1> QED
  BY <1>3, <1>4, <1>5, <1>6, <1>7, Zenon DEF DNext

(***************************************************************************)
(* The merchant and token indices list exactly the subscriptions of each   *)
(* merchant and token, once and in order, for both ways of creating one.   *)
(***************************************************************************)
THEOREM IndexTheorem == DSpec => []IndexExact
<1>1. DInv => IndexExact
  BY DEF DInv
<1> QED BY <1>1, DInitInv, DNextKeeps, PTL DEF DSpec

-------------------------------------------------------------------------------
(***************************************************************************)
(* Lists of ids: cutting, joining, and what a scan finds.                  *)
(***************************************************************************)
\* A list of ids may be cut out of an increasing one.
LEMMA ListSlice ==
  ASSUME NEW ids \in Seq(Nat), Increasing(ids), NEW a \in 1 .. (Len(ids) + 1),
         NEW e \in (a - 1) .. Len(ids)
  PROVE  LET cut == SubSeq(ids, a, e) IN
         /\ cut \in Seq(Nat) /\ Len(cut) = e - (a - 1) /\ Increasing(cut)
         /\ Elements(cut) = {ids[i] : i \in a .. e}
<1> DEFINE cut == SubSeq(ids, a, e)
           k == e - (a - 1)
<1>1. Len(ids) \in Nat /\ DOMAIN ids = 1 .. Len(ids) /\ k \in Nat
      /\ a \in Nat /\ e \in Nat /\ a # 0
  OBVIOUS
<1>2. /\ cut \in Seq(Nat) /\ Len(cut) = k /\ DOMAIN cut = 1 .. k
      /\ \A i \in 1 .. k : cut[i] = ids[a + i - 1]
  OBVIOUS
<1>3. \A i \in 1 .. k : a + i - 1 \in a .. e /\ a + i - 1 \in DOMAIN ids
  BY <1>1
<1> HIDE DEF cut
<1>4. Increasing(cut)
  <2> SUFFICES ASSUME NEW i \in 1 .. k, NEW j \in 1 .. k, i < j
               PROVE  cut[i] < cut[j]
    BY <1>2 DEF Increasing
  <2>1. a + i - 1 < a + j - 1
    BY <1>1
  <2> QED BY <1>2, <1>3, <2>1 DEF Increasing
<1>5. Elements(cut) = {ids[i] : i \in a .. e}
  <2>1. ASSUME NEW i \in a .. e
        PROVE  \E j \in 1 .. k : cut[j] = ids[i]
    <3>1. PICK j \in Int : j = i - a + 1
      OBVIOUS
    <3>2. j \in 1 .. k /\ a + j - 1 = i
      BY <1>1, <3>1
    <3>3. cut[j] = ids[a + j - 1]
      BY <1>2, <3>2
    <3> QED BY <3>2, <3>3
  <2>2. \A x \in Elements(cut) : x \in {ids[i] : i \in a .. e}
    BY <1>2, <1>3 DEF Elements
  <2>3. ASSUME NEW i \in a .. e PROVE ids[i] \in Elements(cut)
    <3>1. PICK j \in DOMAIN cut : cut[j] = ids[i]
      BY <1>2, <2>1
    <3> QED BY <3>1 DEF Elements
  <2> QED BY <2>2, <2>3
<1> QED
  BY <1>2, <1>4, <1>5 DEF cut

\* Two increasing lists, one behind the other, the second above the first.
LEMMA ListJoins ==
  ASSUME NEW got \in Seq(Nat), NEW page \in Seq(Nat), Increasing(got),
         Increasing(page), NEW upto \in Nat,
         \A x \in Elements(got) : x <= upto, \A x \in Elements(page) : upto < x
  PROVE  /\ got \o page \in Seq(Nat) /\ Increasing(got \o page)
         /\ Elements(got \o page) = Elements(got) \cup Elements(page)
<1> DEFINE both == got \o page
           k == Len(got)
           l == Len(page)
<1>1. /\ k \in Nat /\ l \in Nat /\ DOMAIN got = 1 .. k /\ DOMAIN page = 1 .. l
      /\ \A i \in 1 .. k : got[i] \in Nat
      /\ \A i \in 1 .. l : page[i] \in Nat
  OBVIOUS
<1>2. /\ both \in Seq(Nat) /\ DOMAIN both = 1 .. (k + l)
      /\ \A i \in 1 .. k : both[i] = got[i]
      /\ \A i \in (k + 1) .. (k + l) : both[i] = page[i - k] /\ i - k \in 1 .. l
  OBVIOUS
<1>3. \A i \in 1 .. l : k + i \in (k + 1) .. (k + l) /\ both[k + i] = page[i]
  BY <1>1, <1>2
<1>4. \A i \in 1 .. (k + l) : i \in 1 .. k \/ i \in (k + 1) .. (k + l)
  BY <1>1
<1>5. /\ \A i \in 1 .. k : got[i] <= upto
      /\ \A i \in 1 .. l : upto < page[i]
  BY <1>1 DEF Elements
<1> HIDE DEF both, k, l
<1>6. Increasing(both)
  <2> SUFFICES ASSUME NEW i \in 1 .. (k + l), NEW j \in 1 .. (k + l), i < j
               PROVE  both[i] < both[j]
    BY <1>2 DEF Increasing
  <2>1. CASE j \in 1 .. k
    <3>1. i \in 1 .. k
      BY <1>1, <2>1
    <3> QED BY <1>1, <1>2, <2>1, <3>1 DEF Increasing
  <2>2. CASE i \in 1 .. k /\ j \in (k + 1) .. (k + l)
    <3>1. both[i] = got[i] /\ both[j] = page[j - k] /\ j - k \in 1 .. l
      BY <1>2, <2>2
    <3>2. got[i] \in Nat /\ page[j - k] \in Nat /\ got[i] <= upto /\ upto < page[j - k]
      BY <1>1, <1>5, <2>2, <3>1
    <3> QED BY <3>1, <3>2
  <2>3. CASE i \in (k + 1) .. (k + l) /\ j \in (k + 1) .. (k + l)
    <3>1. /\ both[i] = page[i - k] /\ i - k \in 1 .. l
          /\ both[j] = page[j - k] /\ j - k \in 1 .. l
      BY <1>2, <2>3
    <3>2. i - k < j - k
      BY <1>1
    <3> QED BY <1>1, <3>1, <3>2 DEF Increasing
  <2>4. CASE i \in (k + 1) .. (k + l) /\ j \in 1 .. k
    BY <1>1, <2>4
  <2> QED BY <1>4, <2>1, <2>2, <2>3
<1>7. Elements(both) = Elements(got) \cup Elements(page)
  <2>1. \A x \in Elements(both) : x \in Elements(got) \cup Elements(page)
    BY <1>1, <1>2, <1>4 DEF Elements
  <2>2. \A x \in Elements(got) : x \in Elements(both)
    <3>1. \A i \in 1 .. k : i \in 1 .. (k + l)
      BY <1>1
    <3> QED BY <1>1, <1>2, <3>1 DEF Elements
  <2>3. \A x \in Elements(page) : x \in Elements(both)
    <3>1. \A i \in 1 .. l : k + i \in 1 .. (k + l)
      BY <1>1
    <3>2. ASSUME NEW i \in 1 .. l PROVE page[i] \in Elements(both)
      <4>1. k + i \in DOMAIN both /\ both[k + i] = page[i]
        BY <1>2, <1>3, <3>1
      <4> QED BY <4>1 DEF Elements
    <3> QED BY <1>1, <3>2 DEF Elements
  <2> QED BY <2>1, <2>2, <2>3
<1> QED
  BY <1>2, <1>6, <1>7 DEF both

\* Every set of the first n ids can be listed in order.
LEMMA AscendingExists ==
  ASSUME NEW n \in Nat, NEW S \in SUBSET (1 .. n)
  PROVE  \E ids \in [1 .. Cardinality(S) -> S] : Increasing(ids) /\ Elements(ids) = S
<1> DEFINE Lists(A) == \E ids \in [1 .. Cardinality(A) -> A] :
                         Increasing(ids) /\ Elements(ids) = A
           T == {k \in Nat : \A A \in SUBSET (1 .. k) : Lists(A)}
<1>1. 0 \in T
  <2>1. \A A \in SUBSET (1 .. 0) : A = {}
    OBVIOUS
  <2>2. Lists({})
    <3>1. Cardinality({}) = 0
      BY FS_EmptySet
    <3>2. << >> \in [1 .. 0 -> {}] /\ DOMAIN << >> = {}
      OBVIOUS
    <3>3. Increasing(<< >>) /\ Elements(<< >>) = {}
      BY <3>2 DEF Increasing, Elements
    <3> QED BY <3>1, <3>2, <3>3
  <2> HIDE DEF Lists
  <2> QED BY <2>1, <2>2
<1>2. ASSUME NEW k \in Nat, k \in T
      PROVE  k + 1 \in T
  <2> HIDE DEF Lists
  <2> SUFFICES ASSUME NEW A \in SUBSET (1 .. (k + 1)) PROVE Lists(A)
    OBVIOUS
  <2> USE DEF Lists
  <2>1. CASE k + 1 \notin A
    <3>1. A \in SUBSET (1 .. k)
      BY <2>1
    <3> HIDE DEF Lists
    <3> QED BY <1>2, <3>1
  <2>2. CASE k + 1 \in A
    <3> DEFINE B == A \ {k + 1}
               c == Cardinality(B)
    <3>1. B \in SUBSET (1 .. k)
      OBVIOUS
    <3>2. IsFiniteSet(B) /\ c \in Nat
      <4>1. IsFiniteSet(1 .. k)
        BY FS_Interval
      <4> QED BY <3>1, <4>1, FS_Subset, FS_CardinalityType
    <3>3. Cardinality(A) = c + 1
      <4>1. k + 1 \notin B /\ B \cup {k + 1} = A
        BY <2>2
      <4> QED BY <3>2, <4>1, FS_AddElement
    <3>4. PICK ids \in [1 .. c -> B] : Increasing(ids) /\ Elements(ids) = B
      <4>1. Lists(B)
        <5> HIDE DEF Lists
        <5> QED BY <1>2, <3>1
      <4> QED BY <4>1
    <3> HIDE DEF B, c
    <3>5. ids \in Seq(Nat) /\ Elements(ids) \subseteq 1 .. k /\ Len(ids) = c
      <4>1. \A x \in B : x \in Nat
        BY <3>1
      <4>2. ids \in [1 .. c -> Nat]
        BY <3>4, <4>1
      <4>3. Elements(ids) \subseteq 1 .. k
        BY <3>1, <3>4
      <4> QED BY <3>2, <4>2, <4>3
    <3> DEFINE more == Append(ids, k + 1)
    <3>6. Increasing(more) /\ Elements(more) = B \cup {k + 1}
      BY <3>4, <3>5, ListGrows
    <3>7. Elements(more) = A
      BY <2>2, <3>6 DEF B
    <3>8. more \in Seq(Nat) /\ DOMAIN more = 1 .. (c + 1)
      BY <3>2, <3>5
    <3>9. more \in [1 .. (c + 1) -> A]
      <4>1. \A i \in 1 .. (c + 1) : more[i] \in A
        BY <3>7, <3>8 DEF Elements
      <4>2. more = [i \in 1 .. (c + 1) |-> more[i]]
        BY <3>5, <3>8
      <4> HIDE DEF more
      <4> QED BY <4>1, <4>2
    <3> HIDE DEF more
    <3> QED BY <3>3, <3>6, <3>7, <3>9
  <2> QED BY <2>1, <2>2
<1> HIDE DEF T
<1>3. n \in T
  BY <1>1, <1>2, InductiveNat
<1> QED BY <1>3 DEF T

\* What a scan finds: the ids of the set, once each and in order.
LEMMA AscendingIs ==
  ASSUME NEW n \in Nat, NEW S \in SUBSET (1 .. n)
  PROVE  /\ Ascending(S) \in Seq(Nat) /\ Increasing(Ascending(S))
         /\ Elements(Ascending(S)) = S
<1> DEFINE P(ids) == Increasing(ids) /\ Elements(ids) = S
           D == [1 .. Cardinality(S) -> S]
<1>1. \E ids \in D : P(ids)
  BY AscendingExists
<1>2. Ascending(S) = CHOOSE ids \in D : P(ids)
  BY DEF Ascending
<1> HIDE DEF P
<1>3. Ascending(S) \in D /\ P(Ascending(S))
  BY <1>1, <1>2
<1>4. Cardinality(S) \in Nat
  <2>1. IsFiniteSet(1 .. n)
    BY FS_Interval
  <2> QED BY <2>1, FS_Subset, FS_CardinalityType
<1>5. Ascending(S) \in Seq(Nat)
  <2>1. \A x \in S : x \in Nat
    OBVIOUS
  <2>2. Ascending(S) \in [1 .. Cardinality(S) -> Nat]
    BY <1>3, <2>1
  <2> QED BY <1>4, <2>2
<1> QED BY <1>3, <1>5 DEF P

-------------------------------------------------------------------------------
(***************************************************************************)
(* The reader.  A client that lists a subscriber's subscriptions stands    *)
(* behind the last id it has covered; one that pages through an index      *)
(* stands at an offset that splits the index at that id.                   *)
(***************************************************************************)
ReaderType ==
  /\ reader \in [list: {"none", "subscriber", "merchant", "token"},
                 of: Subscribers \cup Merchants \cup Tokens \cup {None},
                 limit: Nat, at: Nat \cup {None}, upto: Nat, got: Seq(Nat)]
  /\ reader.at # 0 => reader.list # "none"
  /\ reader.list = "merchant" => reader.of \in Merchants
  /\ reader.list = "token" => reader.of \in Tokens

IndexRead == IF reader.list = "merchant" THEN byMerchant[reader.of]
             ELSE byToken[reader.of]

\* Offset at splits a list of ids at id upto.
Splits(at, ids, upto) ==
  /\ at \in 1 .. (Len(ids) + 1)
  /\ \A i \in DOMAIN ids : ids[i] <= upto <=> i < at

Standing ==
  reader.at \notin {0, None} =>
    /\ reader.limit # 0
    /\ reader.list = "subscriber" => reader.at = reader.upto + 1
    /\ reader.list \in {"merchant", "token"} =>
         Splits(reader.at, IndexRead, reader.upto)

ReaderInv == DInv /\ ReaderType /\ Standing /\ ReadingExact

\* The fields of the reader.
LEMMA ReaderFields ==
  ASSUME ReaderType
  PROVE  /\ reader.limit \in Nat /\ reader.at \in Nat \cup {None}
         /\ reader.upto \in Nat /\ reader.got \in Seq(Nat)
         /\ reader.list \in {"none", "subscriber", "merchant", "token"}
         /\ reader.of \in Subscribers \cup Merchants \cup Tokens \cup {None}
BY DEF ReaderType

\* The index a reader pages through lists its subscriptions in order.
LEMMA IndexReadIs ==
  ASSUME DInv, ReaderType, reader.list \in {"merchant", "token"}
  PROVE  /\ IndexRead \in Seq(Nat) /\ Increasing(IndexRead)
         /\ Elements(IndexRead) = {id \in DOMAIN subs : Listed(id)}
<1>1. CASE reader.list = "merchant"
  <2>1. reader.of \in Merchants
    BY <1>1 DEF ReaderType
  <2>2. IndexRead = byMerchant[reader.of]
    BY <1>1 DEF IndexRead
  <2>3. \A id \in DOMAIN subs : Listed(id) <=> subs[id].merchant = reader.of
    BY <1>1 DEF Listed
  <2> QED BY <2>1, <2>2, <2>3 DEF DInv, Indexed, IndexExact
<1>2. CASE reader.list = "token"
  <2>1. reader.of \in Tokens
    BY <1>2 DEF ReaderType
  <2>2. IndexRead = byToken[reader.of]
    BY <1>2 DEF IndexRead
  <2>3. \A id \in DOMAIN subs : Listed(id) <=> subs[id].token = reader.of
    BY <1>2 DEF Listed
  <2> QED BY <2>1, <2>2, <2>3 DEF DInv, Indexed, IndexExact
<1> QED BY <1>1, <1>2

\* The ids a reader is looking for do not change under it.
SameLists ==
  \A i \in DOMAIN subs :
    /\ i \in DOMAIN subs' /\ subs'[i].subscriber = subs[i].subscriber
    /\ subs'[i].merchant = subs[i].merchant /\ subs'[i].token = subs[i].token

LEMMA StillReads ==
  ASSUME ReaderInv, DInv', reader' = reader, SameLists, Standing'
  PROVE  ReaderInv'
<1>1. ReaderType'
  BY DEF ReaderInv, ReaderType
<1>2. /\ Len(subs) \in Nat /\ DOMAIN subs = 1 .. Len(subs)
      /\ Len(subs') \in Nat /\ DOMAIN subs' = 1 .. Len(subs')
  BY DEF ReaderInv, DInv, PInv, PTypeOK
<1>3. \A i \in DOMAIN subs : Listed(i)' <=> Listed(i)
  BY DEF SameLists, Listed
<1>4. ReadingExact'
  <2> SUFFICES ASSUME reader.at # 0
               PROVE  /\ Increasing(reader.got)
                      /\ Elements(reader.got) = {id \in 1 .. reader.upto : Listed(id)'}
                      /\ reader.upto \in 0 .. Len(subs')
    BY DEF ReadingExact
  <2>1. /\ Increasing(reader.got)
        /\ Elements(reader.got) = {id \in 1 .. reader.upto : Listed(id)}
        /\ reader.upto \in 0 .. Len(subs)
    BY DEF ReaderInv, ReadingExact
  <2>2. \A id \in 1 .. reader.upto : id \in DOMAIN subs
    BY <1>2, <2>1
  <2>3. reader.upto \in 0 .. Len(subs')
    <3>1. reader.upto = 0 \/ reader.upto \in DOMAIN subs
      BY <1>2, <2>1
    <3>2. reader.upto = 0 \/ reader.upto \in DOMAIN subs'
      BY <3>1 DEF SameLists
    <3> QED BY <1>2, <3>2
  <2> QED BY <1>3, <2>1, <2>2, <2>3
<1> QED BY <1>1, <1>4 DEF ReaderInv

\* A creation adds a larger id behind where the reader stands.
LEMMA ListedReads ==
  ASSUME ReaderInv, NEW s \in Subscription, subs' = Append(subs, s),
         IndexSub(s.merchant, s.token), DInv', reader' = reader
  PROVE  ReaderInv'
<1> DEFINE n == Len(subs)
<1>1. /\ subs \in Seq(Subscription) /\ n \in Nat /\ DOMAIN subs = 1 .. n
      /\ DOMAIN subs' = 1 .. (n + 1) /\ \A i \in 1 .. n : subs'[i] = subs[i]
  BY DEF ReaderInv, DInv, PInv, PTypeOK
<1>2. SameLists
  BY <1>1 DEF SameLists
<1>3. Standing'
  <2> SUFFICES ASSUME reader.at \notin {0, None}
               PROVE  /\ reader.limit # 0
                      /\ reader.list = "subscriber" => reader.at = reader.upto + 1
                      /\ reader.list \in {"merchant", "token"} =>
                           Splits(reader.at, IndexRead', reader.upto)
    BY DEF Standing, Splits
  <2>1. /\ reader.limit # 0
        /\ reader.list = "subscriber" => reader.at = reader.upto + 1
    BY DEF ReaderInv, Standing
  <2>2. ASSUME reader.list \in {"merchant", "token"}
        PROVE  Splits(reader.at, IndexRead', reader.upto)
    <3> DEFINE ids == IndexRead
    <3>1. ids \in Seq(Nat) /\ Splits(reader.at, ids, reader.upto)
      BY <2>2, IndexReadIs DEF ReaderInv, Standing
    <3>2. IndexRead' \in {ids, Append(ids, n + 1)}
      <4>1. /\ byMerchant' = [byMerchant EXCEPT ![s.merchant] = Append(@, n + 1)]
            /\ byToken' = [byToken EXCEPT ![s.token] = Append(@, n + 1)]
        BY DEF IndexSub
      <4>2. /\ reader.list = "merchant" => reader.of \in DOMAIN byMerchant
            /\ reader.list = "token" => reader.of \in DOMAIN byToken
        BY DEF ReaderInv, ReaderType, DInv, Indexed
      <4> HIDE DEF n
      <4> QED BY <2>2, <4>1, <4>2 DEF IndexRead
    <3> HIDE DEF ids
    <3>3. reader.upto \in Nat /\ reader.upto <= n
      BY <1>1, ReaderFields DEF ReaderInv, ReadingExact
    <3>4. CASE IndexRead' = ids
      BY <3>1, <3>4
    <3>5. CASE IndexRead' = Append(ids, n + 1)
      <4> DEFINE k == Len(ids)
                 more == Append(ids, n + 1)
      <4>1. k \in Nat /\ DOMAIN ids = 1 .. k
        BY <3>1
      <4>2. /\ Len(more) = k + 1 /\ DOMAIN more = 1 .. (k + 1)
            /\ more[k + 1] = n + 1 /\ \A i \in 1 .. k : more[i] = ids[i]
        BY <3>1
      <4>3. /\ reader.at \in 1 .. (k + 1)
            /\ \A i \in 1 .. k : ids[i] <= reader.upto <=> i < reader.at
        BY <3>1, <4>1 DEF Splits
      <4> HIDE DEF more, k
      <4>4. reader.at \in 1 .. (k + 2)
        BY <4>1, <4>3
      <4>5. ~(more[k + 1] <= reader.upto) /\ ~(k + 1 < reader.at)
        BY <1>1, <3>3, <4>1, <4>2, <4>3
      <4>6. \A i \in 1 .. (k + 1) : more[i] <= reader.upto <=> i < reader.at
        BY <4>1, <4>2, <4>3, <4>5
      <4>7. Splits(reader.at, more, reader.upto)
        BY <4>1, <4>2, <4>4, <4>6 DEF Splits
      <4> QED BY <3>5, <4>7 DEF more
    <3> QED BY <3>2, <3>4, <3>5
  <2> QED BY <2>1, <2>2
<1> QED BY <1>2, <1>3, StillReads

\* A reader starts before the first subscription.
LEMMA StartReads ==
  ASSUME ReaderInv, DInv', NEW list \in {"subscriber", "merchant", "token"},
         NEW of \in Subscribers \cup Merchants \cup Tokens, NEW limit \in Limits,
         list = "merchant" => of \in Merchants, list = "token" => of \in Tokens,
         StartReading(list, of, limit)
  PROVE  ReaderInv'
<1>1. /\ reader' = [list |-> list, of |-> of, limit |-> limit, at |-> 1,
                    upto |-> 0, got |-> << >>]
      /\ limit \in Nat /\ limit # 0
  BY DirectoryAssumption DEF StartReading, DirectoryAssumption
<1>2. /\ reader'.list = list /\ reader'.of = of /\ reader'.limit = limit
      /\ reader'.at = 1 /\ reader'.upto = 0 /\ reader'.got = << >>
  BY <1>1
<1>3. << >> \in Seq(Nat) /\ DOMAIN << >> = {}
  OBVIOUS
<1>4. ReaderType'
  BY <1>1, <1>2, <1>3 DEF ReaderType
<1>5. ReadingExact'
  <2>1. Increasing(<< >>) /\ Elements(<< >>) = {}
    BY <1>3 DEF Increasing, Elements
  <2>2. 0 \in 0 .. Len(subs') /\ 1 .. 0 = {}
    BY DEF DInv, PInv, PTypeOK
  <2> QED BY <1>2, <2>1, <2>2 DEF ReadingExact
<1>6. Standing'
  <2> SUFFICES ASSUME list \in {"merchant", "token"}
               PROVE  Splits(1, IndexRead', 0)
    BY <1>1, <1>2 DEF Standing, Splits
  <2>1. /\ IndexRead' \in Seq(Nat)
        /\ Elements(IndexRead)' \subseteq DOMAIN subs'
    <3>1. CASE list = "merchant"
      BY <1>2, <3>1 DEF IndexRead, DInv, Indexed, IndexExact
    <3>2. CASE list = "token"
      BY <1>2, <3>2 DEF IndexRead, DInv, Indexed, IndexExact
    <3> QED BY <3>1, <3>2
  <2>2. DOMAIN subs' = 1 .. Len(subs') /\ Len(subs') \in Nat
    BY DEF DInv, PInv, PTypeOK
  <2>3. \A i \in DOMAIN IndexRead' : IndexRead'[i] \in 1 .. Len(subs')
    BY <2>1, <2>2 DEF Elements
  <2> QED BY <2>1, <2>3 DEF Splits
<1> QED BY <1>4, <1>5, <1>6 DEF ReaderInv

\* A page that follows what was read, up to id last.
LEMMA PageReads ==
  ASSUME ReaderInv, DInv', subs' = subs, NEW page \in Seq(Nat),
         NEW at \in Nat \cup {None}, NEW last \in Nat, reader.at # 0,
         reader.upto <= last, last <= Len(subs), Increasing(page),
         Elements(page) = {id \in (reader.upto + 1) .. last : Listed(id)},
         reader' = [reader EXCEPT !.got = @ \o page, !.at = at, !.upto = last],
         Standing'
  PROVE  ReaderInv'
<1>0. /\ reader.upto \in Nat /\ reader.got \in Seq(Nat)
      /\ Len(subs) \in Nat /\ DOMAIN subs = 1 .. Len(subs)
  BY ReaderFields DEF ReaderInv, DInv, PInv, PTypeOK
<1>1. /\ reader'.list = reader.list /\ reader'.of = reader.of
      /\ reader'.got = reader.got \o page /\ reader'.upto = last /\ reader'.at = at
  BY DEF ReaderInv, ReaderType
<1>2. /\ Increasing(reader.got)
      /\ Elements(reader.got) = {id \in 1 .. reader.upto : Listed(id)}
  BY DEF ReaderInv, ReadingExact
<1>3. /\ reader.got \o page \in Seq(Nat) /\ Increasing(reader.got \o page)
      /\ Elements(reader.got \o page) = Elements(reader.got) \cup Elements(page)
  <2>1. \A x \in Elements(reader.got) : x <= reader.upto
    BY <1>0, <1>2
  <2>2. \A x \in Elements(page) : reader.upto < x
    BY <1>0
  <2> QED BY <1>0, <1>2, <2>1, <2>2, ListJoins
<1>4. Elements(reader.got) \cup Elements(page) = {id \in 1 .. last : Listed(id)}
  BY <1>0, <1>2
<1>5. \A id \in 1 .. last : Listed(id)' <=> Listed(id)
  BY <1>0, <1>1 DEF Listed
<1>6. ReadingExact'
  BY <1>0, <1>1, <1>3, <1>4, <1>5 DEF ReadingExact
<1>7. ReaderType'
  BY <1>1, <1>3 DEF ReaderInv, ReaderType
<1> QED BY <1>6, <1>7 DEF ReaderInv

\* The page of list_subscriptions_by_subscriber: the matches up to where the
\* next call resumes.
LEMMA SubscriberPageReads ==
  ASSUME ReaderInv, DInv', ReadSubscriberPage
  PROVE  ReaderInv'
<1> DEFINE c     == reader.of
           at    == reader.at
           limit == reader.limit
           n     == Len(subs)
           end   == ScanEnd(at)
           found == Matches(c, at)
           next  == ResumeAt(c, at, limit)
           page  == SubSeq(found, 1, Least(limit, Len(found)))
           last  == IF next = None THEN n ELSE next - 1
<1>1. /\ reader.list = "subscriber" /\ at \notin {0, None} /\ subs' = subs
      /\ reader' = [reader EXCEPT !.got = @ \o page, !.at = next, !.upto = last]
  BY Zenon DEF ReadSubscriberPage, planVars
<1>2. /\ n \in Nat /\ DOMAIN subs = 1 .. n /\ limit \in Nat /\ limit # 0
      /\ at \in Nat /\ at >= 1 /\ at = reader.upto + 1 /\ at - 1 <= n
      /\ reader.upto \in Nat
      /\ MAX_SCAN_DEPTH \in Nat /\ MAX_SCAN_DEPTH # 0
  BY <1>1, ReaderFields, DirectoryAssumption
     DEF ReaderInv, DInv, PInv, PTypeOK, Standing, ReadingExact, DirectoryAssumption
<1>3. /\ end \in Nat /\ at <= end /\ end <= n + 1
      /\ end < n + 1 \/ end = n + 1
  BY <1>2 DEF ScanEnd, Least, NextSubId
<1>4. \A id \in 1 .. n : Listed(id) <=> subs[id].subscriber = c
  BY <1>1 DEF Listed
<1> DEFINE S == {id \in at .. (end - 1) : Listed(id)}
<1>5. /\ found \in Seq(Nat) /\ Increasing(found) /\ Elements(found) = S
  <2>1. {id \in at .. (end - 1) : subs[id].subscriber = c} = S
    <3>1. \A id \in at .. (end - 1) : id \in 1 .. n
      BY <1>2, <1>3
    <3> QED BY <1>4, <3>1
  <2>2. S \in SUBSET (1 .. n)
    BY <1>2, <1>3
  <2>3. found = Ascending(S)
    BY <2>1 DEF Matches
  <2> HIDE DEF S, n, found
  <2> QED BY <1>2, <2>2, <2>3, AscendingIs
<1> HIDE DEF found, end
<1>6. Len(found) \in Nat /\ DOMAIN found = 1 .. Len(found)
  BY <1>5
<1>7. next = IF Len(found) > limit THEN found[limit + 1]
             ELSE IF end < n + 1 THEN end ELSE None
  BY DEF ResumeAt, found, end, NextSubId
<1>8. None \notin Nat
  BY CatalogAssumption DEF CatalogAssumption
<1> HIDE DEF next
<1>9. ASSUME NEW e \in 0 .. Len(found), e = Least(limit, Len(found)),
             last \in Nat, at - 1 <= last, last <= n,
             next \in Nat \cup {None}, next # None => next = last + 1,
             {found[i] : i \in 1 .. e} = {id \in at .. last : Listed(id)}
      PROVE  ReaderInv'
  <2>1. /\ page \in Seq(Nat) /\ Increasing(page)
        /\ Elements(page) = {id \in (reader.upto + 1) .. last : Listed(id)}
    <3>1. page = SubSeq(found, 1, e) /\ 1 \in 1 .. (Len(found) + 1)
          /\ e \in (1 - 1) .. Len(found)
      BY <1>6, <1>9
    <3> QED BY <1>2, <1>5, <1>9, <3>1, ListSlice
  <2> HIDE DEF page, last
  <2>2. Standing'
    <3>1. /\ reader'.list = "subscriber" /\ reader'.limit = limit
          /\ reader'.at = next /\ reader'.upto = last
      BY <1>1 DEF ReaderInv, ReaderType
    <3> QED BY <1>2, <1>9, <3>1 DEF Standing
  <2>3. reader.upto <= last /\ reader.at # 0
    BY <1>1, <1>2, <1>9
  <2>4. /\ next \in Nat \cup {None} /\ last \in Nat /\ last <= Len(subs)
        /\ subs' = subs
        /\ reader' = [reader EXCEPT !.got = @ \o page, !.at = next, !.upto = last]
    BY <1>1, <1>9
  <2> QED BY <2>1, <2>2, <2>3, <2>4, PageReads, Zenon
<1>10. CASE Len(found) > limit
  <2> DEFINE x == found[limit + 1]
  <2>1. /\ limit + 1 \in 1 .. Len(found) /\ x \in S /\ x \in Nat
        /\ next = x /\ next # None /\ last = x - 1
    <3>1. limit + 1 \in 1 .. Len(found)
      BY <1>2, <1>6, <1>10
    <3>2. x \in S
      BY <1>5, <1>6, <3>1 DEF Elements
    <3>3. x \in Nat
      BY <1>5, <1>6, <3>1
    <3> QED BY <1>7, <1>8, <1>10, <3>1, <3>2, <3>3
  <2>2. x >= at /\ x < end
    BY <1>2, <1>3, <2>1
  <2>3. \A i \in 1 .. Len(found) : i \in 1 .. limit <=> found[i] < x
    <3>1. \A i \in 1 .. Len(found) : found[i] \in Nat
      BY <1>5, <1>6
    <3>2. \A i \in 1 .. Len(found) :
            /\ i < limit + 1 => found[i] < x
            /\ limit + 1 < i => x < found[i]
      BY <1>5, <1>6, <2>1 DEF Increasing
    <3>3. \A i \in 1 .. Len(found) : i < limit + 1 \/ i = limit + 1 \/ limit + 1 < i
      BY <1>2, <1>6
    <3> HIDE DEF x
    <3>4. \A i \in 1 .. Len(found) : i = limit + 1 => found[i] = x
      BY DEF x
    <3> QED BY <1>2, <1>6, <2>1, <3>1, <3>2, <3>3, <3>4
  <2>4. {found[i] : i \in 1 .. limit} = {id \in at .. (x - 1) : Listed(id)}
    <3> HIDE DEF x
    <3>1. ASSUME NEW i \in 1 .. limit
          PROVE  found[i] \in at .. (x - 1) /\ Listed(found[i])
      <4>1. i \in 1 .. Len(found) /\ found[i] \in S
        <5>1. i \in 1 .. Len(found)
          BY <1>2, <1>6, <1>10
        <5> QED BY <1>5, <1>6, <5>1 DEF Elements
      <4>2. found[i] >= at /\ Listed(found[i]) /\ found[i] \in Int
        BY <1>2, <1>3, <4>1
      <4>3. found[i] < x
        BY <2>3, <4>1
      <4> QED BY <1>2, <2>1, <4>2, <4>3
    <3>2. ASSUME NEW id \in at .. (x - 1), Listed(id)
          PROVE  \E i \in 1 .. limit : id = found[i]
      <4>1. id \in S
        BY <1>2, <1>3, <2>1, <2>2, <3>2
      <4>2. PICK i \in 1 .. Len(found) : id = found[i]
        BY <1>5, <1>6, <4>1 DEF Elements
      <4>3. id < x
        BY <1>2, <2>1
      <4> QED BY <2>3, <4>2, <4>3
    <3> QED BY <3>1, <3>2
  <2>5. Least(limit, Len(found)) = limit /\ limit \in 0 .. Len(found)
    BY <1>2, <1>6, <1>10 DEF Least
  <2> HIDE DEF x, last
  <2>6. /\ last \in Nat /\ at - 1 <= last /\ last <= n
        /\ next \in Nat \cup {None} /\ (next # None => next = last + 1)
    BY <1>2, <1>3, <2>1, <2>2
  <2> QED BY <1>9, <2>1, <2>4, <2>5, <2>6
<1>11. CASE ~(Len(found) > limit)
  <2>1. Least(limit, Len(found)) = Len(found) /\ Len(found) \in 0 .. Len(found)
    BY <1>2, <1>6, <1>11 DEF Least
  <2>2. {found[i] : i \in 1 .. Len(found)} = S
    BY <1>5, <1>6 DEF Elements
  <2>3. last = end - 1
    BY <1>2, <1>3, <1>7, <1>8, <1>11
  <2>4. next \in Nat \cup {None} /\ (next # None => next = end)
    BY <1>3, <1>7, <1>11
  <2> HIDE DEF last
  <2>5. /\ last \in Nat /\ at - 1 <= last /\ last <= n
        /\ next # None => next = last + 1
    <3>1. last \in Nat /\ at - 1 <= last /\ last <= n /\ end = last + 1
      BY <1>2, <1>3, <2>3
    <3> QED BY <2>4, <3>1, Zenon
  <2>6. {found[i] : i \in 1 .. Len(found)} = {id \in at .. last : Listed(id)}
    BY <2>2, <2>3
  <2> QED BY <1>9, <2>1, <2>4, <2>5, <2>6
<1> QED BY <1>10, <1>11

\* Elements at to e of a list are its ids above upto and up to last.
Between(ids, at, e, upto, last) ==
  /\ \A i \in at .. e : ids[i] \in Elements(ids) /\ upto < ids[i] /\ ids[i] <= last
  /\ \A id \in Elements(ids) :
       upto < id /\ id <= last => \E i \in at .. e : id = ids[i]

\* So it is when offset at splits the list at upto, and offset e + 1 at last.
LEMMA SliceBetween ==
  ASSUME NEW ids \in Seq(Nat), Increasing(ids), NEW upto \in Nat, NEW last \in Nat,
         NEW at \in Nat, Splits(at, ids, upto), NEW e \in Nat, Splits(e + 1, ids, last),
         at <= e + 1
  PROVE  Between(ids, at, e, upto, last)
<1>1. /\ Len(ids) \in Nat /\ DOMAIN ids = 1 .. Len(ids)
      /\ \A i \in 1 .. Len(ids) : ids[i] \in Nat
  OBVIOUS
<1>2. /\ at \in 1 .. (Len(ids) + 1) /\ e + 1 \in 1 .. (Len(ids) + 1)
      /\ \A i \in 1 .. Len(ids) : ids[i] <= upto <=> i < at
      /\ \A i \in 1 .. Len(ids) : ids[i] <= last <=> i < e + 1
  BY <1>1 DEF Splits
<1>3. \A i \in at .. e : i \in 1 .. Len(ids)
  BY <1>1, <1>2
<1>4. \A i \in 1 .. Len(ids) : i \in at .. e <=> upto < ids[i] /\ ids[i] <= last
  BY <1>1, <1>2
<1>5. ASSUME NEW i \in at .. e
      PROVE  ids[i] \in Elements(ids) /\ upto < ids[i] /\ ids[i] <= last
  BY <1>1, <1>3, <1>4 DEF Elements
<1>6. ASSUME NEW id \in Elements(ids), upto < id, id <= last
      PROVE  \E i \in at .. e : id = ids[i]
  <2>1. PICK i \in 1 .. Len(ids) : id = ids[i]
    BY <1>1 DEF Elements
  <2> QED BY <1>4, <1>6, <2>1
<1> QED BY <1>5, <1>6 DEF Between

\* The page of an index: the ids between where the reader stands and where it
\* stands next.
LEMMA IndexPageReads ==
  ASSUME ReaderInv, DInv', ReadIndexPage
  PROVE  ReaderInv'
<1> DEFINE ids   == IndexRead
           at    == reader.at
           limit == reader.limit
           n     == Len(subs)
           k     == Len(ids)
           page  == IndexPage(ids, at, limit)
           full  == Len(page) = limit
           next  == at + limit
           goto  == IF full THEN next ELSE None
           last  == IF full THEN ids[next - 1] ELSE n
           e     == Least(at + limit - 1, k)
<1>1. /\ reader.list \in {"merchant", "token"} /\ at \notin {0, None}
      /\ subs' = subs /\ byMerchant' = byMerchant /\ byToken' = byToken
      /\ reader' = [reader EXCEPT !.got = @ \o page, !.at = goto, !.upto = last]
  BY DEF ReadIndexPage, IndexRead, planVars, indexVars
<1>2. /\ ids \in Seq(Nat) /\ Increasing(ids)
      /\ Elements(ids) = {id \in DOMAIN subs : Listed(id)}
  BY <1>1, IndexReadIs DEF ReaderInv
<1>3. /\ n \in Nat /\ DOMAIN subs = 1 .. n /\ limit \in Nat /\ limit # 0
      /\ reader.upto \in Nat /\ reader.upto <= n /\ Splits(at, ids, reader.upto)
  BY <1>1, ReaderFields
     DEF ReaderInv, DInv, PInv, PTypeOK, Standing, ReadingExact
<1> HIDE DEF ids
<1>4. /\ k \in Nat /\ DOMAIN ids = 1 .. k /\ at \in 1 .. (k + 1)
      /\ \A i \in 1 .. k : ids[i] \in 1 .. n
      /\ \A i \in 1 .. k : ids[i] <= reader.upto <=> i < at
  BY <1>2, <1>3 DEF Splits, Elements
<1>5. /\ e \in (at - 1) .. k
      /\ Len(page) = e - (at - 1) /\ page \in Seq(Nat) /\ Increasing(page)
      /\ Elements(page) = {ids[i] : i \in at .. e}
  <2>1. e \in (at - 1) .. k
    BY <1>3, <1>4 DEF Least
  <2>2. page = SubSeq(ids, at, e)
    BY DEF IndexPage
  <2> HIDE DEF e, page
  <2> QED BY <1>2, <1>4, <2>1, <2>2, ListSlice
<1>6. /\ full => e \in at .. k /\ next - 1 = e
      /\ ~full => e = k
  <2>1. full <=> e - (at - 1) = limit
    BY <1>5
  <2> HIDE DEF full, e
  <2>2. e = Least(at + limit - 1, k)
    BY DEF e
  <2> HIDE DEF k
  <2>3. k \in Nat /\ at \in 1 .. (k + 1) /\ limit \in Nat /\ limit # 0
    BY <1>3, <1>4
  <2> HIDE DEF at, limit
  <2>4. /\ e - (at - 1) = limit => e \in at .. k /\ (at + limit) - 1 = e
        /\ e - (at - 1) # limit => e = k
    BY <2>2, <2>3 DEF Least
  <2> QED BY <2>1, <2>4
<1> HIDE DEF e, page
<1>7. /\ last \in Nat /\ reader.upto <= last /\ last <= n /\ Splits(e + 1, ids, last)
  <2>1. CASE full
    <3>1. e \in 1 .. k /\ at <= e /\ last = ids[e]
      <4>1. e \in at .. k /\ last = ids[e]
        BY <1>6, <2>1
      <4> QED BY <1>4, <4>1
    <3>2. \A i \in 1 .. k : ids[i] <= ids[e] <=> i < e + 1
      <4>1. \A i \in 1 .. k : /\ i < e => ids[i] < ids[e]
                              /\ e < i => ids[e] < ids[i]
        <5>1. \A i, j \in 1 .. k : i < j => ids[i] < ids[j]
          BY <1>2, <1>4 DEF Increasing
        <5> HIDE DEF k
        <5> QED BY <3>1, <5>1
      <4> QED BY <1>4, <3>1, <4>1
    <3>3. reader.upto <= ids[e] /\ ids[e] \in Nat /\ ids[e] <= n
      BY <1>3, <1>4, <3>1
    <3> QED BY <1>4, <3>1, <3>2, <3>3 DEF Splits
  <2>2. CASE ~full
    <3>1. e = k /\ last = n
      BY <1>6, <2>2
    <3>2. \A i \in 1 .. k : ids[i] <= n <=> i < k + 1
      BY <1>4
    <3> QED BY <1>3, <1>4, <3>1, <3>2 DEF Splits
  <2> QED BY <2>1, <2>2
<1>8. goto \in Nat \cup {None} /\ (goto # None => goto = e + 1)
  BY <1>3, <1>4, <1>6
<1> HIDE DEF full, last, goto
<1>9. Elements(page) = {id \in (reader.upto + 1) .. last : Listed(id)}
  <2>1. /\ at \in Nat /\ e \in Nat /\ at <= e + 1
    BY <1>4, <1>5
  <2>2. Between(ids, at, e, reader.upto, last)
    BY <1>2, <1>3, <1>7, <2>1, SliceBetween
  <2>4. {ids[i] : i \in at .. e} = {id \in Elements(ids) : reader.upto < id /\ id <= last}
    BY <2>2 DEF Between
  <2>3. {id \in Elements(ids) : reader.upto < id /\ id <= last}
          = {id \in (reader.upto + 1) .. last : Listed(id)}
    BY <1>2, <1>3, <1>7
  <2> QED BY <1>5, <2>3, <2>4
<1>10. Standing'
  <2>1. /\ reader'.list = reader.list /\ reader'.limit = limit
        /\ reader'.at = goto /\ reader'.upto = last /\ reader'.of = reader.of
    BY <1>1 DEF ReaderInv, ReaderType
  <2>2. IndexRead' = ids
    BY <1>1, <2>1 DEF IndexRead, ids
  <2>3. goto # None => Splits(goto, ids, last)
    BY <1>7, <1>8
  <2>4. Splits(goto, ids, last) => Splits(reader.at, IndexRead, reader.upto)'
    BY <2>1, <2>2 DEF Splits
  <2> QED BY <1>1, <1>3, <2>1, <2>3, <2>4 DEF Standing
<1> QED BY <1>1, <1>5, <1>7, <1>8, <1>9, <1>10, PageReads

\* Nobody reads yet.
LEMMA ReaderInitInv == DInit => ReaderInv
<1> SUFFICES ASSUME DInit PROVE ReaderInv
  OBVIOUS
<1>1. DInv
  BY DInitInv
<1>2. reader = [list |-> "none", of |-> None, limit |-> 0, at |-> 0, upto |-> 0,
                got |-> << >>]
  BY DEF DInit, NoReader
<1>3. reader.at = 0 /\ reader.list = "none"
  BY <1>2
<1>4. ReaderType
  <2>1. << >> \in Seq(Nat)
    OBVIOUS
  <2> QED BY <1>2, <1>3, <2>1 DEF ReaderType
<1> QED BY <1>1, <1>3, <1>4 DEF ReaderInv, Standing, ReadingExact

\* A step that touches neither the indices nor the reader.
LEMMA StillStands ==
  ASSUME ReaderInv, DInv', UNCHANGED <<indexVars, reader>>, DOMAIN subs' = DOMAIN subs,
         \A i \in DOMAIN subs : /\ subs'[i].subscriber = subs[i].subscriber
                                /\ subs'[i].merchant = subs[i].merchant
                                /\ subs'[i].token = subs[i].token
  PROVE  ReaderInv'
<1>1. byMerchant' = byMerchant /\ byToken' = byToken /\ reader' = reader
  BY DEF indexVars
<1>2. Standing'
  <2>1. IndexRead' = IndexRead
    BY <1>1 DEF IndexRead
  <2> QED BY <1>1, <2>1 DEF ReaderInv, Standing, Splits
<1>3. SameLists
  BY DEF SameLists
<1> QED BY <1>1, <1>2, <1>3, StillReads

\* Every step keeps what the reader has got exact.
LEMMA ReaderNextKeeps == ReaderInv /\ [DNext]_dirVars => ReaderInv'
<1> SUFFICES ASSUME ReaderInv, [DNext]_dirVars PROVE ReaderInv'
  OBVIOUS
<1>1. DInv /\ DInv' /\ PInv
  BY DNextKeeps DEF ReaderInv, DInv
<1>2. ASSUME NEW c \in Subscribers, NEW m \in Merchants, NEW tok \in Tokens,
             NEW u \in BOOLEAN, NEW t \in Terms, NEW p \in Nat \cup {None},
             StoreSub(c, m, tok, u, t, p), IndexSub(m, tok), reader' = reader
      PROVE  ReaderInv'
  <2> DEFINE s == [subscriber |-> c, merchant |-> m, token |-> tok, usage |-> u,
                   terms |-> t, plan |-> p, stage |-> "open"]
  <2>1. s \in Subscription
    BY StoreSubTyped, Zenon DEF Stages
  <2>2. subs' = Append(subs, s)
    BY <1>2, Zenon DEF StoreSub
  <2>3. s.merchant = m /\ s.token = tok
    OBVIOUS
  <2> HIDE DEF s
  <2> QED BY <1>1, <1>2, <2>1, <2>2, <2>3, ListedReads, Zenon
<1>3. CASE ListedNext
  <2>1. ASSUME NEW c \in Subscribers, NEW m \in Merchants, NEW tok \in Tokens,
               NEW u \in BOOLEAN, NEW t \in Terms, ListedSubscription(c, m, tok, u, t)
        PROVE  ReaderInv'
    BY <1>2, <2>1, Zenon DEF ListedSubscription, CreateSubscription
  <2>2. ASSUME NEW c \in Subscribers, NEW p \in 1 .. MaxPlans,
               ListedSubscriptionFromPlan(c, p)
        PROVE  ReaderInv'
    <3>1. p \in DOMAIN plans
      BY <2>2, Zenon DEF ListedSubscriptionFromPlan, CreateSubscriptionFromPlan
    <3>2. plans[p] \in Template
      BY <1>1, <3>1, TemplateFields DEF PInv
    <3>3. /\ plans[p].merchant \in Merchants /\ plans[p].token \in Tokens
          /\ plans[p].terms \in Terms
      BY <3>2 DEF Template
    <3>4. plans[p].usage \in BOOLEAN
      BY <3>2 DEF Template
    <3>5. p \in Nat \cup {None}
      OBVIOUS
    <3>6. /\ StoreSub(c, plans[p].merchant, plans[p].token, plans[p].usage,
                      plans[p].terms, p)
          /\ IndexSub(plans[p].merchant, plans[p].token) /\ reader' = reader
      BY <2>2, Zenon DEF ListedSubscriptionFromPlan, CreateSubscriptionFromPlan
    <3> QED BY <1>2, <3>3, <3>4, <3>5, <3>6, Zenon
  <2> QED BY <1>3, <2>1, <2>2, Zenon DEF ListedNext
<1>4. CASE ReadNext
  <2>1. ASSUME NEW limit \in Limits, NEW c \in Subscribers,
               StartReading("subscriber", c, limit)
        PROVE  ReaderInv'
    BY <1>1, <2>1, StartReads
  <2>2. ASSUME NEW limit \in Limits, NEW m \in Merchants,
               StartReading("merchant", m, limit)
        PROVE  ReaderInv'
    BY <1>1, <2>2, StartReads
  <2>3. ASSUME NEW limit \in Limits, NEW tok \in Tokens,
               StartReading("token", tok, limit)
        PROVE  ReaderInv'
    BY <1>1, <2>3, StartReads
  <2> QED
    BY <1>1, <1>4, <2>1, <2>2, <2>3, SubscriberPageReads, IndexPageReads, Zenon
       DEF ReadNext
<1>5. CASE ChangeNext /\ UNCHANGED <<indexVars, reader>>
  BY <1>1, <1>5, ChangeKeepsParties, StillStands
<1>6. CASE (PlanNext \/ TokenNext) /\ UNCHANGED <<indexVars, reader>>
  <2>1. subs' = subs
    BY <1>6, Zenon DEF PlanNext, TokenNext, CreatePlanTemplate,
                       CreatePlanTemplateWithToken, UpdatePlanTemplate, StorePlan,
                       AddAcceptedToken, RemoveAcceptedToken
  <2> QED BY <1>1, <1>6, <2>1, StillStands
<1>7. CASE UNCHANGED dirVars
  <2>1. UNCHANGED <<indexVars, reader>> /\ subs' = subs
    BY <1>7 DEF dirVars, planVars
  <2> QED BY <1>1, <2>1, StillStands
<1> QED
  BY <1>3, <1>4, <1>5, <1>6, <1>7, Zenon DEF DNext

(***************************************************************************)
(* Whoever pages through the subscriptions of a subscriber, a merchant or  *)
(* a token gets every one of them, once and in order, for any page size    *)
(* and scan budget and whatever is created between two pages               *)
(* (list_subscriptions_by_subscriber and the slices of the two indices).   *)
(***************************************************************************)
THEOREM ReadingTheorem == DSpec => []ReadingExact
<1>1. ReaderInv => ReadingExact
  BY DEF ReaderInv
<1> QED BY <1>1, ReaderInitInv, ReaderNextKeeps, PTL DEF DSpec

-------------------------------------------------------------------------------
(***************************************************************************)
(* Metadata.  The key list is read and written as a sequence, the values   *)
(* as entries of their own: the invariant adds to MetadataConsistent that  *)
(* they are one, and what deleting from the middle of a list leaves.       *)
(***************************************************************************)
KeySet(ks) == {ks[i] : i \in DOMAIN ks}
Distinct(ks) == \A i, j \in DOMAIN ks : ks[i] = ks[j] => i = j

MetaType ==
  /\ metaKeys \in [1 .. MaxSubs -> Seq(MetaKeys)]
  /\ DOMAIN metaValues = 1 .. MaxSubs

MetaInv == MetaType /\ MetadataConsistent

\* A new key at the end of a list.
LEMMA KeyAppended ==
  ASSUME NEW ks \in Seq(MetaKeys), Distinct(ks), NEW key \in MetaKeys,
         key \notin KeySet(ks)
  PROVE  LET r == Append(ks, key) IN
         /\ r \in Seq(MetaKeys) /\ Len(r) = Len(ks) + 1 /\ Distinct(r)
         /\ KeySet(r) = KeySet(ks) \cup {key}
<1> DEFINE r == Append(ks, key)
           n == Len(ks)
<1>1. /\ r \in Seq(MetaKeys) /\ Len(r) = n + 1 /\ n \in Nat
      /\ DOMAIN ks = 1 .. n /\ DOMAIN r = 1 .. (n + 1)
      /\ r[n + 1] = key /\ \A i \in 1 .. n : r[i] = ks[i]
  OBVIOUS
<1> HIDE DEF r, n
<1>2. DOMAIN r = DOMAIN ks \cup {n + 1} /\ \A i \in DOMAIN ks : ks[i] # key
  BY <1>1 DEF KeySet
<1>3. Distinct(r)
  BY <1>1, <1>2 DEF Distinct
<1>4. KeySet(r) = KeySet(ks) \cup {key}
  BY <1>1, <1>2 DEF KeySet
<1> QED
  BY <1>1, <1>3, <1>4 DEF r, n

\* Taking a key out keeps the others, once each.
LEMMA KeyRemoved ==
  ASSUME NEW ks \in Seq(MetaKeys), Distinct(ks), NEW key, key \in KeySet(ks)
  PROVE  LET r == WithoutKey(ks, key) IN
         /\ r \in Seq(MetaKeys) /\ Len(r) = Len(ks) - 1 /\ Distinct(r)
         /\ KeySet(r) = KeySet(ks) \ {key}
<1> DEFINE r == WithoutKey(ks, key)
           n == Len(ks)
           First(i) == ks[i] = key /\ \A j \in 1 .. (i - 1) : ks[j] # key
           at == CHOOSE i \in DOMAIN ks : First(i)
<1>1. n \in Nat /\ DOMAIN ks = 1 .. n
  OBVIOUS
<1>2. \E i \in DOMAIN ks : First(i)
  <2>1. PICK i \in DOMAIN ks : ks[i] = key
    BY DEF KeySet
  <2>2. \A j \in 1 .. (i - 1) : ks[j] # key
    BY <1>1, <2>1 DEF Distinct
  <2> QED BY <2>1, <2>2
<1>3. at \in DOMAIN ks /\ First(at)
  BY <1>2
<1>4. r = SubSeq(ks, 1, at - 1) \o SubSeq(ks, at + 1, n)
  BY DEF WithoutKey
<1> HIDE DEF r, at, n
<1>5. /\ at \in 1 .. n /\ ks[at] = key
      /\ SubSeq(ks, 1, at - 1) \in Seq(MetaKeys)
      /\ SubSeq(ks, at + 1, n) \in Seq(MetaKeys)
      /\ Len(SubSeq(ks, 1, at - 1)) = at - 1
      /\ Len(SubSeq(ks, at + 1, n)) = n - at
      /\ \A j \in 1 .. (at - 1) : SubSeq(ks, 1, at - 1)[j] = ks[j]
      /\ \A j \in 1 .. (n - at) : SubSeq(ks, at + 1, n)[j] = ks[at + j]
  <2>1. at \in 1 .. n /\ ks[at] = key
    BY <1>1, <1>3
  <2>2. ks \in Seq(MetaKeys) /\ n = Len(ks) /\ n \in Nat
    BY <1>1 DEF n
  <2>3. /\ SubSeq(ks, 1, at - 1) \in Seq(MetaKeys)
        /\ Len(SubSeq(ks, 1, at - 1)) = at - 1
        /\ \A j \in 1 .. (at - 1) : SubSeq(ks, 1, at - 1)[j] = ks[j]
    BY <2>1, <2>2
  <2>4. /\ SubSeq(ks, at + 1, n) \in Seq(MetaKeys)
        /\ Len(SubSeq(ks, at + 1, n)) = n - at
        /\ \A j \in 1 .. (n - at) : SubSeq(ks, at + 1, n)[j] = ks[at + j]
    BY <2>1, <2>2
  <2> QED BY <2>1, <2>3, <2>4
<1>6. /\ r \in Seq(MetaKeys) /\ Len(r) = n - 1 /\ DOMAIN r = 1 .. (n - 1)
      /\ \A j \in 1 .. (n - 1) : r[j] = IF j < at THEN ks[j] ELSE ks[j + 1]
  <2>1. PICK u, v : u = SubSeq(ks, 1, at - 1) /\ v = SubSeq(ks, at + 1, n)
    OBVIOUS
  <2>2. /\ u \in Seq(MetaKeys) /\ v \in Seq(MetaKeys)
        /\ Len(u) = at - 1 /\ Len(v) = n - at
        /\ \A j \in 1 .. (at - 1) : u[j] = ks[j]
        /\ \A j \in 1 .. (n - at) : v[j] = ks[at + j]
    BY <1>5, <2>1, Zenon
  <2>3. r = u \o v
    BY <1>4, <2>1
  <2>4. /\ r \in Seq(MetaKeys) /\ Len(r) = n - 1
        /\ \A j \in 1 .. (n - 1) :
             r[j] = IF j <= at - 1 THEN u[j] ELSE v[j - (at - 1)]
    <3>1. at - 1 \in Nat /\ n - at \in Nat /\ (at - 1) + (n - at) = n - 1
      BY <1>1, <1>5
    <3>2. /\ u \o v \in Seq(MetaKeys) /\ Len(u \o v) = Len(u) + Len(v)
          /\ \A j \in 1 .. (Len(u) + Len(v)) :
               (u \o v)[j] = IF j <= Len(u) THEN u[j] ELSE v[j - Len(u)]
      <4>1. u \in Seq(MetaKeys) /\ v \in Seq(MetaKeys)
        BY <2>2
      <4> QED BY <4>1, ConcatProperties, Zenon
    <3> QED BY <2>2, <2>3, <3>1, <3>2, Zenon
  <2>5. DOMAIN r = 1 .. (n - 1)
    BY <2>4
  <2>6. ASSUME NEW j \in 1 .. (n - 1)
        PROVE  r[j] = IF j < at THEN ks[j] ELSE ks[j + 1]
    <3>1. CASE j < at
      <4>1. j <= at - 1 /\ j \in 1 .. (at - 1)
        BY <1>1, <1>5, <3>1
      <4>2. r[j] = u[j] /\ u[j] = ks[j]
        BY <2>2, <2>4, <4>1, Zenon
      <4> QED BY <3>1, <4>2, Zenon
    <3>2. CASE ~(j < at)
      <4>1. j - (at - 1) \in 1 .. (n - at) /\ at + (j - (at - 1)) = j + 1
        BY <1>1, <1>5, <3>2
      <4>2. v[j - (at - 1)] = ks[j + 1]
        BY <2>2, <4>1
      <4> QED BY <1>1, <1>5, <2>4, <3>2, <4>2
    <3> QED BY <3>1, <3>2
  <2> QED BY <2>4, <2>5, <2>6
<1> DEFINE To(j) == IF j < at THEN j ELSE j + 1
<1>a. \A j \in 1 .. (n - 1) : To(j) \in 1 .. n /\ To(j) # at /\ r[j] = ks[To(j)]
  BY <1>1, <1>5, <1>6
<1>b. \A j, k \in 1 .. (n - 1) : To(j) = To(k) => j = k
  BY <1>1, <1>5
<1> HIDE DEF To
<1>7. Distinct(r)
  BY <1>1, <1>6, <1>a, <1>b DEF Distinct
<1>8. KeySet(r) = KeySet(ks) \ {key}
  <2>1. ASSUME NEW j \in 1 .. (n - 1)
        PROVE  r[j] \in KeySet(ks) /\ r[j] # key
    BY <1>1, <1>5, <1>a DEF KeySet, Distinct
  <2>2. ASSUME NEW i \in 1 .. n, ks[i] # key
        PROVE  \E j \in 1 .. (n - 1) : r[j] = ks[i]
    <3>1. CASE i < at
      <4>1. i \in 1 .. (n - 1) /\ r[i] = ks[i]
        BY <1>1, <1>5, <1>6, <3>1
      <4> QED BY <4>1
    <3>2. CASE i > at
      <4>1. i - 1 \in 1 .. (n - 1) /\ r[i - 1] = ks[i]
        BY <1>1, <1>5, <1>6, <3>2
      <4> QED BY <4>1
    <3> QED BY <1>1, <1>5, <2>2, <3>1, <3>2
  <2>3. KeySet(r) = {r[j] : j \in 1 .. (n - 1)} /\ KeySet(ks) = {ks[i] : i \in 1 .. n}
    BY <1>1, <1>6 DEF KeySet
  <2>4. KeySet(r) \subseteq KeySet(ks) \ {key}
    BY <2>1, <2>3
  <2>5. KeySet(ks) \ {key} \subseteq KeySet(r)
    BY <2>2, <2>3
  <2> QED BY <2>4, <2>5
<1> QED
  BY <1>6, <1>7, <1>8 DEF r, n

\* The list of one subscription and its entries agree.
Consistent(ks, vs) ==
  /\ DOMAIN vs = KeySet(ks) /\ Len(ks) <= MAX_METADATA_KEYS /\ Distinct(ks)

\* MetadataConsistent, one subscription at a time.
LEMMA ConsistentEach ==
  MetadataConsistent <=>
    \A id \in 1 .. MaxSubs : Consistent(metaKeys[id], metaValues[id])
  BY Zenon DEF MetadataConsistent, Consistent, KeySet, Keys, Distinct

\* A change of one subscription's list and entries that leaves them agreeing.
LEMMA OneListChanges ==
  ASSUME MetaInv, NEW id \in 1 .. MaxSubs, NEW ks \in Seq(MetaKeys), NEW vs,
         Consistent(ks, vs),
         metaKeys' = [metaKeys EXCEPT ![id] = ks],
         metaValues' = [metaValues EXCEPT ![id] = vs]
  PROVE  MetaInv'
<1>1. MetaType /\ \A j \in 1 .. MaxSubs : Consistent(metaKeys[j], metaValues[j])
  BY ConsistentEach DEF MetaInv
<1>2. MetaType'
  BY <1>1 DEF MetaType
<1>3. /\ metaKeys'[id] = ks /\ metaValues'[id] = vs
      /\ \A j \in 1 .. MaxSubs : j # id =>
           metaKeys'[j] = metaKeys[j] /\ metaValues'[j] = metaValues[j]
  BY <1>1 DEF MetaType
<1>4. \A j \in 1 .. MaxSubs : Consistent(metaKeys'[j], metaValues'[j])
  BY <1>1, <1>3, Zenon
<1>5. MetadataConsistent'
  BY <1>4, Zenon DEF MetadataConsistent, Consistent, KeySet, Keys, Distinct
<1> QED
  BY <1>2, <1>5 DEF MetaInv

\* Setting a key, new or known, keeps list and entries in agreement.
LEMMA SetKeeps ==
  ASSUME MetaInv, NEW id \in 1 .. MaxSubs, NEW key \in MetaKeys, NEW value,
         SetMetadata(id, key, value)
  PROVE  MetaInv'
<1> DEFINE ks == metaKeys[id]
           vs == metaValues[id]
           new == WithKey(id, key)
           ws == [k \in DOMAIN vs \cup {key} |-> IF k = key THEN value ELSE vs[k]]
<1>1. ks \in Seq(MetaKeys) /\ Consistent(ks, vs) /\ id \in DOMAIN metaValues
  BY ConsistentEach DEF MetaInv, MetaType
<1>2. /\ metaKeys' = [metaKeys EXCEPT ![id] = new]
      /\ metaValues' = [metaValues EXCEPT ![id] = ws]
      /\ key \notin KeySet(ks) => Len(ks) < MAX_METADATA_KEYS
      /\ new = IF key \in KeySet(ks) THEN ks ELSE Append(ks, key)
  BY <1>1 DEF SetMetadata, WithKey, Keys, KeySet
<1>3. DOMAIN ws = DOMAIN vs \cup {key}
  OBVIOUS
<1>4. new \in Seq(MetaKeys) /\ Consistent(new, ws)
  <2> HIDE DEF ks, vs, ws, new
  <2>1. CASE key \in KeySet(ks)
    <3>1. new = ks /\ DOMAIN ws = KeySet(ks)
      BY <1>1, <1>2, <1>3, <2>1 DEF Consistent
    <3> QED BY <1>1, <3>1 DEF Consistent
  <2>2. CASE key \notin KeySet(ks)
    <3>1. new = Append(ks, key)
      BY <1>2, <2>2
    <3>2. /\ new \in Seq(MetaKeys) /\ Len(new) = Len(ks) + 1 /\ Distinct(new)
          /\ KeySet(new) = KeySet(ks) \cup {key}
      BY <1>1, <2>2, <3>1, KeyAppended DEF Consistent
    <3>3. Len(ks) < MAX_METADATA_KEYS /\ Len(ks) \in Nat
      BY <1>1, <1>2, <2>2
    <3>4. Len(new) <= MAX_METADATA_KEYS
      BY <3>2, <3>3, MetadataAssumption
    <3> QED BY <1>1, <1>3, <3>2, <3>4 DEF Consistent
  <2> QED BY <2>1, <2>2
<1> HIDE DEF ks, vs, ws, new
<1> QED
  BY <1>2, <1>4, OneListChanges

\* Deleting a key takes it out of both.
LEMMA DeleteKeeps ==
  ASSUME MetaInv, NEW id \in 1 .. MaxSubs, NEW key \in MetaKeys,
         DeleteMetadata(id, key)
  PROVE  MetaInv'
<1> DEFINE ks == metaKeys[id]
           vs == metaValues[id]
           new == WithoutKey(ks, key)
           ws == [k \in DOMAIN vs \ {key} |-> vs[k]]
<1>1. ks \in Seq(MetaKeys) /\ Consistent(ks, vs)
  BY ConsistentEach DEF MetaInv, MetaType
<1>2. /\ metaKeys' = [metaKeys EXCEPT ![id] = new]
      /\ metaValues' = [metaValues EXCEPT ![id] = ws]
      /\ key \in KeySet(ks)
  BY DEF DeleteMetadata, Keys, KeySet, MetaInv, MetaType
<1>3. DOMAIN ws = DOMAIN vs \ {key}
  OBVIOUS
<1>4. new \in Seq(MetaKeys) /\ Consistent(new, ws)
  <2>1. /\ new \in Seq(MetaKeys) /\ Len(new) = Len(ks) - 1 /\ Distinct(new)
        /\ KeySet(new) = KeySet(ks) \ {key}
    BY <1>1, <1>2, KeyRemoved DEF Consistent
  <2> HIDE DEF ks, vs, ws, new
  <2>2. Len(new) <= MAX_METADATA_KEYS
    BY <1>1, <2>1, MetadataAssumption DEF Consistent
  <2> QED BY <1>1, <1>3, <2>1, <2>2 DEF Consistent
<1> HIDE DEF ks, vs, ws, new
<1> QED
  BY <1>2, <1>4, OneListChanges

(***************************************************************************)
(* The key list and the entries agree, without duplicates and within the   *)
(* limit, for every set of keys, every limit and every order of sets,      *)
(* overwrites and deletes.                                                 *)
(***************************************************************************)
THEOREM MetadataTheorem == MetaSpec => []MetadataConsistent
<1>1. MetaInit => MetaInv
  <2> SUFFICES ASSUME MetaInit PROVE MetaInv
    OBVIOUS
  <2>1. << >> \in Seq(MetaKeys) /\ DOMAIN << >> = {} /\ Len(<< >>) = 0
    OBVIOUS
  <2>2. MetaType /\ \A id \in 1 .. MaxSubs : metaKeys[id] = << >> /\ metaValues[id] = << >>
    BY <2>1 DEF MetaInit, MetaType
  <2>3. Consistent(<< >>, << >>)
    BY <2>1, MetadataAssumption DEF Consistent, KeySet, Distinct
  <2> QED BY <2>2, <2>3, ConsistentEach DEF MetaInv
<1>2. MetaInv /\ [MetaNext \/ (PNext /\ UNCHANGED metaVars)]_<<planVars, metaVars>>
        => MetaInv'
  <2>1. MetaInv /\ UNCHANGED metaVars => MetaInv'
    BY DEF metaVars, MetaInv, MetaType, MetadataConsistent, Keys
  <2>2. MetaInv /\ MetaNext => MetaInv'
    BY SetKeeps, DeleteKeeps DEF MetaNext
  <2> QED BY <2>1, <2>2
<1>3. MetaInv => MetadataConsistent
  BY DEF MetaInv
<1> QED
  BY <1>1, <1>2, <1>3, PTL DEF MetaSpec
===============================================================================
