----------------------------- MODULE PlanTemplates -----------------------------
(***************************************************************************)
(* Plan templates, their versions, and the subscriptions linked to them.   *)
(*                                                                         *)
(* Module Vault takes the templates on chain as given; here merchants      *)
(* create and update them while subscribers subscribe and migrate.  Money, *)
(* time, the blocklist and the limits are left to Vault: they only make a  *)
(* call of this module fail, and a call that fails writes nothing.         *)
(*                                                                         *)
(* Ids count from one: id k of the code is element k + 1 of a sequence.    *)
(***************************************************************************)
EXTENDS Integers, Sequences

CONSTANTS
  Subscribers, Merchants, Tokens, DefaultToken,
  None,              \* Rust's None
  Terms,             \* commercial terms: amount, interval and lifetime cap
  MaxPlans, MaxSubs  \* bounds on what is created; both ids are u32

ASSUME CatalogAssumption ==
  DefaultToken \in Tokens /\ None \notin Nat /\ MaxPlans \in Nat /\ MaxSubs \in Nat

VARIABLES
  accepted,  \* AcceptedTokens
  plans,     \* Plan(id)
  subs       \* Sub(id) and SubPlan(id)

planVars == <<accepted, plans, subs>>

\* A subscription's status, as far as these handlers tell them apart.
Stages == {"open", "cancelled", "archived"}

Template ==
  [merchant: Merchants, token: Tokens, usage: BOOLEAN, terms: Terms,
   key: Nat, version: Nat]
Subscription ==
  [subscriber: Subscribers, merchant: Merchants, token: Tokens,
   usage: BOOLEAN, terms: Terms, plan: Nat \cup {None}, stage: Stages]

PTypeOK ==
  /\ accepted \subseteq Tokens
  /\ plans \in Seq(Template)
  /\ subs \in Seq(Subscription)

PInit == accepted = {DefaultToken} /\ plans = << >> /\ subs = << >>

-------------------------------------------------------------------------------
\* next_plan_id, and the new template under it.
StorePlan(m, tok, usage, terms, key, version) ==
  /\ Len(plans) < MaxPlans
  /\ plans' = Append(plans, [merchant |-> m, token |-> tok, usage |-> usage,
                             terms |-> terms, key |-> key, version |-> version])
  /\ UNCHANGED <<accepted, subs>>

CreatePlanTemplate(m, usage, terms) ==
  StorePlan(m, DefaultToken, usage, terms, Len(plans) + 1, 1)

CreatePlanTemplateWithToken(m, tok, usage, terms) ==
  /\ tok \in accepted
  /\ StorePlan(m, tok, usage, terms, Len(plans) + 1, 1)

\* Whoever asks, also about another merchant's plan.
MayUpdateAnyones(m, p, usage) == plans[p].usage = usage

\* The merchant of the plan; the usage flag cannot change.
MayUpdate(m, p, usage) == plans[p].merchant = m /\ plans[p].usage = usage

\* A new template of the family of p, one version after p: p need not be the
\* latest, and it stays as it is.  The token need not be accepted any more.
UpdatePlanTemplate(m, p, usage, terms) ==
  /\ p \in DOMAIN plans
  /\ MayUpdate(m, p, usage)
  /\ StorePlan(m, plans[p].token, usage, terms, plans[p].key,
               plans[p].version + 1)

-------------------------------------------------------------------------------
StoreSub(c, m, tok, usage, terms, plan) ==
  /\ Len(subs) < MaxSubs
  /\ subs' = Append(subs, [subscriber |-> c, merchant |-> m, token |-> tok,
                           usage |-> usage, terms |-> terms, plan |-> plan,
                           stage |-> "open"])
  /\ UNCHANGED <<accepted, plans>>

CreateSubscription(c, m, tok, usage, terms) ==
  /\ tok \in accepted
  /\ StoreSub(c, m, tok, usage, terms, None)

CreateSubscriptionFromPlan(c, p) ==
  /\ p \in DOMAIN plans
  /\ StoreSub(c, plans[p].merchant, plans[p].token, plans[p].usage,
              plans[p].terms, p)

\* Any newer version, of whatever family.
NewerAnywhere(from, to) == plans[to].version > plans[from].version

\* A later version of the same family.
Newer(from, to) ==
  /\ plans[to].key = plans[from].key
  /\ plans[to].version > plans[from].version

\* By the subscriber, in any status.  Token and usage flag are compared with
\* the subscription; the merchant is not.
MigrateSubscriptionToPlan(id, p) ==
  /\ id \in DOMAIN subs /\ p \in DOMAIN plans
  /\ subs[id].plan # None
  /\ Newer(subs[id].plan, p)
  /\ plans[p].token = subs[id].token
  /\ plans[p].usage = subs[id].usage
  /\ subs' = [subs EXCEPT ![id].terms = plans[p].terms, ![id].plan = p]
  /\ UNCHANGED <<accepted, plans>>

\* cancel_subscription.
CancelSubscription(id) ==
  /\ id \in DOMAIN subs /\ subs[id].stage = "open"
  /\ subs' = [subs EXCEPT ![id].stage = "cancelled"]
  /\ UNCHANGED <<accepted, plans>>

\* cleanup_subscription.  Only a subscription without a plan has an expiry, at
\* a time that is left out here.
CleanupSubscription(id) ==
  /\ id \in DOMAIN subs
  /\ \/ subs[id].stage = "cancelled"
     \/ subs[id].stage = "open" /\ subs[id].plan = None
  /\ subs' = [subs EXCEPT ![id].stage = "archived"]
  /\ UNCHANGED <<accepted, plans>>

AddAcceptedToken(tok) ==
  accepted' = accepted \cup {tok} /\ UNCHANGED <<plans, subs>>
RemoveAcceptedToken(tok) ==
  /\ tok # DefaultToken
  /\ accepted' = accepted \ {tok} /\ UNCHANGED <<plans, subs>>

-------------------------------------------------------------------------------
PlanNext ==
  \E m \in Merchants, u \in BOOLEAN, t \in Terms :
    \/ CreatePlanTemplate(m, u, t)
    \/ \E tok \in Tokens : CreatePlanTemplateWithToken(m, tok, u, t)
    \/ \E p \in 1 .. MaxPlans : UpdatePlanTemplate(m, p, u, t)

SubscribeNext ==
  \E c \in Subscribers :
    \/ \E m \in Merchants, tok \in Tokens, u \in BOOLEAN, t \in Terms :
         CreateSubscription(c, m, tok, u, t)
    \/ \E p \in 1 .. MaxPlans : CreateSubscriptionFromPlan(c, p)

ChangeNext ==
  \E id \in 1 .. MaxSubs :
    \/ CancelSubscription(id) \/ CleanupSubscription(id)
    \/ \E p \in 1 .. MaxPlans : MigrateSubscriptionToPlan(id, p)

TokenNext == \E tok \in Tokens : AddAcceptedToken(tok) \/ RemoveAcceptedToken(tok)

PNext == PlanNext \/ SubscribeNext \/ ChangeNext \/ TokenNext

PSpec == PInit /\ [][PNext]_planVars

-------------------------------------------------------------------------------
(***************************************************************************)
(* plan_versioning.md: the versions of a family share the merchant, the    *)
(* token and the usage flag of its first template, whose id is the         *)
(* template_key, whichever version each of them was made from.             *)
(***************************************************************************)
FamilyUniform ==
  \A p \in DOMAIN plans :
    LET root == plans[p].key IN
    /\ root \in 1 .. p
    /\ plans[root].key = root /\ plans[root].version = 1
    /\ plans[p].merchant = plans[root].merchant
    /\ plans[p].token = plans[root].token
    /\ plans[p].usage = plans[root].usage
    /\ plans[p].version = 1 => p = root

(***************************************************************************)
(* A subscription linked to a plan has that plan's merchant, token, usage  *)
(* flag and terms, also after any number of migrations: do_migrate does    *)
(* not compare the merchant, and the family alone makes it the same.       *)
(***************************************************************************)
PinnedToPlan ==
  \A id \in DOMAIN subs : LET s == subs[id] IN
    s.plan # None =>
      /\ s.plan \in DOMAIN plans
      /\ s.merchant = plans[s.plan].merchant
      /\ s.token = plans[s.plan].token
      /\ s.usage = plans[s.plan].usage
      /\ s.terms = plans[s.plan].terms
===============================================================================
