------------------------------- MODULE MCCatalog -------------------------------
(***************************************************************************)
(* Plan templates, the directory and the metadata.  They only share the    *)
(* subscriptions, so a behaviour exercises one of three parts: templates   *)
(* and one subscription that migrates between them, several subscriptions  *)
(* and a reader of their lists, or metadata.                               *)
(***************************************************************************)
EXTENDS Directory, Metadata

CONSTANTS alice, bob, shop, cafe, usdc, eurc

VARIABLE part

MCInit == DInit /\ MetaInit /\ part \in {"plans", "lists", "metadata"}

PlansPart ==
  /\ \/ (PlanNext \/ ChangeNext \/ TokenNext) /\ UNCHANGED <<indexVars, reader>>
     \/ \E p \in 1 .. MaxPlans :
          subs = << >> /\ ListedSubscriptionFromPlan(alice, p)
  /\ UNCHANGED metaVars

ListsPart ==
  /\ \/ ReadNext
     \/ \E c \in Subscribers, m \in Merchants, tok \in Tokens :
          ListedSubscription(c, m, tok, FALSE, "basic")
     \/ AddAcceptedToken(eurc) /\ UNCHANGED <<indexVars, reader>>
  /\ UNCHANGED metaVars

MetadataPart ==
  \/ MetaNext /\ UNCHANGED <<indexVars, reader>>
  \/ /\ \/ ListedSubscription(alice, shop, usdc, FALSE, "basic")
        \/ \E id \in 1 .. MaxSubs :
             /\ CancelSubscription(id) \/ CleanupSubscription(id)
             /\ UNCHANGED <<indexVars, reader>>
     /\ UNCHANGED metaVars

MCNext ==
  /\ \/ part = "plans" /\ PlansPart
     \/ part = "lists" /\ ListsPart
     \/ part = "metadata" /\ MetadataPart
  /\ UNCHANGED part

MCSpec == MCInit /\ [][MCNext]_<<dirVars, metaVars, part>>
===============================================================================
