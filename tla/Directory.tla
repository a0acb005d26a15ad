------------------------------- MODULE Directory -------------------------------
(***************************************************************************)
(* The lists of subscriptions: the merchant and token indices that         *)
(* creation maintains, the scan that lists a subscriber's subscriptions,   *)
(* and a reader that pages through one of them while subscriptions are     *)
(* created.                                                                *)
(***************************************************************************)
EXTENDS PlanTemplates, FiniteSets

CONSTANTS
  MAX_SCAN_DEPTH,  \* ids one call looks at
  Limits           \* page sizes callers ask for, 1 .. MAX_SUBSCRIPTION_LIST_PAGE

ASSUME DirectoryAssumption ==
  MAX_SCAN_DEPTH \in Nat \ {0} /\ Limits \subseteq Nat \ {0}

VARIABLES
  byMerchant,  \* MerchantSubs(merchant)
  byToken,     \* TokenSubs(token)
  reader       \* a client paging through a list

indexVars == <<byMerchant, byToken>>
dirVars   == <<planVars, indexVars, reader>>

NoReader == [list |-> "none", of |-> None, limit |-> 0, at |-> 0, upto |-> 0,
             got |-> << >>]

DInit ==
  /\ PInit
  /\ byMerchant = [m \in Merchants |-> << >>]
  /\ byToken = [tok \in Tokens |-> << >>]
  /\ reader = NoReader

-------------------------------------------------------------------------------
\* Leaves the merchant's list alone.
IndexSubByToken(m, tok) ==
  /\ byMerchant' = byMerchant
  /\ byToken' = [byToken EXCEPT ![tok] = Append(@, Len(subs) + 1)]

\* The new subscription goes to the end of both lists.
IndexSub(m, tok) ==
  /\ byMerchant' = [byMerchant EXCEPT ![m] = Append(@, Len(subs) + 1)]
  /\ byToken' = [byToken EXCEPT ![tok] = Append(@, Len(subs) + 1)]

ListedSubscription(c, m, tok, usage, terms) ==
  /\ CreateSubscription(c, m, tok, usage, terms)
  /\ IndexSub(m, tok)
  /\ UNCHANGED reader

ListedSubscriptionFromPlan(c, p) ==
  /\ CreateSubscriptionFromPlan(c, p)
  /\ IndexSub(plans[p].merchant, plans[p].token)
  /\ UNCHANGED reader

-------------------------------------------------------------------------------
(***************************************************************************)
(* Reading a page.                                                         *)
(***************************************************************************)
Least(a, b) == IF a < b THEN a ELSE b
NextSubId == Len(subs) + 1

Increasing(ids) == \A i, j \in DOMAIN ids : i < j => ids[i] < ids[j]
Elements(ids) == {ids[i] : i \in DOMAIN ids}

\* The ids of a set in the order in which a scan meets them.
Ascending(S) ==
  CHOOSE ids \in [1 .. Cardinality(S) -> S] : Increasing(ids) /\ Elements(ids) = S

\* list_subscriptions_by_subscriber: the matching ids of the scanned window,
\* and where to resume: at the match that did not fit, or at the end of the
\* window, or nowhere.
ScanEnd(start) == Least(start + MAX_SCAN_DEPTH, NextSubId)
Matches(c, start) ==
  Ascending({id \in start .. (ScanEnd(start) - 1) : subs[id].subscriber = c})

\* Resumes behind the match that did not fit.
ResumeAtSkipping(c, start, limit) ==
  LET found == Matches(c, start) IN
  IF Len(found) > limit THEN found[limit + 1] + 1
  ELSE IF ScanEnd(start) < NextSubId THEN ScanEnd(start) ELSE None

ResumeAt(c, start, limit) ==
  LET found == Matches(c, start) IN
  IF Len(found) > limit THEN found[limit + 1]
  ELSE IF ScanEnd(start) < NextSubId THEN ScanEnd(start) ELSE None

\* get_subscriptions_by_merchant and _by_token: a slice of the index.
IndexPage(ids, start, limit) ==
  SubSeq(ids, start, Least(start + limit - 1, Len(ids)))

StartReading(list, of, limit) ==
  /\ reader.at \in {0, None}
  /\ reader' = [list |-> list, of |-> of, limit |-> limit, at |-> 1, upto |-> 0,
                got |-> << >>]
  /\ UNCHANGED <<planVars, indexVars>>

ReadSubscriberPage ==
  LET r == reader IN
  /\ r.list = "subscriber" /\ r.at \notin {0, None}
  /\ LET found == Matches(r.of, r.at)
         next  == ResumeAt(r.of, r.at, r.limit)
     IN  reader' = [r EXCEPT !.got = @ \o SubSeq(found, 1, Least(r.limit, Len(found))),
                             !.at = next,
                             !.upto = (IF next = None THEN Len(subs) ELSE next - 1)]
  /\ UNCHANGED <<planVars, indexVars>>

\* The client asks for the next slice until one is not full.
ReadIndexPage ==
  LET r == reader
      ids == IF r.list = "merchant" THEN byMerchant[r.of] ELSE byToken[r.of]
      page == IndexPage(ids, r.at, r.limit)
      full == Len(page) = r.limit
      next == r.at + r.limit
  IN
  /\ r.list \in {"merchant", "token"} /\ r.at \notin {0, None}
  /\ reader' = [r EXCEPT !.got = @ \o page, !.at = (IF full THEN next ELSE None),
                         !.upto = (IF full THEN ids[next - 1] ELSE Len(subs))]
  /\ UNCHANGED <<planVars, indexVars>>

ListedNext ==
  \E c \in Subscribers :
    \/ \E m \in Merchants, tok \in Tokens, u \in BOOLEAN, t \in Terms :
         ListedSubscription(c, m, tok, u, t)
    \/ \E p \in 1 .. MaxPlans : ListedSubscriptionFromPlan(c, p)

ReadNext ==
  \/ \E limit \in Limits :
       \/ \E c \in Subscribers : StartReading("subscriber", c, limit)
       \/ \E m \in Merchants : StartReading("merchant", m, limit)
       \/ \E tok \in Tokens : StartReading("token", tok, limit)
  \/ ReadSubscriberPage
  \/ ReadIndexPage

DNext ==
  \/ ListedNext
  \/ ReadNext
  \/ (PlanNext \/ ChangeNext \/ TokenNext) /\ UNCHANGED <<indexVars, reader>>

DSpec == DInit /\ [][DNext]_dirVars

-------------------------------------------------------------------------------
(***************************************************************************)
(* The two indices list every subscription of a merchant or a token, once  *)
(* and in the order of creation, whichever path created it and however its *)
(* plan changed since.                                                     *)
(***************************************************************************)
IndexExact ==
  /\ \A m \in Merchants :
       /\ Increasing(byMerchant[m])
       /\ Elements(byMerchant[m]) = {id \in DOMAIN subs : subs[id].merchant = m}
  /\ \A tok \in Tokens :
       /\ Increasing(byToken[tok])
       /\ Elements(byToken[tok]) = {id \in DOMAIN subs : subs[id].token = tok}

Listed(id) ==
  CASE reader.list = "subscriber" -> subs[id].subscriber = reader.of
    [] reader.list = "merchant"   -> subs[id].merchant = reader.of
    [] OTHER                      -> subs[id].token = reader.of

(***************************************************************************)
(* queries.rs: the scan cap "does not affect correctness".  What a reader  *)
(* has got is every subscription of its list up to where it stands, once   *)
(* and in order, whatever was created between its pages; and when it is    *)
(* told there is no more, it stands at the last subscription.              *)
(***************************************************************************)
ReadingExact ==
  reader.at # 0 => /\ Increasing(reader.got)
                   /\ Elements(reader.got) = {id \in 1 .. reader.upto : Listed(id)}
                   /\ reader.upto \in 0 .. Len(subs)
===============================================================================
