-------------------------------- MODULE MCTerms --------------------------------
(***************************************************************************)
(* Vault with changing terms.  A behaviour is about prices (one            *)
(* subscription, with fees, the oracle and default caps) or about limits   *)
(* (two subscriptions, with credit limits, a plan limit and the token      *)
(* list).                                                                  *)
(***************************************************************************)
EXTENDS MCVault

VARIABLE part

\* Tokens sent directly to the vault change neither prices nor limits.
NothingStranded == vault[usdc] <= accounted[usdc]

OnlyPrices ==
  /\ nextId <= 1 /\ \A id \in DOMAIN subs : subs[id].plan = None
  /\ batch \in {<< >>, <<0>>}
  /\ config.accepted \subseteq {usdc}
  /\ \A c \in Subscribers, tok \in Tokens : config.credit_limit[c][tok] = 0
  /\ \A p \in DOMAIN Plans : config.plan_max[p] = 0

\* A default cap matters until the one subscription of the part is created.
DefaultsStay ==
  nextId = 1 => /\ config'.cap_default = config.cap_default
                /\ config'.merch_cap = config.merch_cap

\* Payouts do not change an exposure.
NoPayout ==
  LET e == earnings[shop][usdc]
  IN  balance[shop][usdc] = e["interval"] + e["usage"] + e["one_off"]

OnlyLimits ==
  /\ now <= 2 /\ outside[usdc] >= 2 /\ Idle /\ NoPayout
  /\ config.treasury = None /\ config.oracle = [enabled |-> FALSE, max_age |-> 0]
  /\ config.cap_default = None /\ \A m \in Merchants : config.merch_cap[m] = None

PartInit == Init /\ part \in {"prices", "limits"}
PartNext ==
  /\ CoreNext \/ TermsNext
  /\ NothingStranded'
  /\ part = "prices" => OnlyPrices' /\ DefaultsStay
  /\ part = "limits" => OnlyLimits'
  /\ UNCHANGED part

TermsSpec == PartInit /\ [][PartNext]_<<vars, part>>
===============================================================================
