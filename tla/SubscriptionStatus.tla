-------------------------- MODULE SubscriptionStatus --------------------------
(***************************************************************************)
(* The life cycle of a subscription: the seven statuses of                 *)
(* SubscriptionStatus and the transition relation that                     *)
(* state_machine.rs:validate_status_transition lets through. The handlers  *)
(* consult it before they write a status, except for the top-up that       *)
(* revives a subscription (DepositFunds in module Vault).                  *)
(***************************************************************************)

Active              == "Active"
Paused              == "Paused"
Cancelled           == "Cancelled"
InsufficientBalance == "InsufficientBalance"
GracePeriod         == "GracePeriod"
Expired             == "Expired"
Archived            == "Archived"

Statuses == {Active, Paused, Cancelled, InsufficientBalance, GracePeriod,
             Expired, Archived}

\* The arms of the match on `from`.
AllowedTransitions(from) ==
  CASE from = Active    -> {Paused, Cancelled, InsufficientBalance,
                            GracePeriod, Expired}
    [] from = Paused    -> {Active, Cancelled, Expired}
    [] from = Cancelled -> {Archived}
    [] from = InsufficientBalance -> {Active, Cancelled, Expired}
    [] from = GracePeriod -> {Active, Cancelled, InsufficientBalance, Expired}
    [] from = Expired   -> {Archived}
    [] from = Archived  -> {}

\* validate_status_transition: staying put is always allowed.
CanTransition(from, to) == from = to \/ to \in AllowedTransitions(from)

\* Statuses from which no charge may ever be taken again.
Terminal == {Cancelled, Expired, Archived}
===============================================================================
