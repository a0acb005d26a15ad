------------------------------ MODULE VaultLedger ------------------------------
(***************************************************************************)
(* What the vault promises about money, per token and without              *)
(* subscriptions, merchants or time: tokens enter as prepaid balance,      *)
(* charges turn prepaid into earned balance, both leave only to the        *)
(* account they belong to, and an admin may sweep only what nobody is      *)
(* owed.  Module VaultTotalsProofs proves that Vault implements it, with   *)
(* each total the sum of the per-subscription or per-payee amounts.        *)
(* Solvency is proved here, for every set of tokens and of amounts.        *)
(***************************************************************************)
EXTENDS Integers, TLAPS

CONSTANTS Tokens, Amounts  \* sums of money one call may move

VARIABLES
  prepaid,    \* owed to subscribers
  earned,     \* owed to merchants and treasuries
  refunded,   \* paid back out of earned balance by merchant_refund
  accounted,  \* TotalAccounted, as the contract keeps it
  vault       \* tokens the vault really holds

vars == <<prepaid, earned, refunded, accounted, vault>>

TypeOK ==
  /\ prepaid \in [Tokens -> Nat] /\ earned \in [Tokens -> Nat]
  /\ refunded \in [Tokens -> Nat]
  /\ accounted \in [Tokens -> Int] /\ vault \in [Tokens -> Nat]

Init ==
  /\ prepaid = [tok \in Tokens |-> 0] /\ earned = [tok \in Tokens |-> 0]
  /\ refunded = [tok \in Tokens |-> 0]
  /\ accounted = [tok \in Tokens |-> 0] /\ vault = [tok \in Tokens |-> 0]

Add(f, tok, a) == [f EXCEPT ![tok] = @ + a]
Sub(f, tok, a) == [f EXCEPT ![tok] = @ - a]

\* deposit_funds.
Deposit(tok, a) ==
  /\ prepaid' = Add(prepaid, tok, a)
  /\ accounted' = Add(accounted, tok, a)
  /\ vault' = Add(vault, tok, a)
  /\ UNCHANGED <<earned, refunded>>

\* Interval, usage and one-off charges.
Charge(tok, a) ==
  /\ a <= prepaid[tok]
  /\ prepaid' = Sub(prepaid, tok, a)
  /\ earned' = Add(earned, tok, a)
  /\ UNCHANGED <<refunded, accounted, vault>>

\* withdraw_subscriber_funds and partial_refund.
ReturnPrepaid(tok, a) ==
  /\ a <= prepaid[tok]
  /\ prepaid' = Sub(prepaid, tok, a)
  /\ accounted' = Sub(accounted, tok, a)
  /\ vault' = Sub(vault, tok, a)
  /\ UNCHANGED <<earned, refunded>>

\* withdraw_merchant_funds.
Payout(tok, a) ==
  /\ a <= earned[tok]
  /\ earned' = Sub(earned, tok, a)
  /\ accounted' = Sub(accounted, tok, a)
  /\ vault' = Sub(vault, tok, a)
  /\ UNCHANGED <<prepaid, refunded>>

\* merchant_refund: the tokens leave, the accounted total stays.
RefundEarned(tok, a) ==
  /\ a <= earned[tok]
  /\ earned' = Sub(earned, tok, a)
  /\ refunded' = Add(refunded, tok, a)
  /\ vault' = Sub(vault, tok, a)
  /\ UNCHANGED <<prepaid, accounted>>

\* Tokens sent to the vault's address without a call.
Strand(tok, a) ==
  /\ vault' = Add(vault, tok, a)
  /\ UNCHANGED <<prepaid, earned, refunded, accounted>>

\* recover_stranded_funds.
Recover(tok, a) ==
  /\ a <= vault[tok] - accounted[tok]
  /\ vault' = Sub(vault, tok, a)
  /\ UNCHANGED <<prepaid, earned, refunded, accounted>>

Next ==
  \E tok \in Tokens, a \in Amounts \cap Nat :
    \/ Deposit(tok, a) \/ Charge(tok, a) \/ ReturnPrepaid(tok, a)
    \/ Payout(tok, a) \/ RefundEarned(tok, a)
    \/ Strand(tok, a) \/ Recover(tok, a)

Spec == Init /\ [][Next]_vars

-------------------------------------------------------------------------------
(***************************************************************************)
(* Every token owed to a subscriber, a merchant or the treasury is in the  *)
(* vault, whatever the admin recovered: recover_stranded_funds trusts      *)
(* TotalAccounted, which only ever errs upwards.                           *)
(***************************************************************************)
Solvent == \A tok \in Tokens : vault[tok] >= prepaid[tok] + earned[tok]

(***************************************************************************)
(* TotalAccounted is what the contract owes plus what merchants have       *)
(* refunded: merchant_refund is the one outflow that does not decrement    *)
(* it.                                                                     *)
(***************************************************************************)
AccountedExact ==
  \A tok \in Tokens :
    accounted[tok] = prepaid[tok] + earned[tok] + refunded[tok]

-------------------------------------------------------------------------------
(***************************************************************************)
(* Solvent is not inductive by itself: Recover compares the vault with     *)
(* TotalAccounted, so the proof needs AccountedExact (the books never      *)
(* claim less than is owed); together with the types they make LedgerInv.  *)
(***************************************************************************)
LedgerInv == TypeOK /\ AccountedExact /\ Solvent

\* An empty vault is solvent and its books agree.
LEMMA LedgerInit == Init => LedgerInv
  BY DEF Init, LedgerInv, TypeOK, AccountedExact, Solvent

\* Each step of the ledger preserves the inductive invariant.
LEMMA LedgerStep ==
  ASSUME LedgerInv, [Next]_vars
  PROVE  LedgerInv'
<1> USE DEF LedgerInv, TypeOK, AccountedExact, Solvent, Add, Sub
<1>1. CASE UNCHANGED vars
  BY <1>1 DEF vars
<1>2. ASSUME NEW tok \in Tokens, NEW a \in Amounts \cap Nat, Deposit(tok, a)
      PROVE  LedgerInv'
  BY <1>2 DEF Deposit
<1>3. ASSUME NEW tok \in Tokens, NEW a \in Amounts \cap Nat, Charge(tok, a)
      PROVE  LedgerInv'
  BY <1>3 DEF Charge
<1>4. ASSUME NEW tok \in Tokens, NEW a \in Amounts \cap Nat, ReturnPrepaid(tok, a)
      PROVE  LedgerInv'
  BY <1>4 DEF ReturnPrepaid
<1>5. ASSUME NEW tok \in Tokens, NEW a \in Amounts \cap Nat, Payout(tok, a)
      PROVE  LedgerInv'
  BY <1>5 DEF Payout
<1>6. ASSUME NEW tok \in Tokens, NEW a \in Amounts \cap Nat, RefundEarned(tok, a)
      PROVE  LedgerInv'
  BY <1>6 DEF RefundEarned
<1>7. ASSUME NEW tok \in Tokens, NEW a \in Amounts \cap Nat, Strand(tok, a)
      PROVE  LedgerInv'
  BY <1>7 DEF Strand
<1>8. ASSUME NEW tok \in Tokens, NEW a \in Amounts \cap Nat, Recover(tok, a)
      PROVE  LedgerInv'
  BY <1>8 DEF Recover
<1> QED
  BY <1>1, <1>2, <1>3, <1>4, <1>5, <1>6, <1>7, <1>8 DEF Next

(***************************************************************************)
(* Whatever deposits, charges, refunds, payouts, strandings and recoveries *)
(* happen in whatever order, the vault holds every token it owes.          *)
(***************************************************************************)
THEOREM LedgerSolvent == Spec => []Solvent
<1>1. Spec => []LedgerInv
  BY LedgerInit, LedgerStep, PTL DEF Spec
<1> QED
  BY <1>1, PTL DEF LedgerInv

(***************************************************************************)
(* TotalAccounted is exactly what is owed plus what merchants refunded.    *)
(***************************************************************************)
THEOREM LedgerAccounted == Spec => []AccountedExact
<1>1. Spec => []LedgerInv
  BY LedgerInit, LedgerStep, PTL DEF Spec
<1> QED
  BY <1>1, PTL DEF LedgerInv
===============================================================================
