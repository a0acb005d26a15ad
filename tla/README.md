# The subscription vault in TLA+

This directory models the `subscription_vault` contract
(`contracts/subscription_vault/src`): prepaid subscriptions, the charges that
turn prepaid balance into merchant balance, the custody of the tokens behind
both, the switches, limits and prices around them, the administrator's office,
the plan templates, and the records and lists that clients read.

| Module | What it is |
|---|---|
| `SubscriptionStatus` | the seven statuses and the transition relation of `state_machine.rs` |
| `Vault` | the contract: one action per entry point, batches item by item |
| `VaultProperties` | what `Vault` is checked for, and the refinement to `VaultLedger` |
| `VaultLedger` | the abstract specification: per token, what is owed and what is held |
| `UsageLimits` | `Vault` composed with the references and limits of metered usage |
| `Statements` | the statement log: append, compaction, pages, and a reader of them |
| `AdminNonce` | the administrator, its rotation, and the nonces of its calls |
| `PlanTemplates` | plan templates and versions, and the subscriptions linked to them |
| `Directory` | `PlanTemplates` with the lists of subscriptions and a reader of them |
| `Metadata` | the metadata of subscriptions |
| `MCVault`, `MCTerms`, `MCUsage`, `MCCatalog` | instances for TLC (`Statements` and `AdminNonce` are run directly) |
| `VaultProofs`, `VaultTotalsProofs`, `UsageLimitsProofs`, `StatementsProofs`, `AdminNonceProofs`, `CatalogProofs` | TLAPS proofs about the module of that name (`VaultLedger` holds its own; `VaultTotalsProofs` is about the totals of `Vault`, `CatalogProofs` about `PlanTemplates`, `Directory` and `Metadata`) |
| `SumTheorems` | what the proofs need of sums over finite sets |

## Inventory

The contract is one Soroban contract. The host runs one invocation at a time and
discards every write of an invocation that returns an error or traps. There are
no threads; what is hard is the order of calls by independent parties, time
passing between them, and the one place that catches errors (the batch).

| Component | State | Operations | What makes it correct |
|---|---|---|---|
| Status machine (`state_machine.rs`) | `status` | every handler that writes a status | only allowed transitions; the end is final |
| Interval charge (`charge_core.rs`, `period_snapshots.rs`) | `prepaid_balance`, `lifetime_charged`, `last_payment_timestamp`, `ChargedPeriod`, snapshots | `charge_subscription`, `batch_charge` | a period is billed once; cap and expiry hold; a due charge is not refused |
| Usage charge (`charge_core.rs`) | the same, references, windows | `charge_usage*`, `configure_usage_limits` | cap, limits, no replay |
| One-off charge (`subscription.rs`) | the same | `charge_one_off` | cap, expiry |
| Deposits, refunds (`subscription.rs`) | `prepaid_balance`, `TotalAccounted` | `deposit_funds`, `withdraw_subscriber_funds`, `partial_refund` | money is never locked; the cap sizes the deposit |
| Creation, life cycle (`subscription.rs`) | `NextId`, `Sub`, `SubPlan` | create, create from plan, migrate, cancel, pause, resume, cleanup | limits hold at creation; migration keeps billing consistent |
| Plan templates (`subscription.rs`) | `NextPlanId`, `Plan` | create (two ways), update | versions of a family agree; a subscription stays with its plan's merchant |
| Merchants (`merchant.rs`, `accounting.rs`) | `MerchantBalance`, `MerchantEarnings`, two pause switches | withdraw, refund, pause, unpause, set/update configuration | books agree; paused means paused |
| Recovery (`admin.rs`) | `Recovery` keys | `recover_stranded_funds` | takes nothing that is owed |
| Switches | `EmergencyStop`, `Blocklist`, accepted tokens | enable/disable, add/remove | every guarded path is closed |
| Prices and limits (`oracle.rs`, `admin.rs`, `subscription.rs`) | fee, treasury, oracle, caps, credit and plan limits | setters | exact split; fresh price; bounded exposure |
| Statements (`statements.rs`) | rows, counters, aggregate, retention | append, page, compact | rows sum to what was charged; none is lost; a walk meets each once |
| Nonces, rotation (`nonce.rs`, `admin.rs`) | `AdminNonce`, `Admin` | `init`, `rotate_admin`, `batch_charge` | no replay; one rotation ends a reign |
| Lists (`queries.rs`, `subscription.rs`) | `MerchantSubs`, `TokenSubs` | creation appends; three paged queries | complete, each id once |
| Metadata (`metadata.rs`) | key list, values | set, delete | list and values agree |
| Views, export, reentrancy guard | | | not stateful for the above |

Components interact by direct calls inside one invocation and through the
shared storage: a charge consults the merchant's switches, the oracle, the fee
setting, credits the merchant, appends a statement and closes a snapshot; a
deposit consults the blocklist, the switches, the credit limit and the cap, and
calls the token contract; recovery reads `TotalAccounted`, which deposits and
payouts maintain.

Two remarks on the source at this commit. `do_charge_one_off` is defined twice
in `subscription.rs`, so the crate does not compile; the model follows the first
definition (714-851), the second calls helpers that do not exist. And
`do_set_grace_period` and `do_disable_plan_template` have no entry point:
`Grace` is a constant and a plan stays enabled.

## How `Vault` corresponds to the code

State:

- `subs[id]` is `DataKey::Sub(id)` with the other keys of that id:
  `period` = `ChargedPeriod(id)`, `snaps` = the indices of its
  `BillingPeriodSnapshot`s, `plan` = `SubPlan(id)`, `billed` = the sum of its
  statement rows by kind. An absent `ChargedPeriod` is 0: period 0 is never
  charged, since `now >= last_payment + interval` puts the clock in a later one.
- `balance`, `earnings`, `accounted`, `recovered` are `MerchantBalance`,
  `MerchantEarnings`, `TotalAccounted` and `Recovery`.
- `vault` is the vault's balance in the token contract. `outside` is what may
  still be transferred in; it only bounds the instance.
- `config` holds the settings. Fields of a merchant's configuration that no
  handler reads are left out.
- `batch` holds the ids a running `batch_charge` has not reached.

Actions: each entry point that changes state is one action whose guard is the
conjunction of the checks it makes. A call that fails is rolled back, so it is a
stuttering step and is not written down; in particular the `Expired` or
`Cancelled` status that several handlers store just before they return an error
never becomes visible. `batch_charge` is the exception: it catches the error of
an item (`admin.rs`, line 207), so that what the item had written stands.
`BatchCharge` starts a batch and `BatchItem` runs the next item in one of its
outcomes: `ChargeOneOk` (the three outcomes reported as `Ok`, and an exhausted
cap), `ExpireItem` (error, but the status was stored), `AbortItem` (error after
the debit, because the row or the snapshot was refused), `RefuseItem` (error
before the first write). While a batch runs no other action is enabled, the
clock included.

Authorisation: calls restricted to a role are available at any time, as the
role's owner may make them at any time. Where the code compares the caller with
a party of the subscription (cancel, pause, resume) the caller is a parameter.

The oracle is external. It answers with any of `OracleReplies`; a reply that
`resolve_charge_amount` rejects makes the charge fail. A trap in the oracle
reverts the whole call, a batch included, and is a stuttering step.

`update_subscription_cap` stores the record under a key that nobody reads
(`subscription.rs`, line 1149): it changes nothing that the model holds.

A definition such as `WithinCapSoFar`, placed before `WithinCap`, is a version
of the latter with a slip. No action uses it; `PROJECT.json` pairs it with the
property that fails when it replaces the real one, which shows that the property
depends on that line of the code.

## How the other modules correspond

`UsageLimits` EXTENDS `Vault`. `ChargeUsageWithReference` is `charge_usage_one`
in full: the reference key, the limiter (`limits[id]` = `UsageLimits(id)`,
`usage[id]` = `UsageState(id)`), then `Vault`'s `ChargeUsage`. A call refused by
the limiter returns `Ok` and writes nothing, thus is a stuttering step: the
restarted window and the new period live in a local copy until the call is
admitted (`Judged`). A charge over the lifetime cap cancels the subscription,
keeps the counters it consumed and stores no reference. `charge_usage` sends
always the same reference and therefore succeeds once per subscription.
`receipts` and `mark` are history: what moved money, and how much of it precedes
the limits in force.

`Statements` is one subscription's log. `rows`, `next`, `live`, `aggregate`,
`retention` are the storage keys; a page is the set of its sequence numbers with
its cursor. `walk` is a client that follows `next_cursor`; `history` holds every
row ever written, so that what compaction removed can still be compared.

`AdminNonce`: an action is the delivery of a signed call, for every signer and
nonce at any time, which stands for delays, duplicates and reordering. A call
that fails after `check_and_advance` (a rotation to oneself or to the contract)
is rolled back with its nonce. `SetEmergencyStop` represents the administrator's
calls without a nonce. `reigns` and `ran` are history.

`PlanTemplates` keeps of a template what its handlers compare or copy (merchant,
token, usage flag, family, version) and folds amount, interval and cap into
`Terms`; money, time and limits stay in `Vault`, where they only make calls fail.
Ids count from one. `Directory` adds the two indices and a client that pages
through a list; `Metadata` the key lists and values. Of a status only cancelled
and archived are told apart: a cancelled subscription takes no metadata until
`cleanup_subscription` archives it. `MCCatalog` runs the three,
each with the part of the subscriptions it depends on.

## Runs

| Run | Asks | Instance |
|---|---|---|
| `core` | prepaid within the cap, books, billing grid, snapshots, statuses and end of billing of one subscription, with or without a plan | 1 id, interval 2, clock to 6, 4 units, cap 3 or none, expiry at 4 or none, grace 1, batches of 1; four plans (two versions of one family; amounts 0 and -1) |
| `pair` | solvency, exact accounting up to refunds, refinement of `VaultLedger`, one bill per period | 2 ids, interval 1, clock to 3, 2 units, batches of 2 (also twice the same id) |
| `terms` | prices: fee split, books over all accounts, oracle price | 1 id, clock to 4, 4 units, amounts of 2, fee 50 %, the treasury another account or the merchant itself, four oracle replies |
| | limits: credit and plan limits at creation | 2 ids, clock to 2, two tokens, one plan, amounts of 2, credit limit 4, plan limit 1; no payouts |
| `live` | a due charge is settled; an ended subscription is refunded; what stop, pauses and blocklist hold back | 1 id, interval 1, grace 1, clock to 4, all switches in between |
| `usage` | references, burst interval, rate window, unit cap; no lock-out | 1 id, interval 2, clock to 6, 5 units, 4 references, four configurations |
| `statements` | log, aggregate, walks and pages | 4 rows, clock to 3, retentions 0 and 2, pages of 1 and 2 |
| `admin` | nonces, office, succession | 3 accounts, nonces to 2 |
| `catalog` | families, plan links, indices, lists, metadata | 3 templates, 3 subscriptions, 2 merchants, 2 tokens, scan budget 2, pages of 1 and 2, 3 keys of which 2 fit |

A behaviour of `terms` belongs to one of its two parts (`MCTerms`), and in both no
tokens are sent to the vault directly: neither that nor payouts touch what the
part asks, and `pair` has both.

Four runs end in a violation, each showing a statement of the documentation that
the code does not keep:

| Run | The document says | The code |
|---|---|---|
| `earnings` | the reported balance always matches (`merchant_earnings.md`, 38) | a withdrawal is not recorded in `earnings.withdrawals` |
| `due` | a charge is allowed once the interval has passed (`billing_intervals.md`, 44) | after a migration to a longer interval it is refused as a replay until the new index catches up |
| `walk` | `next_cursor` `None` means end of history (`view_statements_by_subscription.md`, 51) | a cursor that compaction left behind gets an empty page and `None`, while unread rows are stored above it |
| `accounted` | `TotalAccounted` follows every transfer, the vault's balance equals it (`subscription_vault_prepaid.md`, 80) | `merchant_refund` does not decrement it: after a deposit, a charge and a refund the total exceeds the balance |

What does hold: of a walk `WalkComplete`; of `TotalAccounted`
`AccountedWithRefunds` (it errs upwards, so recovery stays safe, but funds equal
to the refunds can never be recovered). `AccountedIsHeld` is an inequality
because tokens sent to the vault directly make its balance larger than any total.

Deadlock checking is on for `Vault` and `Statements`: a reachable state always
has a call that succeeds. It is off for `usage`, `admin` and `catalog`, where the
bounds (clock and funds, nonces, templates and subscriptions) end a behaviour.

### Further disagreements with the documentation

These are visible in one place of the code and have no run.

- `billing_intervals.md` (58, 73): a successful charge sets the last payment to
  the current time. It is set to the start of the current period
  (`charge_core.rs`, 215), so a late charge does not shift the next date.
- `lifetime_caps.md` (301): a replayed charge is rejected before the cap is
  evaluated. An exhausted cap is looked at first (`charge_core.rs`, 79) and
  cancels the subscription also within a period that was charged.
- `lib.rs` (938): a subscription from a plan is refused while the plan's merchant
  is paused. Creation does not consult the pause.
- `credit_limits.md` (45): deposits are checked against exposure plus deposit. A
  deposit that revives a subscription also adds its interval amount, unchecked.
- `merchant_pause.md` (25, 33, 187) and `test_merchant_pause.rs` (197, 270): a
  pause blocks `charge_one_off` and leaves `deposit_funds` open. The code does
  the opposite: `do_charge_one_off` does not consult the pause, `do_deposit_funds`
  does (`subscription.rs`, 470). `PauseHolds` is about interval and usage charges,
  where code and documents agree.
- `protocol_invariants.md` (112, INV-4) and `test_reentrancy_invariants.rs` (615,
  635): the emergency stop blocks withdrawals. `emergency_stop.md` (24) and the
  code: it does not. `StopFreezes` is about what all of them say it blocks, and
  `EndedIsRefunded` does not count on a refund under a stop that is never lifted.
- `lifetime_caps.md` describes `update_subscription_cap`, which has no effect.
- `lib.rs` (1328) calls the rate window sliding; it restarts at the first call
  after it is over, so twice the maximum fits into one window length
  (`RateHeld`). `lib.rs` (1343) announces an error for inconsistent limits; a
  window of 0 seconds is accepted and switches the limit off.
- `usage_rate_limits.md` (29): the last reference is stored. All are.
- `usage_caps.md` (13): the period is `now / interval_seconds`. It counts from
  the start of the subscription.
- `billing_retention.md` (21, 42): rows are pruned inline. Only
  `compact_billing_statements` removes rows.
- `view_statements_by_subscription.md` (33): paging is stable across inserts.
  By cursor it is; newest-first offsets shift with every new row.
- `plan_versioning.md` (14): versions are monotonic in a family. Updating an old
  version twice gives two templates with the same key and version. The version
  still grows along every migration.
- `test_plan_versioning.rs` (76) disables a plan; no entry point does.
- `admin_authorization_matrix.md` (40) restricts `charge_subscription` to the
  administrator; its entry point asks for no authorisation. `admin_rotation.md`
  (32) omits the nonce of `rotate_admin`.
- A call signed for a nonce not yet reached stays valid: after the office went
  to another account and back, it may still be delivered once. `init` accepts
  the contract's own address, which ends all administration; `rotate_admin`
  refuses it.

## Bounds

- `MaxTime`, `Funds`, `MaxBatch`, `MAX_SUBSCRIPTION_ID` and the sets of
  arguments bound the instances. `MaxTime` is in the guard of `Tick`; `Funds`
  bounds deposits and strandings through `outside`. `MaxPlans` and
  `MaxSubs` bound the catalog.
- They are large enough for what the runs ask: in `core` two whole intervals,
  a grace window that opens, is rescued and closes, an expiry between two due
  dates, a cap that is reached exactly (one-off and usage charges of 1 and 2)
  and would be overshot (2 + 2 > 3, which cancels), and three charged periods
  before a migration that halves the index; in `pair` the same id twice in a
  batch and a stranding that is recovered while another subscription is owed
  money; in `usage` two windows, three periods and a change of limits between
  charges; in `statements` two compactions with a page before, between and
  after; in `admin` an office that goes round and comes back with a call left
  over; in `catalog` an update of an old version, and lists longer than the scan
  budget and than a page.
- `U32_MAX` and `U64_MAX` are small in their instances, so that the end of the
  sequence numbers and of the nonces is reached.
- `MinInterval` and `MaxInterval` are 60 s and 365 days in the code and a single
  small number in most instances; only their order matters.
- Amounts and times are unbounded integers. The code uses checked `i128` and
  `u64` arithmetic: an overflow is an error, thus a refused call, and needs
  amounts beyond any token supply. Inside a batch it could leave a half-written
  item; that case is out of the model. So is the statement row that a batch item
  leaves behind when the sequence number itself overflows after 2^32 - 1 rows
  (`statements.rs`, 105): `AppendStatement` refuses that row.
- `MAX_WRITE_PATH_SCAN_DEPTH`, 5000 ids in the code, is 1 in `terms`, so that a
  deposit is refused because a second subscription exists; no limit is set in
  the other runs.

## Fairness

Safety properties assume none. `live` assumes that ledgers keep closing, that a
batch once started runs to its end (it is one call), that someone keeps calling
`charge_subscription` for each id (anybody may), and that a subscriber whose
money can be withdrawn asks for it. Fairness is strong because a batch closes
the other entry points for a few steps. Nothing is assumed of merchants, of the
admin, or of deposits. `DueIsSettled` excepts the stop, which suspends charging.
`EndedIsRefunded` is about behaviours in which a stop is lifted again, however
often it is raised (`[]<>~stopped`): under a stop for good the documents disagree
on whether the refund is due (see the disagreements above).

## Proofs

TLAPS proves every invariant and action property that a passing run checks, for
all values of the constants that meet the assumptions and with all settings free
to change at any time. The assumptions: `VaultAssumption` (types of
the constants; positive plan intervals; caps of plans positive) and
`AccountsFinite` (finitely many payees and tokens, so that totals exist) for
`Vault`; types of the constants and non-empty or non-zero sizes for the others.

1. `VaultProofs`. `SubStep(s, t)` lists the seven ways one subscription record
   may change in a step, each with the guards that allow it: its status, a
   deposit, money returned, a migration, an interval charge completed or
   aborted, a usage or one-off charge. `StepIsSound` shows, action by action,
   that every step changes each record in one of those ways, keeps the types
   and never turns the clock back. The invariant here is `IType`: `TypeOK` and
   `StopOutsideBatch` (the stop is never on while a batch runs, which is what
   lets an item of a batch skip the check). Theorem `TypeCorrect` follows.

   `IInv` adds for each record: what was charged is within
   the cap; without a plan, charged plus prepaid is too; charged is the sum of
   the rows; no snapshot is beyond `ChargedPeriod`; and, without a plan,
   `last_payment = start + period * interval` (`OnGrid`). The last two are the
   strengthening: `DueWithoutPlan` is not inductive by itself, because it does
   not tie `last_payment` to the index that the next charge computes. The grid
   in turn needs that no batch item of such a subscription fails after its debit
   (`AbortNeedsPlan`): amounts are positive, and the snapshot of a period beyond
   `ChargedPeriod` cannot be closed yet.
   The invariants then follow from `IInv`, and the action properties from
   `IInv` and `SubStep`. `OracleTheorem` rests on one fact of arithmetic
   (`CeilingCovers`): rounding up gives the least number of units worth the
   amount.

   `WaitingTheorem` and `PeriodTheorem` assume `[]FixedPrice`: the oracle is off,
   or never answers. Both compare with the subscription's own amount, and an
   oracle price differs from it: with a higher price a subscription that has its
   amount prepaid still waits, and a period is not billed at the amount. A
   behaviour of `core` or `pair`, where no price is set, meets the hypothesis.
2. `VaultLedger`. `accounted = prepaid + earned + refunded <= vault + refunded`
   is inductive, hence `LedgerSolvent` and `LedgerAccounted`, without any
   assumption on the constants.
3. `VaultTotalsProofs`. The totals are sums over all records or all payees.
   `Moves` lists the ways money moves in one step: in, back to the
   subscriber, as a charge to the merchant or split with the treasury, out to a
   payee or as a refund, astray, and recovered. `StepMoves` shows that every
   step is one of them or moves nothing. Each changes one record and one or two
   payees, and `SumChange` turns that into a change of the totals. The
   refinement (`LedgerRefinement`) maps each to a move of the ledger; the
   ledger's amounts are bounded (`AllFunds`), which needs that no more tokens
   reach the vault than there are (`FundsHeld`). `SolvencyTheorem` and
   `AccountedTheorem` are the ledger's invariant read through the mapping;
   `StatementsTheorem` needs that fee and rest add up to the charge also when
   the treasury is the merchant. `CreationTheorem` is about the one step that
   adds a record: exposure and the number on the plan grow by exactly what was
   checked.
4. `SumTheorems`. The library's induction theorems take an operator, so the two
   principles needed (on the naturals and on the subsets of a finite set) are
   stated for sets and derived from the existence of a minimal element
   (`WFMin`). With them the recursion behind `SumFunctionOnSet` has a solution
   on finite sets, and its sums can be split, bounded and renamed.
5. `UsageLimitsProofs`. `MeteredImplementsVault`: every step of the composition
   is a step of `Vault` or leaves it alone, so all theorems above hold of the
   metered contract. `ReferencesTheorem` and `BurstTheorem` follow from `MInv`;
   the latter needs that the limiter's last timestamp is not before any charge
   under the limits in force, and that no charge is ahead of the clock
   (`LastCovers`).

   `LimiterInv` ties what the limiter stores, one window and one count, to all
   the charges made. `RateState`: no charge is beyond the window, the window
   holds at most `calls` and at most `max`, and so does the stretch of one
   window length before it. A window restarts only once it is over, so windows
   are disjoint, and a span that holds the newest charge reaches into two of them
   at most: twice the maximum (`RateTheorem`). `UnitState`: no charge is in a
   later period than the stored one, and the charges of that one add up to at
   most `units` (`UnitsTheorem`). Both are inequalities, because a call that
   ends the subscription is counted and leaves no receipt. `ClockOf` adds that the stamps
   are in order and that the last call counted moved money unless the
   subscription has ended: this is what keeps the limiter from locking anybody
   out (`QuietTheorem`).
6. `StatementsProofs`. `LogInv` says that the stored rows are an interval of
   sequence numbers, and where a reader stands in it: newest first it has all
   rows above the cursor, oldest first all below (`NewestSeen`, `OldestSeen`).
   Counting the rows of an interval (`RangeCount`) turns the scans into ranges.
   `LogTheorem`, `WalkTheorem` and `OnceTheorem` follow, for every retention,
   page size and number of rows; so does `OffsetTheorem`, where both pages are
   ranges. `AuditTheorem`: a compaction removes the oldest rows, and the sums of
   the removed part and of what was removed before are sums over disjoint
   intervals of the history (`SumRenamed` relates row `q` to entry `q + 1`).
7. `AdminNonceProofs`. A counter is the number of its signer's calls (`Counts`),
   the stored administrator is the last reign's (`Throne`), and whoever was
   replaced could sign (`Signed`): with these `NoncesInOrder`, `ActedInOffice`
   and `ReignsEndOnce` are inductive together.
8. `CatalogProofs`. `FamilyUniform` is inductive with types and positive
   versions; `PinnedToPlan` rests on it, since a migration does not compare the
   merchant. `DirectoryImplements` carries both over to `Directory`, where
   `IndexTheorem` is proved. `ReadingTheorem` rests on it: `ReaderInv` adds
   where a client stands between two pages. In a scan it stands just behind the
   last id it has covered; in an index its offset splits the list at that id
   (`Splits`), which stays true because a creation appends a larger id. A page is
   then a cut of an increasing list that follows what was read (`ListSlice`,
   `ListJoins`). That the ids a scan finds can be listed in order
   (`AscendingExists`) is shown by the induction of `SumTheorems`.
   `MetadataTheorem`: deletion closes the gap, so the
   list is what it was without the key, in order and without repetition, and the
   entries lose the same key.

Only model-checked: liveness (`DueIsSettled`, `EndedIsRefunded`), which needs
fairness.

## Not modelled

- The reentrancy guard: the host refuses re-entry, and the tokens are assumed
  not to call back, so no step meets a held guard.
- The fields of a merchant's configuration that no handler consults.
- Disabling a plan and setting the grace period: no entry point.
- Views that only read, exports, events, storage lifetimes.
- `billing_statements.rs`: no entry point calls it.
- The enum `DataKey` has no variant `AdminNonce` at this commit; the model takes
  the key that `nonce.rs` names.

## Plan

What is left: a run of `UsageLimits` with a plan, where a migration changes what a
period is and delays the reset of the unit cap.
