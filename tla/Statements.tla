------------------------------ MODULE Statements ------------------------------
(***************************************************************************)
(* The statement log of one subscription: rows appended by the charges,    *)
(* compaction of the oldest ones into an aggregate, and a reader who walks *)
(* through the rows page by page while charges and compactions go on.      *)
(*                                                                         *)
(* Vault keeps only the sums of the rows (`billed`); here are the rows     *)
(* themselves.  The logs of two subscriptions share nothing but the        *)
(* retention setting.                                                      *)
(***************************************************************************)
EXTENDS Integers, Sequences, FiniteSets, FiniteSetsExt

CONSTANTS
  None,      \* Rust's None
  U32_MAX,   \* largest u32: sequence numbers end before it
  MaxTime,   \* bound: the clock
  Interval,  \* interval_seconds of the subscription
  Amounts,   \* amounts charged
  Keeps,     \* values of keep_recent
  Limits     \* page sizes

ASSUME StatementsAssumption ==
  /\ None \notin Int
  /\ U32_MAX \in Nat /\ MaxTime \in Nat /\ Interval \in Nat \ {0}
  /\ Amounts \subseteq Int /\ Keeps \subseteq 0 .. U32_MAX
  /\ Limits \subseteq Nat

VARIABLES
  now,        \* ledger timestamp
  paid,       \* last_payment_timestamp of the subscription
  next, live, \* the keys "snext" and "slive"
  rows,       \* "srow": sequence number -> row
  aggregate,  \* "sagg"
  retention,  \* "srtn"
  walk,       \* what a reader has of the log, None before the first page
  history     \* every row ever appended (for the properties only)

logVars == <<next, live, rows, aggregate>>
vars == <<now, paid, logVars, retention, walk, history>>

Kinds == {"interval", "usage", "one_off"}
Row   == [kind: Kinds, start: Nat, end: Nat, amount: Nat \ {0}]

EmptyAggregate ==
  [pruned_count |-> 0, total_amount |-> 0, totals |-> [k \in Kinds |-> 0],
   oldest |-> None, newest |-> None]

\* What the reader keeps is the direction, the page size, the cursor and the
\* rows seen.  For the properties: `bottom` is the oldest row when the walk
\* began; `top` the newest row then or, oldest first, when the latest page was
\* read; `overtaken` that compaction had removed the row under the cursor.
Walk ==
  [newest_first: BOOLEAN, limit: Nat \ {0}, cursor: Nat \cup {None},
   seen: SUBSET Nat, bottom: Nat, top: Int, overtaken: BOOLEAN]

Init ==
  /\ now = 1 /\ paid = 1
  /\ next = 0 /\ live = 0
  /\ rows = [q \in {} |-> {}]
  /\ aggregate = EmptyAggregate
  /\ retention = U32_MAX
  /\ walk = None
  /\ history = << >>

Tick ==
  /\ now < MaxTime
  /\ now' = now + 1
  /\ UNCHANGED <<paid, logVars, retention, walk, history>>

-------------------------------------------------------------------------------
(***************************************************************************)
(* append_statement, with the charge that calls it.                        *)
(***************************************************************************)
AppendStatement(kind, start, end, amount) ==
  LET row == [kind |-> kind, start |-> start, end |-> end, amount |-> amount]
  IN
  /\ start <= end /\ amount > 0
  /\ kind = "interval" => start # end
  /\ next < U32_MAX
  /\ rows' = [q \in DOMAIN rows \cup {next} |-> IF q = next THEN row ELSE rows[q]]
  /\ next' = next + 1 /\ live' = live + 1
  /\ history' = Append(history, row)
  /\ UNCHANGED <<now, aggregate, retention, walk>>

\* charge_one: the row reaches from the last payment to the charge, and the
\* next payment counts from the last whole interval.
AppendInterval(amount) ==
  /\ now >= paid + Interval
  /\ AppendStatement("interval", paid, now, amount)
  /\ paid' = paid + ((now - paid) \div Interval) * Interval

\* charge_usage_one and charge_one_off.
AppendAtOnce(kind, amount) ==
  /\ AppendStatement(kind, now, now, amount)
  /\ UNCHANGED paid

-------------------------------------------------------------------------------
(***************************************************************************)
(* Retention and compaction, by the admin.                                 *)
(***************************************************************************)
SetRetention(keep) ==
  /\ retention' = keep
  /\ UNCHANGED <<now, paid, logVars, walk, history>>

MinSeq == next - live
MaxSeq == next - 1

\* Scans from the newest row.
PrunedNewest(target) ==
  {q \in DOMAIN rows : Cardinality({r \in DOMAIN rows : r > q}) < target}

\* The first `target` rows that a scan from the oldest sequence number meets.
Pruned(target) ==
  {q \in DOMAIN rows :
     /\ MinSeq <= q /\ q < next
     /\ Cardinality({r \in DOMAIN rows : MinSeq <= r /\ r < q}) < target}

SumOfAmounts(log, S) == SumFunctionOnSet([q \in DOMAIN log |-> log[q].amount], S)

Total(S) == SumOfAmounts(rows, S)
OfKind(S, k) == {q \in S : rows[q].kind = k}

\* Keeps the span of the latest compaction only.
MergedLatest(a, S) ==
  [pruned_count |-> a.pruned_count + Cardinality(S),
   total_amount |-> a.total_amount + Total(S),
   totals |-> [k \in Kinds |-> a.totals[k] + Total(OfKind(S, k))],
   oldest |-> Min({rows[q].start : q \in S}),
   newest |-> Max({rows[q].end : q \in S})]

\* The aggregate after the rows S joined it.
Merged(a, S) ==
  [pruned_count |-> a.pruned_count + Cardinality(S),
   total_amount |-> a.total_amount + Total(S),
   totals |-> [k \in Kinds |-> a.totals[k] + Total(OfKind(S, k))],
   oldest |-> Min({rows[q].start : q \in S} \cup ({a.oldest} \ {None})),
   newest |-> Max({rows[q].end : q \in S} \cup ({a.newest} \ {None}))]

\* compact_billing_statements; `override` is None or a keep_recent of its own.
Compact(override) ==
  LET keep == IF override = None THEN retention ELSE override
      S    == Pruned(live - keep)
  IN
  /\ live > keep
  /\ aggregate' = Merged(aggregate, S)
  /\ rows' = [q \in DOMAIN rows \ S |-> rows[q]]
  /\ live' = live - Cardinality(S)
  /\ UNCHANGED <<now, paid, next, retention, walk, history>>

-------------------------------------------------------------------------------
(***************************************************************************)
(* Pages.  A page is the set of its sequence numbers (their order is that  *)
(* of the scan) and the cursor it returns.                                 *)
(***************************************************************************)
NoRows == [seqs |-> {}, next_cursor |-> None]

\* How many of the rows C the scan meets before q.
Rank(C, q, newest_first) ==
  Cardinality({r \in C : IF newest_first THEN r > q ELSE r < q})

\* Points at the row just returned; and loses the last row of the log.
CursorAfterInclusive(q, newest_first) ==
  IF newest_first THEN (IF q > MinSeq THEN q ELSE None)
  ELSE IF q < MaxSeq THEN q ELSE None
CursorAfterShort(q, newest_first) ==
  IF newest_first THEN (IF q > MinSeq + 1 THEN q - 1 ELSE None)
  ELSE IF q < MaxSeq - 1 THEN q + 1 ELSE None

\* The cursor returned with a full page that ends with row q.
CursorAfter(q, newest_first) ==
  IF newest_first THEN (IF q > MinSeq THEN q - 1 ELSE None)
  ELSE IF q < MaxSeq THEN q + 1 ELSE None

\* The rows the scan meets from `start` on.
Ahead(start, newest_first) ==
  {q \in DOMAIN rows : IF newest_first THEN MinSeq <= q /\ q <= start
                       ELSE start <= q /\ q <= MaxSeq}

\* get_sub_statements_cursor.
CursorPage(cursor, limit, newest_first) ==
  LET start == IF cursor # None THEN cursor
               ELSE IF newest_first THEN MaxSeq ELSE MinSeq
      C     == Ahead(start, newest_first)
      last  == {q \in C : Rank(C, q, newest_first) = limit - 1}
  IN  IF live = 0 \/ start > MaxSeq \/ start < MinSeq THEN NoRows
      ELSE [seqs |-> {q \in C : Rank(C, q, newest_first) < limit},
            next_cursor |-> IF last = {} THEN None
                            ELSE CursorAfter(CHOOSE q \in last : TRUE,
                                             newest_first)]

\* Points at the row just returned.
OffsetCursorAfterInclusive(q, newest_first) ==
  IF newest_first THEN (IF q > 0 THEN q ELSE None)
  ELSE IF q + 1 < next THEN q + 1 ELSE None

\* The cursor of a full page by offset that ends with row q: newest first it
\* may point below the oldest row.
OffsetCursorAfter(q, newest_first) ==
  IF newest_first THEN (IF q > 0 THEN q - 1 ELSE None)
  ELSE IF q + 1 < next THEN q + 1 ELSE None

\* get_sub_statements_offset.
OffsetPage(offset, limit, newest_first) ==
  LET C == {q \in DOMAIN rows : newest_first \/ MinSeq <= q}
      last == {q \in C : Rank(C, q, newest_first) = offset + limit - 1}
  IN  IF offset >= live THEN NoRows
      ELSE [seqs |-> {q \in C : Rank(C, q, newest_first)
                                  \in offset .. (offset + limit - 1)},
            next_cursor |-> IF last = {} THEN None
                            ELSE OffsetCursorAfter(CHOOSE q \in last : TRUE,
                                                   newest_first)]

-------------------------------------------------------------------------------
(***************************************************************************)
(* A reader asks for the first page, then follows next_cursor until it is  *)
(* None.                                                                   *)
(***************************************************************************)
StartWalk(limit, newest_first) ==
  LET page == CursorPage(None, limit, newest_first) IN
  /\ limit > 0
  /\ walk' = [newest_first |-> newest_first, limit |-> limit,
              cursor |-> page.next_cursor, seen |-> page.seqs,
              bottom |-> MinSeq, top |-> MaxSeq, overtaken |-> FALSE]
  /\ UNCHANGED <<now, paid, logVars, retention, history>>

NextPage ==
  LET page == CursorPage(walk.cursor, walk.limit, walk.newest_first) IN
  /\ walk # None /\ walk.cursor # None
  /\ walk' = [walk EXCEPT !.cursor = page.next_cursor,
                          !.seen = @ \cup page.seqs,
                          !.top = IF walk.newest_first THEN @ ELSE MaxSeq,
                          !.overtaken = walk.cursor < MinSeq]
  /\ UNCHANGED <<now, paid, logVars, retention, history>>

Next ==
  \/ Tick
  \/ \E a \in Amounts :
       \/ AppendInterval(a)
       \/ \E k \in {"usage", "one_off"} : AppendAtOnce(k, a)
  \/ \E keep \in Keeps : SetRetention(keep)
  \/ \E override \in Keeps \cup {None} : Compact(override)
  \/ \E limit \in Limits, newest_first \in BOOLEAN :
       StartWalk(limit, newest_first)
  \/ NextPage

Spec == Init /\ [][Next]_vars

-------------------------------------------------------------------------------
(***************************************************************************)
(* Properties.                                                             *)
(***************************************************************************)
\* However appends and compactions alternate, the stored rows are the latest
\* `live` ones, without a gap, unchanged since the charge wrote them, and the
\* aggregate counts all the others.
LogIntact ==
  /\ DOMAIN rows = MinSeq .. MaxSeq
  /\ aggregate.pruned_count = MinSeq
  /\ next = Len(history)
  /\ \A q \in DOMAIN rows : rows[q] = history[q + 1]

\* No money and no time disappears from the record: the aggregate that many
\* compactions built up, with whatever overrides, is what summing up the
\* removed rows at once would give.
AuditTrail ==
  LET gone == 1 .. aggregate.pruned_count IN
  /\ aggregate.total_amount = SumOfAmounts(history, gone)
  /\ \A k \in Kinds :
       aggregate.totals[k]
         = SumOfAmounts(history, {i \in gone : history[i].kind = k})
  /\ aggregate.pruned_count > 0 =>
       /\ aggregate.oldest = Min({history[i].start : i \in gone})
       /\ aggregate.newest = Max({history[i].end : i \in gone})

\* A reader who follows the cursor never gets a row twice, in either direction,
\* whatever is appended or compacted between two pages.
NoRowTwice ==
  [][NextPage => walk.seen \cap CursorPage(walk.cursor, walk.limit,
                                           walk.newest_first).seqs = {}]_vars

WalkIsOver == walk # None /\ walk.cursor = None
WalkMissed == {q \in DOMAIN rows : q <= walk.top} \ walk.seen

\* When the cursor is None, a reader has seen every row that is still stored
\* and was there (newest first, when the walk began; oldest first, at its last
\* page), unless compaction overtook an oldest-first reader.
WalkComplete ==
  WalkIsOver /\ (walk.newest_first \/ ~walk.overtaken) => WalkMissed = {}

\* Both ways of paging agree: the page that starts where a page by offset
\* ended is the page its cursor leads to, also when the cursor points below
\* the oldest row.
OffsetContinues ==
  \A limit \in Limits \ {0}, offset \in 0 .. live, newest_first \in BOOLEAN :
    LET page == OffsetPage(offset, limit, newest_first)
        rest == OffsetPage(offset + limit, limit, newest_first).seqs
    IN  rest = IF page.next_cursor = None THEN {}
               ELSE CursorPage(page.next_cursor, limit, newest_first).seqs

\* view_statements_by_subscription.md says of next_cursor that None means end
\* of history.
EndOfHistory == WalkIsOver => WalkMissed = {}
===============================================================================
