--------------------------- MODULE StatementsProofs ---------------------------
(***************************************************************************)
(* The log is intact and a walk meets every row once, for every retention, *)
(* page size and order of appends, compactions and pages.                  *)
(*                                                                         *)
(* WalkComplete speaks of finished walks only.  The inductive invariant    *)
(* says what an unfinished one has seen: newest first, everything above    *)
(* the cursor up to the top; oldest first, everything from the bottom to   *)
(* the cursor.                                                             *)
(*                                                                         *)
(* The aggregate that many compactions build up is what one sum over the   *)
(* removed rows gives (AuditTheorem), and paging by cursor goes on where a *)
(* page by offset ended (OffsetTheorem).                                   *)
(***************************************************************************)
EXTENDS Statements, SumTheorems

Counters ==
  /\ next \in Nat /\ live \in Nat /\ live <= next
  /\ history \in Seq(Row)
  /\ now \in Nat /\ paid \in Nat /\ retention \in Nat

WalkType ==
  /\ walk \in Walk
  /\ walk.bottom <= MinSeq /\ walk.top <= MaxSeq /\ walk.top >= walk.bottom - 1

NewestSeen ==
  IF walk.cursor # None
  THEN walk.seen = (walk.cursor + 1) .. walk.top /\ walk.cursor < walk.top
  ELSE \A q \in MinSeq .. walk.top : q \in walk.seen

OldestSeen ==
  IF walk.cursor # None
  THEN walk.seen = walk.bottom .. (walk.cursor - 1) /\ walk.cursor <= MaxSeq
  ELSE walk.overtaken \/ \A q \in MinSeq .. walk.top : q \in walk.seen

WalkInv ==
  walk # None =>
    WalkType /\ (IF walk.newest_first THEN NewestSeen ELSE OldestSeen)

LogInv == Counters /\ LogIntact /\ WalkInv

-------------------------------------------------------------------------------
\* The number of rows in a range of sequence numbers.
LEMMA RangeCount ==
  ASSUME NEW a \in Int, NEW b \in Int, a <= b + 1
  PROVE  IsFiniteSet(a .. b) /\ Cardinality(a .. b) = b - a + 1
<1>1. CASE a > b
  <2>1. a .. b = {}
    BY <1>1
  <2> QED
    BY <2>1, <1>1, FS_EmptySet
<1>2. CASE a <= b
  BY <1>2, FS_Interval
<1> QED
  BY <1>1, <1>2

\* How many numbers of a range a scan meets before q, in either direction.
LEMMA ScanDown ==
  ASSUME NEW a \in Int, NEW b \in Int, NEW q \in a .. b
  PROVE  Rank(a .. b, q, TRUE) = b - q
<1>1. {r \in a .. b : r > q} = (q + 1) .. b
  OBVIOUS
<1>2. q + 1 \in Int /\ q + 1 <= b + 1
  OBVIOUS
<1>3. Cardinality((q + 1) .. b) = b - (q + 1) + 1
  BY <1>2, RangeCount
<1>4. b - (q + 1) + 1 = b - q
  OBVIOUS
<1>5. Rank(a .. b, q, TRUE) = Cardinality({r \in a .. b : r > q})
  BY Zenon DEF Rank
<1> QED
  BY <1>1, <1>3, <1>4, <1>5, Zenon

\* Oldest first, the rank of a row is its distance from the bottom.
LEMMA ScanUp ==
  ASSUME NEW a \in Int, NEW b \in Int, NEW q \in a .. b
  PROVE  Rank(a .. b, q, FALSE) = q - a
<1>1. {r \in a .. b : r < q} = a .. (q - 1)
  OBVIOUS
<1>2. q - 1 \in Int /\ a <= (q - 1) + 1
  OBVIOUS
<1>3. Cardinality(a .. (q - 1)) = (q - 1) - a + 1
  BY <1>2, RangeCount
<1>4. (q - 1) - a + 1 = q - a
  OBVIOUS
<1>5. Rank(a .. b, q, FALSE) = Cardinality({r \in a .. b : r < q})
  BY Zenon DEF Rank
<1> QED
  BY <1>1, <1>3, <1>4, <1>5, Zenon

\* Compaction removes exactly the `target` oldest rows.
LEMMA PrunedIsRange ==
  ASSUME Counters, LogIntact, NEW target \in 1 .. live
  PROVE  /\ Pruned(target) = MinSeq .. (MinSeq + target - 1)
         /\ Cardinality(Pruned(target)) = target
<1>1. MinSeq \in Int /\ MaxSeq \in Int /\ next = MaxSeq + 1
      /\ MinSeq + target - 1 <= MaxSeq /\ target \in Nat \ {0}
  BY DEF MinSeq, MaxSeq, Counters
<1>2. DOMAIN rows = MinSeq .. MaxSeq
  BY DEF LogIntact
<1>3. \A q \in MinSeq .. MaxSeq :
        /\ {r \in DOMAIN rows : MinSeq <= r /\ r < q}
             = {r \in MinSeq .. MaxSeq : r < q}
        /\ MinSeq <= q /\ q < next
  BY <1>1, <1>2
<1>4. \A q \in MinSeq .. MaxSeq :
        Cardinality({r \in DOMAIN rows : MinSeq <= r /\ r < q})
          = Rank(MinSeq .. MaxSeq, q, FALSE)
  BY <1>3, Zenon DEF Rank
<1>5. Pruned(target)
        = {q \in MinSeq .. MaxSeq : Rank(MinSeq .. MaxSeq, q, FALSE) < target}
  BY <1>2, <1>3, <1>4 DEF Pruned
<1>6. Pruned(target) = {q \in MinSeq .. MaxSeq : q - MinSeq < target}
  <2>1. \A q \in MinSeq .. MaxSeq :
          Rank(MinSeq .. MaxSeq, q, FALSE) = q - MinSeq
    BY <1>1, ScanUp
  <2> QED
    BY <1>5, <2>1, Zenon
<1>7. {q \in MinSeq .. MaxSeq : q - MinSeq < target}
        = MinSeq .. (MinSeq + target - 1)
  BY <1>1
<1>8. Cardinality(MinSeq .. (MinSeq + target - 1))
        = (MinSeq + target - 1) - MinSeq + 1
  BY <1>1, RangeCount
<1>9. (MinSeq + target - 1) - MinSeq + 1 = target
  BY <1>1
<1> QED
  BY <1>6, <1>7, <1>8, <1>9, Zenon

\* The two fields of a page.
LEMMA PageFields ==
  ASSUME NEW p, NEW S, NEW c, p = [seqs |-> S, next_cursor |-> c]
  PROVE  p.seqs = S /\ p.next_cursor = c
  OBVIOUS

\* A newest-first page is the `limit` rows down from its start, and its cursor
\* the row below, if there is one.
LEMMA NewestPage ==
  ASSUME Counters, LogIntact, NEW limit \in Nat \ {0},
         NEW start \in MinSeq .. MaxSeq, NEW cursor,
         cursor = start \/ (cursor = None /\ start = MaxSeq)
  PROVE  /\ CursorPage(cursor, limit, TRUE).seqs
              = {q \in MinSeq .. start : start - q < limit}
         /\ CursorPage(cursor, limit, TRUE).next_cursor
              = IF start - limit >= MinSeq THEN start - limit ELSE None
<1> DEFINE C == MinSeq .. start
           last == {q \in C : Rank(C, q, TRUE) = limit - 1}
           hits == {q \in C : Rank(C, q, TRUE) < limit}
           after == IF last = {} THEN None
                    ELSE CursorAfter(CHOOSE q \in last : TRUE, TRUE)
<1>1. /\ MinSeq \in Int /\ MaxSeq \in Int /\ start \in Int
      /\ live # 0 /\ start >= MinSeq /\ start <= MaxSeq
  BY DEF MinSeq, MaxSeq, Counters
<1>2. Ahead(start, TRUE) = C
  BY <1>1 DEF Ahead, LogIntact
<1>3. (IF cursor # None THEN cursor ELSE IF TRUE THEN MaxSeq ELSE MinSeq) = start
  BY <1>1, StatementsAssumption
<1>4. CursorPage(cursor, limit, TRUE) = [seqs |-> hits, next_cursor |-> after]
  <2>1. ~(live = 0 \/ start > MaxSeq \/ start < MinSeq)
    BY <1>1
  <2> QED
    BY <1>2, <1>3, <2>1, Zenon DEF CursorPage
<1>5. /\ last = {q \in {start - limit + 1} : q >= MinSeq}
      /\ hits = {q \in C : start - q < limit}
  <2>1. \A q \in C : Rank(C, q, TRUE) = start - q
    BY <1>1, ScanDown
  <2>2. last = {q \in C : start - q = limit - 1}
    BY <2>1, Zenon
  <2>3. hits = {q \in C : start - q < limit}
    BY <2>1, Zenon
  <2>4. {q \in C : start - q = limit - 1} = {q \in {start - limit + 1} : q >= MinSeq}
    BY <1>1
  <2> QED
    BY <2>2, <2>3, <2>4, Zenon
<1> HIDE DEF C, last, hits, after
<1>6. CursorPage(cursor, limit, TRUE).seqs = hits
  BY <1>4, PageFields, Zenon
<1>7. CursorPage(cursor, limit, TRUE).next_cursor = after
  BY <1>4, PageFields, Zenon
<1>8. CASE start - limit + 1 < MinSeq
  <2>1. last = {} /\ ~(start - limit >= MinSeq)
    BY <1>1, <1>5, <1>8
  <2> QED
    BY <1>5, <1>6, <1>7, <2>1, Zenon DEF C, after
<1>9. CASE start - limit + 1 >= MinSeq
  <2>1. last = {start - limit + 1}
    BY <1>1, <1>5, <1>9
  <2>2. (CHOOSE q \in last : TRUE) = start - limit + 1
    BY <2>1
  <2>3. CursorAfter(start - limit + 1, TRUE)
          = IF start - limit >= MinSeq THEN start - limit ELSE None
    BY <1>1 DEF CursorAfter
  <2>4. last # {}
    BY <2>1
  <2> QED
    BY <1>5, <1>6, <1>7, <2>2, <2>3, <2>4, Zenon DEF C, after
<1>10. start - limit + 1 < MinSeq \/ start - limit + 1 >= MinSeq
  BY <1>1
<1> QED
  BY <1>8, <1>9, <1>10, Zenon

\* An oldest-first page is the `limit` rows up from its start.
LEMMA OldestPage ==
  ASSUME Counters, LogIntact, NEW limit \in Nat \ {0},
         NEW start \in MinSeq .. MaxSeq, NEW cursor,
         cursor = start \/ (cursor = None /\ start = MinSeq)
  PROVE  /\ CursorPage(cursor, limit, FALSE).seqs
              = {q \in start .. MaxSeq : q - start < limit}
         /\ CursorPage(cursor, limit, FALSE).next_cursor
              = IF start + limit <= MaxSeq THEN start + limit ELSE None
<1> DEFINE C == start .. MaxSeq
           last == {q \in C : Rank(C, q, FALSE) = limit - 1}
           hits == {q \in C : Rank(C, q, FALSE) < limit}
           after == IF last = {} THEN None
                    ELSE CursorAfter(CHOOSE q \in last : TRUE, FALSE)
<1>1. /\ MinSeq \in Int /\ MaxSeq \in Int /\ start \in Int
      /\ live # 0 /\ start >= MinSeq /\ start <= MaxSeq
  BY DEF MinSeq, MaxSeq, Counters
<1>2. Ahead(start, FALSE) = C
  BY <1>1 DEF Ahead, LogIntact
<1>3. (IF cursor # None THEN cursor ELSE IF FALSE THEN MaxSeq ELSE MinSeq) = start
  BY <1>1, StatementsAssumption
<1>4. CursorPage(cursor, limit, FALSE) = [seqs |-> hits, next_cursor |-> after]
  <2>1. ~(live = 0 \/ start > MaxSeq \/ start < MinSeq)
    BY <1>1
  <2> QED
    BY <1>2, <1>3, <2>1, Zenon DEF CursorPage
<1>5. /\ last = {q \in {start + limit - 1} : q <= MaxSeq}
      /\ hits = {q \in C : q - start < limit}
  <2>1. \A q \in C : Rank(C, q, FALSE) = q - start
    BY <1>1, ScanUp
  <2>2. last = {q \in C : q - start = limit - 1}
    BY <2>1, Zenon
  <2>3. hits = {q \in C : q - start < limit}
    BY <2>1, Zenon
  <2>4. {q \in C : q - start = limit - 1} = {q \in {start + limit - 1} : q <= MaxSeq}
    BY <1>1
  <2> QED
    BY <2>2, <2>3, <2>4, Zenon
<1> HIDE DEF C, last, hits, after
<1>6. CursorPage(cursor, limit, FALSE).seqs = hits
  BY <1>4, PageFields, Zenon
<1>7. CursorPage(cursor, limit, FALSE).next_cursor = after
  BY <1>4, PageFields, Zenon
<1>8. CASE start + limit - 1 > MaxSeq
  <2>1. last = {} /\ ~(start + limit <= MaxSeq)
    BY <1>1, <1>5, <1>8
  <2> QED
    BY <1>5, <1>6, <1>7, <2>1, Zenon DEF C, after
<1>9. CASE start + limit - 1 <= MaxSeq
  <2>1. last = {start + limit - 1}
    BY <1>1, <1>5, <1>9
  <2>2. (CHOOSE q \in last : TRUE) = start + limit - 1
    BY <2>1
  <2>3. CursorAfter(start + limit - 1, FALSE)
          = IF start + limit <= MaxSeq THEN start + limit ELSE None
    BY <1>1 DEF CursorAfter
  <2>4. last # {}
    BY <2>1
  <2> QED
    BY <1>5, <1>6, <1>7, <2>2, <2>3, <2>4, Zenon DEF C, after
<1>10. start + limit - 1 > MaxSeq \/ start + limit - 1 <= MaxSeq
  BY <1>1
<1> QED
  BY <1>8, <1>9, <1>10, Zenon

\* A cursor outside the stored rows, or an empty log, gives an empty page.
LEMMA StalePage ==
  ASSUME NEW limit, NEW newest_first, NEW cursor,
         live = 0 \/ (cursor # None /\ (cursor > MaxSeq \/ cursor < MinSeq))
  PROVE  CursorPage(cursor, limit, newest_first) = NoRows
  BY DEF CursorPage

-------------------------------------------------------------------------------
\* An empty log is intact.
LEMMA LogInit == Init => LogInv
<1> SUFFICES ASSUME Init PROVE LogInv
  OBVIOUS
<1>1. Counters /\ MinSeq = 0 /\ MaxSeq = -1
  BY StatementsAssumption DEF Init, Counters, MinSeq, MaxSeq
<1>2. LogIntact
  BY <1>1 DEF Init, LogIntact, EmptyAggregate
<1> QED
  BY <1>1, <1>2 DEF LogInv, WalkInv, Init

\* A longer log, or a shorter one, leaves what a reader has seen as it was.
LEMMA WalkOnGrowth ==
  ASSUME WalkInv, Counters, Counters', UNCHANGED walk,
         MinSeq' >= MinSeq, MaxSeq' >= MaxSeq
  PROVE  WalkInv'
<1> SUFFICES ASSUME walk # None
    PROVE  WalkType' /\ (IF walk.newest_first THEN NewestSeen' ELSE OldestSeen')
  BY DEF WalkInv
<1>1. /\ MinSeq \in Int /\ MaxSeq \in Int /\ MinSeq' \in Int /\ MaxSeq' \in Int
      /\ WalkType /\ walk' = walk
      /\ walk.bottom \in Nat /\ walk.top \in Int /\ walk.cursor \in Nat \cup {None}
  BY DEF WalkInv, WalkType, Walk, Counters, MinSeq, MaxSeq
<1>2. WalkType'
  BY <1>1 DEF WalkType
<1>3. CASE walk.newest_first
  <2>1. NewestSeen
    BY <1>3 DEF WalkInv
  <2> QED
    BY <1>1, <1>2, <1>3, <2>1 DEF NewestSeen
<1>4. CASE ~walk.newest_first
  <2>1. OldestSeen
    BY <1>4 DEF WalkInv
  <2> QED
    BY <1>1, <1>2, <1>4, <2>1, StatementsAssumption DEF OldestSeen
<1> QED
  BY <1>3, <1>4

\* A charge appends a row at the end of the log.
LEMMA AppendKeepsLog ==
  ASSUME LogInv, NEW kind \in Kinds, NEW start \in Nat, NEW end \in Nat,
         NEW amount \in Int, paid' \in Nat,
         AppendStatement(kind, start, end, amount)
  PROVE  LogInv'
<1> DEFINE row == [kind |-> kind, start |-> start, end |-> end,
                   amount |-> amount]
<1>1. /\ Counters /\ LogIntact /\ WalkInv
      /\ next' = next + 1 /\ live' = live + 1 /\ history' = Append(history, row)
      /\ rows' = [q \in DOMAIN rows \cup {next} |->
                    IF q = next THEN row ELSE rows[q]]
      /\ now' = now /\ aggregate' = aggregate /\ retention' = retention
      /\ walk' = walk /\ row \in Row
  BY DEF LogInv, AppendStatement, Row
<1> HIDE DEF row
<1>2. Counters'
  BY <1>1 DEF Counters
<1>3. MinSeq' = MinSeq /\ MaxSeq' = MaxSeq + 1 /\ next = MaxSeq + 1
      /\ MinSeq \in Nat /\ MaxSeq \in Int /\ MinSeq <= next
  BY <1>1 DEF Counters, MinSeq, MaxSeq
<1>4. LogIntact'
  <2>1. DOMAIN rows = MinSeq .. MaxSeq /\ aggregate.pruned_count = MinSeq
        /\ next = Len(history) /\ history \in Seq(Row)
        /\ \A q \in DOMAIN rows : rows[q] = history[q + 1]
    BY <1>1 DEF LogIntact, Counters
  <2>2. DOMAIN rows' = MinSeq' .. MaxSeq'
    BY <1>1, <1>3, <2>1
  <2>3. next' = Len(history') /\ history'[next + 1] = row
        /\ \A i \in 1 .. next : history'[i] = history[i]
    BY <1>1, <2>1
  <2>4. ASSUME NEW q \in DOMAIN rows'
        PROVE  rows'[q] = history'[q + 1]
    <3>1. CASE q = next
      BY <1>1, <2>3, <3>1
    <3>2. CASE q # next
      <4>1. q \in MinSeq .. MaxSeq /\ q + 1 \in 1 .. next
        BY <1>3, <2>2, <3>2
      <4> QED
        BY <1>1, <2>1, <2>3, <3>2, <4>1
    <3> QED
      BY <3>1, <3>2
  <2> QED
    BY <1>1, <1>3, <2>1, <2>2, <2>3, <2>4 DEF LogIntact
<1>5. WalkInv'
  BY <1>1, <1>2, <1>3, WalkOnGrowth
<1> QED
  BY <1>2, <1>4, <1>5 DEF LogInv

\* A compaction cuts the oldest rows off.
LEMMA CompactKeepsLog ==
  ASSUME LogInv, NEW override \in Keeps \cup {None}, Compact(override)
  PROVE  LogInv'
<1> DEFINE keep == IF override = None THEN retention ELSE override
           target == live - keep
           S == Pruned(target)
<1>1. /\ Counters /\ LogIntact /\ WalkInv
      /\ keep \in Nat /\ live \in Nat /\ live > keep
      /\ aggregate' = Merged(aggregate, S)
      /\ rows' = [q \in DOMAIN rows \ S |-> rows[q]]
      /\ live' = live - Cardinality(S)
      /\ UNCHANGED <<now, paid, next, retention, walk, history>>
  BY StatementsAssumption DEF LogInv, Compact, Counters
<1> HIDE DEF keep
<1>2. target \in 1 .. live
  BY <1>1
<1> HIDE DEF target
<1>3. S = MinSeq .. (MinSeq + target - 1) /\ Cardinality(S) = target
  BY <1>1, <1>2, PrunedIsRange
<1> HIDE DEF S
<1>4. Counters'
  BY <1>1, <1>2, <1>3 DEF Counters
<1>5. MinSeq' = MinSeq + target /\ MaxSeq' = MaxSeq /\ MinSeq \in Nat
      /\ MaxSeq \in Int /\ target \in Nat
  BY <1>1, <1>2, <1>3 DEF MinSeq, MaxSeq, Counters
<1>6. LogIntact'
  <2>1. DOMAIN rows = MinSeq .. MaxSeq /\ aggregate.pruned_count = MinSeq
        /\ next = Len(history)
        /\ \A q \in DOMAIN rows : rows[q] = history[q + 1]
    BY <1>1 DEF LogIntact
  <2>2. DOMAIN rows' = MinSeq' .. MaxSeq'
    BY <1>1, <1>3, <1>5, <2>1
  <2>3. aggregate'.pruned_count = aggregate.pruned_count + Cardinality(S)
    BY <1>1, Zenon DEF Merged
  <2>4. aggregate'.pruned_count = MinSeq'
    BY <1>3, <1>5, <2>1, <2>3
  <2>5. \A q \in DOMAIN rows' : rows'[q] = history'[q + 1]
    BY <1>1, <2>1
  <2> QED
    BY <1>1, <2>1, <2>2, <2>4, <2>5 DEF LogIntact
<1>7. WalkInv'
  BY <1>1, <1>4, <1>5, WalkOnGrowth
<1> QED
  BY <1>4, <1>6, <1>7 DEF LogInv

\* Reading a page changes the reader only.
LEMMA ReadKeepsLog ==
  ASSUME LogInv, UNCHANGED <<now, paid, logVars, retention, history>>
  PROVE  /\ Counters' /\ LogIntact' /\ MinSeq' = MinSeq /\ MaxSeq' = MaxSeq
         /\ MinSeq \in Nat /\ MaxSeq \in Int /\ MinSeq - 1 <= MaxSeq
  BY DEF LogInv, Counters, LogIntact, MinSeq, MaxSeq, logVars

\* The first page starts a walk.
LEMMA StartKeepsLog ==
  ASSUME LogInv, NEW limit \in Limits, NEW newest_first \in BOOLEAN,
         StartWalk(limit, newest_first)
  PROVE  LogInv'
<1> DEFINE page == CursorPage(None, limit, newest_first)
<1>1. /\ limit \in Nat \ {0} /\ Counters /\ LogIntact
      /\ walk' = [newest_first |-> newest_first, limit |-> limit,
                  cursor |-> page.next_cursor, seen |-> page.seqs,
                  bottom |-> MinSeq, top |-> MaxSeq, overtaken |-> FALSE]
      /\ UNCHANGED <<now, paid, logVars, retention, history>>
  BY StatementsAssumption DEF LogInv, StartWalk
<1>2. /\ Counters' /\ LogIntact' /\ MinSeq' = MinSeq /\ MaxSeq' = MaxSeq
      /\ MinSeq \in Nat /\ MaxSeq \in Int /\ MinSeq - 1 <= MaxSeq
  BY <1>1, ReadKeepsLog
<1> SUFFICES WalkInv'
  BY <1>2 DEF LogInv
<1> HIDE DEF page
<1>3. /\ walk'.newest_first = newest_first /\ walk'.cursor = page.next_cursor
      /\ walk'.seen = page.seqs /\ walk'.bottom = MinSeq /\ walk'.top = MaxSeq
      /\ walk'.overtaken = FALSE /\ walk'.limit = limit
  BY <1>1
<1>4. ASSUME page.seqs \subseteq Nat, page.next_cursor \in Nat \cup {None}
      PROVE  WalkType'
  BY <1>1, <1>2, <1>3, <1>4 DEF WalkType, Walk
<1>5. CASE live = 0
  <2>1. page = NoRows
    BY <1>5, StalePage DEF page
  <2>2. page.seqs = {} /\ page.next_cursor = None
    BY <2>1 DEF NoRows
  <2>3. MaxSeq < MinSeq
    BY <1>1, <1>5 DEF MinSeq, MaxSeq, Counters
  <2>4. WalkType'
    BY <1>4, <2>2
  <2>5. NewestSeen' /\ OldestSeen'
    BY <1>2, <1>3, <2>2, <2>3 DEF NewestSeen, OldestSeen
  <2> QED
    BY <2>4, <2>5 DEF WalkInv
<1>6. CASE live # 0 /\ newest_first
  <2>1. MaxSeq \in MinSeq .. MaxSeq
    BY <1>1, <1>6 DEF MinSeq, MaxSeq, Counters
  <2>2. page = CursorPage(None, limit, TRUE)
    BY <1>6, Zenon DEF page
  <2>3. /\ page.seqs = {q \in MinSeq .. MaxSeq : MaxSeq - q < limit}
        /\ page.next_cursor = IF MaxSeq - limit >= MinSeq
                              THEN MaxSeq - limit ELSE None
    BY <1>1, <2>1, <2>2, NewestPage
  <2>4. WalkType'
    BY <1>1, <1>2, <1>4, <2>3
  <2>5. NewestSeen'
    BY <1>1, <1>2, <1>3, <2>3, StatementsAssumption DEF NewestSeen
  <2> QED
    BY <1>3, <1>6, <2>4, <2>5 DEF WalkInv
<1>7. CASE live # 0 /\ ~newest_first
  <2>1. MinSeq \in MinSeq .. MaxSeq
    BY <1>1, <1>7 DEF MinSeq, MaxSeq, Counters
  <2>2. page = CursorPage(None, limit, FALSE)
    BY <1>7, Zenon DEF page
  <2>3. /\ page.seqs = {q \in MinSeq .. MaxSeq : q - MinSeq < limit}
        /\ page.next_cursor = IF MinSeq + limit <= MaxSeq
                              THEN MinSeq + limit ELSE None
    BY <1>1, <2>1, <2>2, OldestPage
  <2>4. WalkType'
    BY <1>1, <1>2, <1>4, <2>3
  <2>5. OldestSeen'
    BY <1>1, <1>2, <1>3, <2>3, StatementsAssumption DEF OldestSeen
  <2> QED
    BY <1>3, <1>7, <2>4, <2>5 DEF WalkInv
<1> QED
  BY <1>5, <1>6, <1>7

\* What the next page of a walk holds: it is disjoint from what was seen, and
\* it extends it to the new cursor or to the end.
LEMMA PageExtends ==
  ASSUME LogInv, NextPage
  PROVE  LET page == CursorPage(walk.cursor, walk.limit, walk.newest_first) IN
         /\ page.seqs \cap walk.seen = {} /\ page.seqs \subseteq Nat
         /\ page.next_cursor \in Nat \cup {None}
         /\ walk.newest_first =>
              IF page.next_cursor # None
              THEN /\ page.seqs \cup walk.seen
                        = (page.next_cursor + 1) .. walk.top
                   /\ page.next_cursor < walk.top
              ELSE \A q \in MinSeq .. walk.top : q \in page.seqs \cup walk.seen
         /\ ~walk.newest_first =>
              IF page.next_cursor # None
              THEN /\ page.seqs \cup walk.seen
                        = walk.bottom .. (page.next_cursor - 1)
                   /\ page.next_cursor <= MaxSeq
              ELSE \/ walk.cursor < MinSeq
                   \/ \A q \in MinSeq .. MaxSeq : q \in page.seqs \cup walk.seen
<1> DEFINE page == CursorPage(walk.cursor, walk.limit, walk.newest_first)
<1>1. /\ Counters /\ LogIntact /\ walk # None /\ walk.cursor # None
      /\ walk \in Walk /\ walk.bottom <= MinSeq /\ walk.top <= MaxSeq
  BY DEF LogInv, NextPage, WalkInv, WalkType
<1>2. /\ walk.cursor \in Nat /\ walk.limit \in Nat \ {0}
      /\ walk.newest_first \in BOOLEAN /\ walk.top \in Int
      /\ walk.bottom \in Nat /\ walk.seen \subseteq Nat
      /\ MinSeq \in Nat /\ MaxSeq \in Int
  BY <1>1 DEF Walk, Counters, MinSeq, MaxSeq
<1> DEFINE c == walk.cursor
           l == walk.limit
<1>3. CASE walk.newest_first
  <2>1. walk.seen = (c + 1) .. walk.top /\ c < walk.top
    BY <1>1, <1>3 DEF LogInv, WalkInv, NewestSeen
  <2>2. page = CursorPage(c, l, TRUE)
    BY <1>2, <1>3, Zenon
  <2>3. CASE live = 0 \/ c < MinSeq
    <3>1. page = NoRows
      BY <1>1, <2>2, <2>3, StalePage
    <3>2. page.seqs = {} /\ page.next_cursor = None
      BY <3>1 DEF NoRows
    <3>3. MinSeq > c \/ MinSeq > walk.top
      BY <1>1, <1>2, <2>3 DEF MinSeq, MaxSeq, Counters
    <3> HIDE DEF page
    <3>4. \A q \in MinSeq .. walk.top : q \in page.seqs \cup walk.seen
      BY <1>2, <2>1, <3>3
    <3> QED
      BY <1>3, <3>2, <3>4 DEF page
  <2>4. CASE live # 0 /\ c >= MinSeq
    <3>1. c \in MinSeq .. MaxSeq
      BY <1>1, <1>2, <2>1, <2>4
    <3>2. /\ page.seqs = {q \in MinSeq .. c : c - q < l}
          /\ page.next_cursor = IF c - l >= MinSeq THEN c - l ELSE None
      <4>1. l \in Nat \ {0}
        BY <1>2
      <4> HIDE DEF c, l
      <4>2. /\ CursorPage(c, l, TRUE).seqs = {q \in MinSeq .. c : c - q < l}
            /\ CursorPage(c, l, TRUE).next_cursor
                 = IF c - l >= MinSeq THEN c - l ELSE None
        BY <1>1, <3>1, <4>1, NewestPage
      <4> QED
        BY <2>2, <4>2, Zenon
    <3> HIDE DEF page
    <3>3. page.seqs \cap walk.seen = {} /\ page.seqs \subseteq Nat
      BY <1>2, <2>1, <3>2
    <3>4. CASE c - l >= MinSeq
      <4>1. page.next_cursor = c - l /\ c - l \in Nat
        BY <1>2, <3>2, <3>4
      <4>2. page.seqs \cup walk.seen = (c - l + 1) .. walk.top
        <5>1. page.seqs = (c - l + 1) .. c
          BY <1>2, <3>2, <3>4
        <5> QED BY <1>2, <2>1, <3>4, <4>1, <5>1
      <4>3. c - l < walk.top /\ c - l # None
        BY <1>2, <2>1, <4>1, StatementsAssumption
      <4> QED
        BY <1>3, <3>3, <4>1, <4>2, <4>3 DEF page
    <3>5. CASE ~(c - l >= MinSeq)
      <4>1. page.next_cursor = None
        BY <3>2, <3>5
      <4>2. \A q \in MinSeq .. walk.top : q \in page.seqs \cup walk.seen
        BY <1>2, <2>1, <3>2, <3>5
      <4> QED
        BY <1>3, <3>3, <4>1, <4>2 DEF page
    <3> QED
      BY <3>4, <3>5
  <2> QED
    BY <1>2, <2>3, <2>4
<1>4. CASE ~walk.newest_first
  <2>1. walk.seen = walk.bottom .. (c - 1) /\ c <= MaxSeq
    BY <1>1, <1>4 DEF LogInv, WalkInv, OldestSeen
  <2>2. page = CursorPage(c, l, FALSE)
    BY <1>2, <1>4, Zenon
  <2>3. CASE live = 0 \/ c < MinSeq
    <3>1. page = NoRows
      BY <1>1, <2>2, <2>3, StalePage
    <3>2. page.seqs = {} /\ page.next_cursor = None
      BY <3>1 DEF NoRows
    <3>3. c < MinSeq
      BY <1>1, <1>2, <2>1, <2>3 DEF MinSeq, MaxSeq, Counters
    <3> HIDE DEF page
    <3> QED
      BY <1>4, <3>2, <3>3 DEF page
  <2>4. CASE live # 0 /\ c >= MinSeq
    <3>1. c \in MinSeq .. MaxSeq
      BY <1>1, <1>2, <2>1, <2>4
    <3>2. /\ page.seqs = {q \in c .. MaxSeq : q - c < l}
          /\ page.next_cursor = IF c + l <= MaxSeq THEN c + l ELSE None
      <4>1. l \in Nat \ {0}
        BY <1>2
      <4> HIDE DEF c, l
      <4>2. /\ CursorPage(c, l, FALSE).seqs = {q \in c .. MaxSeq : q - c < l}
            /\ CursorPage(c, l, FALSE).next_cursor
                 = IF c + l <= MaxSeq THEN c + l ELSE None
        BY <1>1, <3>1, <4>1, OldestPage
      <4> QED
        BY <2>2, <4>2, Zenon
    <3> HIDE DEF page
    <3>3. page.seqs \cap walk.seen = {} /\ page.seqs \subseteq Nat
      BY <1>2, <2>1, <3>2
    <3>4. CASE c + l <= MaxSeq
      <4>1. page.next_cursor = c + l /\ c + l \in Nat
        BY <1>2, <3>2, <3>4
      <4>2. page.seqs \cup walk.seen = walk.bottom .. ((c + l) - 1)
        <5>1. page.seqs = c .. ((c + l) - 1)
          BY <1>1, <1>2, <3>2, <3>4
        <5> QED BY <1>1, <1>2, <2>1, <2>4, <4>1, <5>1
      <4>3. c + l # None
        BY <4>1, StatementsAssumption
      <4>4. /\ page.seqs \cup walk.seen = walk.bottom .. (page.next_cursor - 1)
            /\ page.next_cursor <= MaxSeq
        BY <3>4, <4>1, <4>2, Zenon
      <4> QED
        BY <1>4, <3>3, <4>1, <4>3, <4>4 DEF page
    <3>5. CASE ~(c + l <= MaxSeq)
      <4>1. page.next_cursor = None
        BY <3>2, <3>5
      <4>2. \A q \in MinSeq .. MaxSeq : q \in page.seqs \cup walk.seen
        BY <1>1, <1>2, <2>1, <3>2, <3>5
      <4> QED
        BY <1>4, <3>3, <4>1, <4>2 DEF page
    <3> QED
      BY <3>4, <3>5
  <2> QED
    BY <1>2, <2>3, <2>4
<1> QED
  BY <1>3, <1>4

\* The next page keeps what is known of the walk.
LEMMA NextKeepsLog ==
  ASSUME LogInv, NextPage
  PROVE  LogInv'
<1> DEFINE page == CursorPage(walk.cursor, walk.limit, walk.newest_first)
<1>1. /\ walk # None /\ walk.cursor # None
      /\ walk' = [walk EXCEPT !.cursor = page.next_cursor,
                              !.seen = @ \cup page.seqs,
                              !.top = IF walk.newest_first THEN @ ELSE MaxSeq,
                              !.overtaken = walk.cursor < MinSeq]
      /\ UNCHANGED <<now, paid, logVars, retention, history>>
      /\ WalkType
  BY DEF NextPage, LogInv, WalkInv
<1>2. /\ Counters' /\ LogIntact' /\ MinSeq' = MinSeq /\ MaxSeq' = MaxSeq
      /\ MinSeq \in Nat /\ MaxSeq \in Int /\ MinSeq - 1 <= MaxSeq
  BY <1>1, ReadKeepsLog
<1> SUFFICES WalkInv'
  BY <1>2 DEF LogInv
<1>3. /\ page.seqs \subseteq Nat /\ page.next_cursor \in Nat \cup {None}
      /\ walk.newest_first =>
           IF page.next_cursor # None
           THEN /\ page.seqs \cup walk.seen = (page.next_cursor + 1) .. walk.top
                /\ page.next_cursor < walk.top
           ELSE \A q \in MinSeq .. walk.top : q \in page.seqs \cup walk.seen
      /\ ~walk.newest_first =>
           IF page.next_cursor # None
           THEN /\ page.seqs \cup walk.seen
                     = walk.bottom .. (page.next_cursor - 1)
                /\ page.next_cursor <= MaxSeq
           ELSE \/ walk.cursor < MinSeq
                \/ \A q \in MinSeq .. MaxSeq : q \in page.seqs \cup walk.seen
  BY PageExtends
<1> HIDE DEF page
<1>4. /\ walk \in Walk /\ walk.bottom <= MinSeq /\ walk.top <= MaxSeq
      /\ walk.top >= walk.bottom - 1
  BY <1>1 DEF WalkType
<1>5. /\ walk'.cursor = page.next_cursor
      /\ walk'.seen = page.seqs \cup walk.seen
      /\ walk'.top = (IF walk.newest_first THEN walk.top ELSE MaxSeq)
      /\ walk'.overtaken = (walk.cursor < MinSeq)
      /\ walk'.newest_first = walk.newest_first /\ walk'.bottom = walk.bottom
  BY <1>1, <1>4 DEF Walk
<1>6. WalkType'
  <2> DEFINE overtaken == walk.cursor < MinSeq
  <2>1. overtaken \in BOOLEAN
    OBVIOUS
  <2>2. walk' = [walk EXCEPT !.cursor = page.next_cursor,
                             !.seen = @ \cup page.seqs,
                             !.top = IF walk.newest_first THEN @ ELSE MaxSeq,
                             !.overtaken = overtaken]
    BY <1>1
  <2> HIDE DEF overtaken
  <2>3. walk' \in Walk
    BY <1>2, <1>3, <1>4, <2>1, <2>2 DEF Walk
  <2> QED
    BY <1>2, <1>4, <1>5, <2>3 DEF WalkType, Walk
<1>7. CASE walk.newest_first
  <2>1. NewestSeen'
    BY <1>2, <1>3, <1>5, <1>7 DEF NewestSeen
  <2> QED
    BY <1>5, <1>6, <1>7, <2>1 DEF WalkInv
<1>8. CASE ~walk.newest_first
  <2>1. OldestSeen'
    BY <1>2, <1>3, <1>5, <1>8 DEF OldestSeen
  <2> QED
    BY <1>5, <1>6, <1>8, <2>1 DEF WalkInv
<1> QED
  BY <1>7, <1>8

\* Every step keeps the invariant.
LEMMA LogStep ==
  ASSUME LogInv, [Next]_vars
  PROVE  LogInv'
<1>1. CASE UNCHANGED vars
  <2>1. UNCHANGED <<now, paid, logVars, retention, history>> /\ walk' = walk
    BY <1>1 DEF vars
  <2> QED
    BY <2>1, ReadKeepsLog, WalkOnGrowth DEF LogInv
<1>2. CASE Tick
  <2>1. /\ Counters' /\ LogIntact' /\ walk' = walk
        /\ MinSeq' = MinSeq /\ MaxSeq' = MaxSeq
        /\ MinSeq \in Int /\ MaxSeq \in Int
    BY <1>2 DEF Tick, LogInv, Counters, LogIntact, MinSeq, MaxSeq, logVars
  <2> QED
    BY <2>1, WalkOnGrowth DEF LogInv
<1>3. ASSUME NEW a \in Amounts, AppendInterval(a)
      PROVE  LogInv'
  <2>1. a \in Int /\ now \in Nat /\ paid \in Nat /\ "interval" \in Kinds
    BY StatementsAssumption DEF LogInv, Counters, Kinds
  <2>2. paid' \in Nat
    <3>1. now - paid \in Nat /\ Interval \in Nat \ {0}
      BY <1>3, <2>1, StatementsAssumption DEF AppendInterval
    <3>2. (now - paid) \div Interval \in Nat
      BY <3>1
    <3>3. ((now - paid) \div Interval) * Interval \in Nat
      BY <3>1, <3>2
    <3> QED
      BY <1>3, <2>1, <3>3 DEF AppendInterval
  <2> QED
    BY <1>3, <2>1, <2>2, AppendKeepsLog DEF AppendInterval
<1>4. ASSUME NEW a \in Amounts, NEW k \in {"usage", "one_off"},
             AppendAtOnce(k, a)
      PROVE  LogInv'
  <2>1. a \in Int /\ now \in Nat /\ paid' \in Nat /\ k \in Kinds
    BY <1>4, StatementsAssumption DEF LogInv, Counters, Kinds, AppendAtOnce
  <2> QED
    BY <1>4, <2>1, AppendKeepsLog DEF AppendAtOnce
<1>5. ASSUME NEW keep \in Keeps, SetRetention(keep)
      PROVE  LogInv'
  <2>1. /\ Counters' /\ LogIntact' /\ walk' = walk
        /\ MinSeq' = MinSeq /\ MaxSeq' = MaxSeq
        /\ MinSeq \in Int /\ MaxSeq \in Int
    BY <1>5, StatementsAssumption
    DEF SetRetention, LogInv, Counters, LogIntact, MinSeq, MaxSeq, logVars
  <2> QED
    BY <2>1, WalkOnGrowth DEF LogInv
<1>6. ASSUME NEW override \in Keeps \cup {None}, Compact(override)
      PROVE  LogInv'
  BY <1>6, CompactKeepsLog
<1>7. ASSUME NEW limit \in Limits, NEW newest_first \in BOOLEAN,
             StartWalk(limit, newest_first)
      PROVE  LogInv'
  BY <1>7, StartKeepsLog
<1>8. CASE NextPage
  BY <1>8, NextKeepsLog
<1> QED
  BY <1>1, <1>2, <1>3, <1>4, <1>5, <1>6, <1>7, <1>8 DEF Next

\* The log invariant holds throughout.
LEMMA LogInvariant == Spec => []LogInv
  BY LogInit, LogStep, PTL DEF Spec

(***************************************************************************)
(* However appends and compactions alternate, the stored rows are the      *)
(* latest ones, without a gap and unchanged, and the aggregate counts the  *)
(* others.                                                                 *)
(***************************************************************************)
THEOREM LogTheorem == Spec => []LogIntact
  BY LogInvariant, PTL DEF LogInv

(***************************************************************************)
(* A finished walk has met every row that is still stored and that it      *)
(* could have met, unless compaction overtook an oldest-first reader.      *)
(***************************************************************************)
THEOREM WalkTheorem == Spec => []WalkComplete
<1>1. LogInv => WalkComplete
  <2> SUFFICES ASSUME LogInv, WalkIsOver, walk.newest_first \/ ~walk.overtaken
      PROVE  WalkMissed = {}
    BY DEF WalkComplete
  <2>1. /\ DOMAIN rows = MinSeq .. MaxSeq /\ WalkType
        /\ \A q \in MinSeq .. walk.top : q \in walk.seen
    BY DEF LogInv, LogIntact, WalkInv, WalkIsOver, NewestSeen, OldestSeen
  <2>2. MinSeq \in Int /\ MaxSeq \in Int /\ walk.top \in Int
    BY <2>1 DEF LogInv, Counters, MinSeq, MaxSeq, WalkType, Walk
  <2> QED
    BY <2>1, <2>2 DEF WalkMissed
<1> QED
  BY <1>1, LogInvariant, PTL

(***************************************************************************)
(* No page returns a row the reader already has, whatever was appended or  *)
(* compacted since the page before.                                        *)
(***************************************************************************)
THEOREM OnceTheorem == Spec => NoRowTwice
<1>1. ASSUME LogInv, NextPage
      PROVE  walk.seen \cap CursorPage(walk.cursor, walk.limit,
                                       walk.newest_first).seqs = {}
  <2>1. CursorPage(walk.cursor, walk.limit, walk.newest_first).seqs
          \cap walk.seen = {}
    BY <1>1, PageExtends, Zenon
  <2> QED
    BY <2>1
<1>2. LogInv /\ [Next]_vars =>
        [NextPage => walk.seen \cap CursorPage(walk.cursor, walk.limit,
                                               walk.newest_first).seqs = {}]_vars
  BY <1>1
<1> QED
  BY <1>2, LogInvariant, PTL DEF Spec, NoRowTwice

-------------------------------------------------------------------------------
(***************************************************************************)
(* The aggregate.  It is what the first pruned_count rows of the history   *)
(* add up to; a compaction adds the next rows of the history, which it     *)
(* reads from the log under sequence numbers that are one lower.           *)
(***************************************************************************)
Starts(log, S) == {log[i].start : i \in S}
Ends(log, S)   == {log[i].end : i \in S}

\* Aggregate a sums up the rows S of the log, and has no span without rows.
SumsUp(a, log, S) ==
  /\ a.total_amount = SumOfAmounts(log, S)
  /\ \A k \in Kinds :
       a.totals[k] = SumOfAmounts(log, {i \in S : log[i].kind = k})
  /\ S # {} => a.oldest = Min(Starts(log, S)) /\ a.newest = Max(Ends(log, S))
  /\ S = {} => a.oldest = None /\ a.newest = None

Gone == 1 .. aggregate.pruned_count

AuditInv == SumsUp(aggregate, history, Gone)

\* The sum over rows that two logs share.
LEMMA AmountsAgree ==
  ASSUME NEW f, NEW g, NEW S, IsFiniteSet(S), S \subseteq DOMAIN f,
         S \subseteq DOMAIN g, \A x \in S : f[x] = g[x]
  PROVE  SumOfAmounts(f, S) = SumOfAmounts(g, S)
<1> DEFINE a == [q \in DOMAIN f |-> f[q].amount]
           b == [q \in DOMAIN g |-> g[q].amount]
<1>1. \A x \in S : a[x] = b[x]
  OBVIOUS
<1> HIDE DEF a, b
<1>2. SumFunctionOnSet(a, S) = SumFunctionOnSet(b, S)
  BY <1>1, SumCongruent
<1> QED
  BY <1>2 DEF SumOfAmounts, a, b

\* Amounts add up to an integer, over two disjoint sets to the sum of both.
LEMMA AmountsUnion ==
  ASSUME NEW f, NEW S, NEW T, IsFiniteSet(S), IsFiniteSet(T), S \cap T = {},
         S \cup T \subseteq DOMAIN f, \A x \in S \cup T : f[x] \in Row
  PROVE  /\ SumOfAmounts(f, S) \in Int /\ SumOfAmounts(f, T) \in Int
         /\ SumOfAmounts(f, S \cup T) = SumOfAmounts(f, S) + SumOfAmounts(f, T)
<1> DEFINE a == [q \in DOMAIN f |-> f[q].amount]
<1>1. \A x \in S \cup T : a[x] \in Int
  BY DEF Row
<1> HIDE DEF a
<1>2. SumFunctionOnSet(a, S) \in Int /\ SumFunctionOnSet(a, T) \in Int
  BY <1>1, SumInt
<1>3. SumFunctionOnSet(a, S \cup T)
        = SumFunctionOnSet(a, S) + SumFunctionOnSet(a, T)
  BY <1>1, SumUnion
<1> QED
  BY <1>2, <1>3 DEF SumOfAmounts, a

\* Row q of the log is row q + 1 of the history.
LEMMA AmountsShifted ==
  ASSUME NEW f, NEW g, NEW S \in SUBSET Int, IsFiniteSet(S), S \subseteq DOMAIN f,
         \A q \in S : q + 1 \in DOMAIN g /\ f[q] = g[q + 1] /\ f[q] \in Row
  PROVE  SumOfAmounts(f, S) = SumOfAmounts(g, {q + 1 : q \in S})
<1> DEFINE a == [q \in DOMAIN f |-> f[q].amount]
           b == [q \in DOMAIN g |-> g[q].amount]
           m == [q \in S |-> q + 1]
<1>1. \A x, y \in S : m[x] = m[y] => x = y
  OBVIOUS
<1>2. \A x \in S : a[x] = b[m[x]] /\ a[x] \in Int
  BY DEF Row
<1>3. PICK T : T = {q + 1 : q \in S}
  OBVIOUS
<1>4. T = {m[x] : x \in S}
  BY <1>3
<1> HIDE DEF a, b, m
<1>5. SumFunctionOnSet(a, S) = SumFunctionOnSet(b, T)
  <2>1. Renames(m, a, S, b, T)
    BY <1>1, <1>2, <1>4 DEF Renames
  <2> QED BY <2>1, SumRenamed
<1>6. SumOfAmounts(f, S) = SumOfAmounts(g, T)
  BY <1>5 DEF SumOfAmounts, a, b
<1> QED
  BY <1>3, <1>6, Zenon

\* The least and the greatest of two sets, taken in two steps.
LEMMA MinInSteps ==
  ASSUME NEW A \in SUBSET Int, IsFiniteSet(A), A # {},
         NEW B \in SUBSET Int, IsFiniteSet(B), B # {}
  PROVE  /\ Min(A \cup {Min(B)}) = Min(A \cup B) /\ Min(B) \in Int
         /\ Max(A \cup {Max(B)}) = Max(A \cup B) /\ Max(B) \in Int
<1>0. ASSUME NEW S \in SUBSET Int, IsFiniteSet(S), S # {}
      PROVE  /\ Min(S) \in S /\ \A y \in S : Min(S) <= y
             /\ Max(S) \in S /\ \A y \in S : Max(S) >= y
  BY <1>0, Extremes DEF Min, Max
<1>1. /\ Min(B) \in B /\ \A y \in B : Min(B) <= y
      /\ Max(B) \in B /\ \A y \in B : Max(B) >= y
  BY <1>0
<1> DEFINE C == A \cup {Min(B)}
           D == A \cup {Max(B)}
           E == A \cup B
<1>2. /\ IsFiniteSet(C) /\ IsFiniteSet(D) /\ IsFiniteSet(E)
      /\ C \in SUBSET Int /\ D \in SUBSET Int /\ E \in SUBSET Int
      /\ C # {} /\ D # {} /\ E # {}
  BY <1>1, FS_AddElement, FS_Union
<1>3. PICK lb, hb : lb = Min(B) /\ hb = Max(B)
  OBVIOUS
<1>4. PICK c, d, le, he : c = Min(C) /\ d = Max(D) /\ le = Min(E) /\ he = Max(E)
  OBVIOUS
<1>5. /\ c \in A \cup {lb} /\ \A y \in A \cup {lb} : c <= y
      /\ d \in A \cup {hb} /\ \A y \in A \cup {hb} : d >= y
  BY <1>0, <1>2, <1>3, <1>4
<1>6. /\ le \in A \cup B /\ \A y \in A \cup B : le <= y
      /\ he \in A \cup B /\ \A y \in A \cup B : he >= y
  BY <1>0, <1>2, <1>4
<1>7. /\ lb \in B /\ \A y \in B : lb <= y
      /\ hb \in B /\ \A y \in B : hb >= y
  BY <1>1, <1>3
<1>8. c = le /\ d = he
  BY <1>5, <1>6, <1>7
<1> QED
  BY <1>1, <1>3, <1>4, <1>8

\* The values of a field over finitely many rows.
LEMMA SpanFinite ==
  ASSUME NEW log, NEW S, IsFiniteSet(S), \A i \in S : log[i] \in Row
  PROVE  /\ Starts(log, S) \in SUBSET Int /\ IsFiniteSet(Starts(log, S))
         /\ Ends(log, S) \in SUBSET Int /\ IsFiniteSet(Ends(log, S))
         /\ S # {} => Starts(log, S) # {} /\ Ends(log, S) # {}
<1> DEFINE m == [i \in S |-> log[i].start]
           n == [i \in S |-> log[i].end]
<1>1. IsFiniteSet({m[i] : i \in S}) /\ IsFiniteSet({n[i] : i \in S})
  BY ImageFinite
<1>2. {m[i] : i \in S} = Starts(log, S) /\ {n[i] : i \in S} = Ends(log, S)
  BY DEF Starts, Ends
<1>3. \A i \in S : log[i].start \in Int /\ log[i].end \in Int
  BY DEF Row
<1>4. Starts(log, S) \in SUBSET Int /\ Ends(log, S) \in SUBSET Int
  BY <1>3 DEF Starts, Ends
<1>5. S # {} => Starts(log, S) # {} /\ Ends(log, S) # {}
  BY DEF Starts, Ends
<1> QED
  BY <1>1, <1>2, <1>4, <1>5, Zenon

\* An append leaves what was compacted before as it was.
LEMMA AppendKeepsSums ==
  ASSUME NEW h \in Seq(Row), NEW row \in Row, NEW a, NEW n \in 0 .. Len(h),
         SumsUp(a, h, 1 .. n)
  PROVE  SumsUp(a, Append(h, row), 1 .. n)
<1> DEFINE S == 1 .. n
           g == Append(h, row)
           Of(log, k) == {i \in S : log[i].kind = k}
<1>1. /\ S \subseteq DOMAIN h /\ S \subseteq DOMAIN g
      /\ \A i \in S : g[i] = h[i]
  OBVIOUS
<1>2. IsFiniteSet(S)
  BY FS_Interval
<1> HIDE DEF S, g
<1>3. SumOfAmounts(g, S) = SumOfAmounts(h, S)
  BY <1>1, <1>2, AmountsAgree
<1>4. ASSUME NEW k \in Kinds
      PROVE  SumOfAmounts(g, Of(g, k)) = SumOfAmounts(h, Of(h, k))
  <2>1. Of(g, k) = Of(h, k)
    BY <1>1
  <2>2. PICK R : R = Of(h, k)
    OBVIOUS
  <2>3. IsFiniteSet(R) /\ R \subseteq S
    BY <1>2, <2>2, FS_Subset
  <2>4. SumOfAmounts(g, R) = SumOfAmounts(h, R)
    <3>1. R \subseteq DOMAIN g /\ R \subseteq DOMAIN h /\ \A i \in R : g[i] = h[i]
      BY <1>1, <2>3
    <3> QED BY <2>3, <3>1, AmountsAgree
  <2> QED
    BY <2>1, <2>2, <2>4, Zenon
<1>5. Starts(g, S) = Starts(h, S) /\ Ends(g, S) = Ends(h, S)
  BY <1>1 DEF Starts, Ends
<1>6. SumsUp(a, h, S)
  BY DEF S
<1> HIDE DEF Of
<1>7. ASSUME NEW k \in Kinds
      PROVE  a.totals[k] = SumOfAmounts(g, {i \in S : g[i].kind = k})
  <2>1. a.totals[k] = SumOfAmounts(h, {i \in S : h[i].kind = k})
    BY <1>6, Zenon DEF SumsUp
  <2> QED
    BY <2>1, <1>4, Zenon DEF Of
<1>8. SumsUp(a, g, S)
  BY <1>3, <1>5, <1>6, <1>7, Zenon DEF SumsUp
<1> QED
  BY <1>8 DEF S, g

\* A compaction adds the rows it removes, and no others, to the aggregate.
LEMMA CompactKeepsSums ==
  ASSUME Counters, LogIntact, AuditInv, NEW target \in 1 .. live,
         NEW S, S = Pruned(target)
  PROVE  SumsUp(Merged(aggregate, S), history,
                1 .. (aggregate.pruned_count + target))
<1>1. /\ S = MinSeq .. (MinSeq + target - 1)
      /\ DOMAIN rows = MinSeq .. MaxSeq /\ MinSeq \in Nat /\ MaxSeq \in Int
      /\ aggregate.pruned_count = MinSeq /\ MinSeq + target - 1 <= MaxSeq
      /\ MaxSeq + 1 = Len(history) /\ history \in Seq(Row) /\ target \in Nat \ {0}
      /\ \A q \in DOMAIN rows : rows[q] = history[q + 1]
  BY PrunedIsRange DEF LogIntact, Counters, MinSeq, MaxSeq
<1> DEFINE G == Gone
           New == {q + 1 : q \in S}
           All == 1 .. (aggregate.pruned_count + target)
           a == aggregate
           b == Merged(aggregate, S)
           Of(T, k) == {i \in T : history[i].kind = k}
<1>2. /\ All = G \cup New /\ G \cap New = {} /\ New # {} /\ All # {}
      /\ All \subseteq DOMAIN history
  <2>1. New = (MinSeq + 1) .. (MinSeq + target)
    <3>1. ASSUME NEW i \in (MinSeq + 1) .. (MinSeq + target)
          PROVE  i - 1 \in S /\ i = (i - 1) + 1
      BY <1>1
    <3>2. (MinSeq + 1) .. (MinSeq + target) \subseteq New
      BY <3>1
    <3>3. New \subseteq (MinSeq + 1) .. (MinSeq + target)
      BY <1>1
    <3> QED BY <3>2, <3>3
  <2> HIDE DEF New
  <2> QED
    BY <1>1, <2>1 DEF Gone
<1>3. \A i \in All : history[i] \in Row
  BY <1>1, <1>2
<1>4. \A q \in S : /\ q \in DOMAIN rows /\ q \in Int /\ q + 1 \in DOMAIN history
                   /\ rows[q] = history[q + 1] /\ rows[q] \in Row
  BY <1>1
<1>5. IsFiniteSet(S) /\ IsFiniteSet(G) /\ IsFiniteSet(New)
  <2>1. IsFiniteSet(S) /\ IsFiniteSet(G) /\ IsFiniteSet(All)
    BY <1>1, FS_Interval DEF Gone
  <2> QED BY <1>2, <2>1, FS_Subset
<1>6. SumsUp(a, history, G)
  BY DEF AuditInv
<1>7. /\ b.total_amount = a.total_amount + Total(S)
      /\ b.totals = [k \in Kinds |-> a.totals[k] + Total(OfKind(S, k))]
      /\ b.oldest = Min({rows[q].start : q \in S} \cup ({a.oldest} \ {None}))
      /\ b.newest = Max({rows[q].end : q \in S} \cup ({a.newest} \ {None}))
  BY Zenon DEF Merged
<1> HIDE DEF a, b, G, All
<1>8. b.total_amount = SumOfAmounts(history, All)
  <2> HIDE DEF New
  <2>1. SumOfAmounts(history, G \cup New)
          = SumOfAmounts(history, G) + SumOfAmounts(history, New)
    BY <1>2, <1>3, <1>5, AmountsUnion
  <2>2. SumOfAmounts(rows, S) = SumOfAmounts(history, New)
    BY <1>4, <1>5, AmountsShifted DEF New
  <2> QED
    BY <1>2, <1>6, <1>7, <2>1, <2>2, Zenon DEF SumsUp, Total
<1>9. ASSUME NEW k \in Kinds
      PROVE  b.totals[k] = SumOfAmounts(history, Of(All, k))
  <2> DEFINE R == OfKind(S, k)
  <2>1. Of(New, k) = {q + 1 : q \in R} /\ R \subseteq S
    BY <1>4 DEF OfKind
  <2>2. /\ Of(All, k) = Of(G, k) \cup Of(New, k)
        /\ Of(G, k) \cap Of(New, k) = {}
        /\ Of(All, k) \subseteq All
    BY <1>2
  <2>3. IsFiniteSet(Of(G, k)) /\ IsFiniteSet(Of(New, k)) /\ IsFiniteSet(R)
    BY <1>5, <2>1, FS_Subset
  <2> HIDE DEF Of, R, New
  <2>4. SumOfAmounts(history, Of(G, k) \cup Of(New, k))
          = SumOfAmounts(history, Of(G, k)) + SumOfAmounts(history, Of(New, k))
    BY <1>2, <1>3, <2>2, <2>3, AmountsUnion
  <2>5. SumOfAmounts(rows, R) = SumOfAmounts(history, Of(New, k))
    <3>1. R \in SUBSET Int /\ R \subseteq DOMAIN rows
          /\ \A q \in R : /\ q + 1 \in DOMAIN history
                          /\ rows[q] = history[q + 1] /\ rows[q] \in Row
      BY <1>4, <2>1
    <3>2. SumOfAmounts(rows, R) = SumOfAmounts(history, {q + 1 : q \in R})
      BY <2>3, <3>1, AmountsShifted
    <3> QED BY <2>1, <3>2, Zenon
  <2>6. b.totals[k] = a.totals[k] + SumOfAmounts(rows, R)
    BY <1>7 DEF Total, R
  <2>7. a.totals[k] = SumOfAmounts(history, Of(G, k))
    BY <1>6, Zenon DEF SumsUp, Of
  <2> QED
    BY <2>2, <2>4, <2>5, <2>6, <2>7, Zenon
<1>10. b.oldest = Min(Starts(history, All)) /\ b.newest = Max(Ends(history, All))
  <2>1. /\ {rows[q].start : q \in S} = Starts(history, New)
        /\ {rows[q].end : q \in S} = Ends(history, New)
    BY <1>4 DEF Starts, Ends
  <2>2. /\ Starts(history, All) = Starts(history, New) \cup Starts(history, G)
        /\ Ends(history, All) = Ends(history, New) \cup Ends(history, G)
    BY <1>2 DEF Starts, Ends
  <2> HIDE DEF New
  <2>3. CASE G = {}
    <3>1. {a.oldest} \ {None} = {} /\ {a.newest} \ {None} = {}
      BY <1>6, <2>3 DEF SumsUp
    <3>2. Starts(history, G) = {} /\ Ends(history, G) = {}
      BY <2>3 DEF Starts, Ends
    <3> QED
      BY <1>7, <2>1, <2>2, <3>1, <3>2, Zenon
  <2>4. CASE G # {}
    <3> DEFINE A == Starts(history, New)
               B == Starts(history, G)
               C == Ends(history, New)
               D == Ends(history, G)
    <3>1. /\ A \in SUBSET Int /\ IsFiniteSet(A) /\ A # {}
          /\ B \in SUBSET Int /\ IsFiniteSet(B) /\ B # {}
          /\ C \in SUBSET Int /\ IsFiniteSet(C) /\ C # {}
          /\ D \in SUBSET Int /\ IsFiniteSet(D) /\ D # {}
      BY <1>2, <1>3, <1>5, <2>4, SpanFinite
    <3>2. a.oldest = Min(B) /\ a.newest = Max(D)
      BY <1>6, <2>4, Zenon DEF SumsUp
    <3> HIDE DEF A, B, C, D
    <3>3. /\ Min(A \cup {Min(B)}) = Min(A \cup B) /\ Min(B) \in Int
          /\ Max(C \cup {Max(D)}) = Max(C \cup D) /\ Max(D) \in Int
      BY <3>1, MinInSteps
    <3>4. {Min(B)} \ {None} = {Min(B)} /\ {Max(D)} \ {None} = {Max(D)}
      BY <3>3, StatementsAssumption
    <3> QED
      BY <1>7, <2>1, <2>2, <3>2, <3>3, <3>4, Zenon DEF A, B, C, D
  <2> QED
    BY <2>3, <2>4
<1> QED
  BY <1>2, <1>8, <1>9, <1>10, Zenon DEF SumsUp, b, All, Of

\* Every step keeps the aggregate what the removed rows add up to.
LEMMA AuditStep ==
  ASSUME LogInv, AuditInv, [Next]_vars
  PROVE  AuditInv'
<1>1. CASE UNCHANGED <<aggregate, history>>
  BY <1>1 DEF AuditInv, Gone
<1>2. ASSUME NEW kind \in Kinds, NEW start \in Nat, NEW end \in Nat,
             NEW amount \in Int, AppendStatement(kind, start, end, amount)
      PROVE  AuditInv'
  <2> DEFINE row == [kind |-> kind, start |-> start, end |-> end,
                     amount |-> amount]
  <2>1. /\ row \in Row /\ history' = Append(history, row)
        /\ aggregate' = aggregate /\ history \in Seq(Row)
    BY <1>2 DEF AppendStatement, Row, LogInv, Counters
  <2>2. aggregate.pruned_count \in 0 .. Len(history)
    BY DEF LogInv, LogIntact, Counters, MinSeq
  <2> HIDE DEF row
  <2>3. SumsUp(aggregate, Append(history, row), 1 .. aggregate.pruned_count)
    BY <2>1, <2>2, AppendKeepsSums DEF AuditInv, Gone
  <2> QED
    BY <2>1, <2>3 DEF AuditInv, Gone
<1>3. ASSUME NEW override \in Keeps \cup {None}, Compact(override)
      PROVE  AuditInv'
  <2> DEFINE keep == IF override = None THEN retention ELSE override
             target == live - keep
             S == Pruned(target)
  <2>1. /\ keep \in Nat /\ live \in Nat /\ live > keep
        /\ aggregate' = Merged(aggregate, S) /\ history' = history
    BY <1>3, StatementsAssumption DEF LogInv, Compact, Counters
  <2> HIDE DEF keep
  <2>2. target \in 1 .. live
    BY <2>1
  <2> HIDE DEF target
  <2>3. Cardinality(S) = target
    BY <2>2, PrunedIsRange DEF LogInv
  <2>4. aggregate'.pruned_count = aggregate.pruned_count + target
    BY <2>1, <2>3, Zenon DEF Merged
  <2>5. SumsUp(Merged(aggregate, S), history,
               1 .. (aggregate.pruned_count + target))
    BY <2>2, CompactKeepsSums DEF LogInv
  <2> HIDE DEF S
  <2> QED
    BY <2>1, <2>4, <2>5, Zenon DEF AuditInv, Gone
<1>4. ASSUME NEW amount \in Amounts, AppendInterval(amount)
      PROVE  AuditInv'
  <2>1. amount \in Int /\ now \in Nat /\ paid \in Nat /\ "interval" \in Kinds
    BY StatementsAssumption DEF LogInv, Counters, Kinds
  <2> QED
    BY <1>2, <1>4, <2>1 DEF AppendInterval
<1>5. ASSUME NEW amount \in Amounts, NEW k \in {"usage", "one_off"},
             AppendAtOnce(k, amount)
      PROVE  AuditInv'
  <2>1. amount \in Int /\ now \in Nat /\ k \in Kinds
    BY StatementsAssumption DEF LogInv, Counters, Kinds
  <2> QED
    BY <1>2, <1>5, <2>1 DEF AppendAtOnce
<1> QED
  BY <1>1, <1>3, <1>4, <1>5
  DEF Next, vars, logVars, Tick, SetRetention, StartWalk, NextPage

(***************************************************************************)
(* The aggregate that any number of compactions built up is what summing   *)
(* up all the removed rows at once gives: no amount and no span is lost or *)
(* counted twice.                                                          *)
(***************************************************************************)
THEOREM AuditTheorem == Spec => []AuditTrail
<1>1. Init => AuditInv
  <2> SUFFICES ASSUME Init PROVE AuditInv
    OBVIOUS
  <2>1. /\ history = << >> /\ aggregate.pruned_count = 0
        /\ aggregate.total_amount = 0 /\ aggregate.oldest = None
        /\ aggregate.newest = None /\ \A k \in Kinds : aggregate.totals[k] = 0
    BY DEF Init, EmptyAggregate
  <2>2. Gone = {} /\ \A k : {i \in {} : history[i].kind = k} = {}
    BY <2>1 DEF Gone
  <2>3. SumOfAmounts(history, {}) = 0
    BY SumEmpty DEF SumOfAmounts
  <2> QED
    BY <2>1, <2>2, <2>3, Zenon DEF AuditInv, SumsUp
<1>2. LogInv /\ AuditInv => AuditTrail
  <2> SUFFICES ASSUME LogInv, AuditInv PROVE AuditTrail
    OBVIOUS
  <2>1. aggregate.pruned_count > 0 => Gone # {}
    <3>1. aggregate.pruned_count \in Int
      BY DEF LogInv, LogIntact, Counters, MinSeq
    <3>2. aggregate.pruned_count > 0 => 1 \in Gone
      BY <3>1 DEF Gone
    <3> QED BY <3>2
  <2> QED
    BY <2>1, Zenon DEF AuditTrail, AuditInv, SumsUp, Gone, Starts, Ends
<1> QED
  BY <1>1, <1>2, LogInvariant, AuditStep, PTL DEF Spec

-------------------------------------------------------------------------------
(***************************************************************************)
(* Pages by offset.                                                        *)
(***************************************************************************)
\* Newest first, a page skips `offset` rows; its cursor may lie below the oldest.
LEMMA NewestByOffset ==
  ASSUME Counters, LogIntact, NEW limit \in Nat \ {0}, NEW offset \in Nat,
         offset < live, NEW below, below = MaxSeq - offset - limit
  PROVE  /\ OffsetPage(offset, limit, TRUE).seqs
              = {q \in MinSeq .. MaxSeq :
                   MaxSeq - q \in offset .. (offset + limit - 1)}
         /\ OffsetPage(offset, limit, TRUE).next_cursor
              = IF below >= 0 /\ below >= MinSeq - 1 THEN below ELSE None
<1> DEFINE C == MinSeq .. MaxSeq
           span == offset .. (offset + limit - 1)
           end == MaxSeq - offset - limit + 1
           last == {q \in C : Rank(C, q, TRUE) = offset + limit - 1}
           hits == {q \in C : Rank(C, q, TRUE) \in span}
           after == IF last = {} THEN None
                    ELSE OffsetCursorAfter(CHOOSE q \in last : TRUE, TRUE)
<1>1. /\ MinSeq \in Int /\ MinSeq \in Nat /\ MaxSeq \in Int
      /\ live = MaxSeq - MinSeq + 1
      /\ next = MaxSeq + 1 /\ end \in Int
  BY DEF MinSeq, MaxSeq, Counters
<1>2. {q \in DOMAIN rows : TRUE \/ MinSeq <= q} = C
  BY <1>1 DEF LogIntact
<1>3. OffsetPage(offset, limit, TRUE) = [seqs |-> hits, next_cursor |-> after]
  <2>1. ~(offset >= live)
    BY <1>1
  <2> QED
    BY <1>2, <2>1, Zenon DEF OffsetPage
<1>4. /\ last = {q \in {end} : q >= MinSeq}
      /\ hits = {q \in C : MaxSeq - q \in span}
  <2>1. \A q \in C : Rank(C, q, TRUE) = MaxSeq - q
    BY <1>1, ScanDown
  <2>2. last = {q \in C : MaxSeq - q = offset + limit - 1}
    BY <2>1, Zenon
  <2>3. hits = {q \in C : MaxSeq - q \in span}
    BY <2>1, Zenon
  <2>4. {q \in C : MaxSeq - q = offset + limit - 1} = {q \in {end} : q >= MinSeq}
    BY <1>1
  <2> QED
    BY <2>2, <2>3, <2>4, Zenon
<1> HIDE DEF C, span, last, hits, after
<1>5. /\ OffsetPage(offset, limit, TRUE).seqs = hits
      /\ OffsetPage(offset, limit, TRUE).next_cursor = after
  BY <1>3, PageFields, Zenon
<1>6. after = IF below >= 0 /\ below >= MinSeq - 1 THEN below ELSE None
  <2>1. CASE ~(end >= MinSeq)
    <3>1. last = {} /\ ~(below >= 0 /\ below >= MinSeq - 1)
      BY <1>1, <1>4, <2>1
    <3> QED BY <3>1, Zenon DEF after
  <2>2. CASE end >= MinSeq
    <3>1. last = {end}
      BY <1>1, <1>4, <2>2
    <3>2. last # {} /\ (CHOOSE q \in last : TRUE) = end
      BY <3>1
    <3>3. OffsetCursorAfter(end, TRUE) = IF below >= 0 /\ below >= MinSeq - 1 THEN below ELSE None
      BY <1>1, <2>2 DEF OffsetCursorAfter
    <3> QED BY <3>2, <3>3, Zenon DEF after
  <2> QED BY <2>1, <2>2
<1> QED
  BY <1>4, <1>5, <1>6, Zenon DEF C, span

\* Oldest first, it counts from the oldest row that is left.
LEMMA OldestByOffset ==
  ASSUME Counters, LogIntact, NEW limit \in Nat \ {0}, NEW offset \in Nat,
         offset < live
  PROVE  /\ OffsetPage(offset, limit, FALSE).seqs
              = {q \in MinSeq .. MaxSeq :
                   q - MinSeq \in offset .. (offset + limit - 1)}
         /\ OffsetPage(offset, limit, FALSE).next_cursor
              = IF MinSeq + offset + limit <= MaxSeq THEN MinSeq + offset + limit ELSE None
<1> DEFINE C == MinSeq .. MaxSeq
           span == offset .. (offset + limit - 1)
           end == MinSeq + offset + limit - 1
           last == {q \in C : Rank(C, q, FALSE) = offset + limit - 1}
           hits == {q \in C : Rank(C, q, FALSE) \in span}
           after == IF last = {} THEN None
                    ELSE OffsetCursorAfter(CHOOSE q \in last : TRUE, FALSE)
<1>1. /\ MinSeq \in Int /\ MinSeq \in Nat /\ MaxSeq \in Int
      /\ live = MaxSeq - MinSeq + 1
      /\ next = MaxSeq + 1 /\ end \in Int
  BY DEF MinSeq, MaxSeq, Counters
<1>2. {q \in DOMAIN rows : FALSE \/ MinSeq <= q} = C
  BY <1>1 DEF LogIntact
<1>3. OffsetPage(offset, limit, FALSE) = [seqs |-> hits, next_cursor |-> after]
  <2>1. ~(offset >= live)
    BY <1>1
  <2> QED
    BY <1>2, <2>1, Zenon DEF OffsetPage
<1>4. /\ last = {q \in {end} : q <= MaxSeq}
      /\ hits = {q \in C : q - MinSeq \in span}
  <2>1. \A q \in C : Rank(C, q, FALSE) = q - MinSeq
    BY <1>1, ScanUp
  <2>2. last = {q \in C : q - MinSeq = offset + limit - 1}
    BY <2>1, Zenon
  <2>3. hits = {q \in C : q - MinSeq \in span}
    BY <2>1, Zenon
  <2>4. {q \in C : q - MinSeq = offset + limit - 1} = {q \in {end} : q <= MaxSeq}
    BY <1>1
  <2> QED
    BY <2>2, <2>3, <2>4, Zenon
<1> HIDE DEF C, span, last, hits, after
<1>5. /\ OffsetPage(offset, limit, FALSE).seqs = hits
      /\ OffsetPage(offset, limit, FALSE).next_cursor = after
  BY <1>3, PageFields, Zenon
<1>6. after = IF MinSeq + offset + limit <= MaxSeq THEN MinSeq + offset + limit ELSE None
  <2>1. CASE ~(end <= MaxSeq)
    <3>1. last = {} /\ ~(MinSeq + offset + limit <= MaxSeq)
      BY <1>1, <1>4, <2>1
    <3> QED BY <3>1, Zenon DEF after
  <2>2. CASE end <= MaxSeq
    <3>1. last = {end}
      BY <1>1, <1>4, <2>2
    <3>2. last # {} /\ (CHOOSE q \in last : TRUE) = end
      BY <3>1
    <3>3. OffsetCursorAfter(end, FALSE)
            = IF MinSeq + offset + limit <= MaxSeq
              THEN MinSeq + offset + limit ELSE None
      BY <1>1, <2>2 DEF OffsetCursorAfter
    <3> QED BY <3>2, <3>3, Zenon DEF after
  <2> QED BY <2>1, <2>2
<1> QED
  BY <1>4, <1>5, <1>6, Zenon DEF C, span

(***************************************************************************)
(* The page after a page by offset is the page its cursor leads to, in     *)
(* both directions, also where the cursor points below the oldest row.     *)
(***************************************************************************)
THEOREM OffsetTheorem == Spec => []OffsetContinues
<1>1. ASSUME LogInv, NEW limit \in Limits \ {0}, NEW offset \in 0 .. live,
             NEW newest_first \in BOOLEAN
      PROVE  LET page == OffsetPage(offset, limit, newest_first)
                 rest == OffsetPage(offset + limit, limit, newest_first).seqs
             IN  rest = IF page.next_cursor = None THEN {}
                        ELSE CursorPage(page.next_cursor, limit,
                                        newest_first).seqs
  <2>0. /\ limit \in Nat \ {0} /\ Counters /\ LogIntact
        /\ live \in Nat /\ next \in Nat /\ live <= next
    <3>1. limit \in Nat \ {0}
      BY StatementsAssumption
    <3>2. Counters /\ LogIntact
      BY <1>1 DEF LogInv
    <3>3. live \in Nat /\ next \in Nat /\ live <= next
      BY <3>2 DEF Counters
    <3> QED BY <3>1, <3>2, <3>3
  <2>1. /\ limit \in Nat \ {0} /\ offset \in Nat /\ Counters /\ LogIntact
        /\ MinSeq \in Nat /\ MaxSeq \in Int /\ live = MaxSeq - MinSeq + 1
        /\ offset + limit \in Nat /\ live \in Nat
    BY <2>0 DEF MinSeq, MaxSeq
  <2>2. /\ NoRows.seqs = {} /\ NoRows.next_cursor = None
        /\ \A o, d : o >= live => OffsetPage(o, limit, d) = NoRows
    BY DEF NoRows, OffsetPage
  <2>3. CASE offset = live
    <3>1. offset >= live /\ offset + limit >= live
      BY <2>1, <2>3
    <3> QED
      BY <2>2, <3>1, Zenon
  <2>4. CASE offset < live /\ newest_first
    <3> DEFINE c == MaxSeq - offset - limit
               page == OffsetPage(offset, limit, TRUE)
               rest == OffsetPage(offset + limit, limit, TRUE)
    <3>1. page.next_cursor = IF c >= 0 /\ c >= MinSeq - 1 THEN c ELSE None
      BY <2>1, <2>4, NewestByOffset
    <3>2. c \in Int /\ c # None
      BY <2>1, StatementsAssumption
    <3> HIDE DEF page
    <3>3. CASE c >= MinSeq
      <4>0. c >= 0 /\ c >= MinSeq - 1
        BY <2>1, <3>3
      <4>1. page.next_cursor = c /\ c \in MinSeq .. MaxSeq /\ offset + limit < live
        BY <2>1, <3>1, <3>3, <4>0
      <4>2. rest.seqs = {q \in MinSeq .. MaxSeq :
                MaxSeq - q \in (offset + limit) .. ((offset + limit) + limit - 1)}
        BY <2>1, <4>1, NewestByOffset
      <4>3. CursorPage(c, limit, TRUE).seqs = {q \in MinSeq .. c : c - q < limit}
        <5> HIDE DEF c
        <5> QED BY <2>1, <4>1, NewestPage
      <4> HIDE DEF rest
      <4>4. {q \in MinSeq .. c : c - q < limit}
              = {q \in MinSeq .. MaxSeq :
                   MaxSeq - q \in (offset + limit) .. ((offset + limit) + limit - 1)}
        BY <2>1, <4>1
      <4>5. newest_first = TRUE
        BY <2>4
      <4> QED
        BY <3>2, <4>1, <4>2, <4>3, <4>4, <4>5, Zenon DEF page, rest
    <3>4. CASE c < MinSeq
      <4>1. offset + limit >= live
        BY <2>1, <3>4
      <4>2. rest.seqs = {}
        BY <2>2, <4>1, Zenon
      <4>3. CursorPage(c, limit, TRUE).seqs = {}
        <5>1. CursorPage(c, limit, TRUE) = NoRows
          BY <3>2, <3>4, StalePage
        <5> QED BY <2>2, <5>1, Zenon
      <4>4. page.next_cursor \in {c, None}
        BY <3>1
      <4>5. newest_first = TRUE
        BY <2>4
      <4> HIDE DEF c
      <4> QED
        BY <3>2, <4>2, <4>3, <4>4, <4>5 DEF page, rest
    <3> QED BY <2>1, <3>2, <3>3, <3>4
  <2>5. CASE offset < live /\ ~newest_first
    <3> DEFINE c == MinSeq + offset + limit
               page == OffsetPage(offset, limit, FALSE)
               rest == OffsetPage(offset + limit, limit, FALSE)
    <3>1. page.next_cursor = IF c <= MaxSeq THEN c ELSE None
      BY <2>1, <2>5, OldestByOffset
    <3>2. c \in Int /\ c # None
      BY <2>1, StatementsAssumption
    <3>0. newest_first = FALSE
      BY <2>5
    <3> HIDE DEF page
    <3>3. CASE c <= MaxSeq
      <4>1. page.next_cursor = c /\ c \in MinSeq .. MaxSeq /\ offset + limit < live
        BY <2>1, <3>1, <3>3
      <4>2. rest.seqs = {q \in MinSeq .. MaxSeq :
                q - MinSeq \in (offset + limit) .. ((offset + limit) + limit - 1)}
        BY <2>1, <4>1, OldestByOffset
      <4>3. CursorPage(c, limit, FALSE).seqs = {q \in c .. MaxSeq : q - c < limit}
        <5> HIDE DEF c
        <5> QED BY <2>1, <4>1, OldestPage
      <4> HIDE DEF rest
      <4>4. {q \in c .. MaxSeq : q - c < limit}
              = {q \in MinSeq .. MaxSeq :
                   q - MinSeq \in (offset + limit) .. ((offset + limit) + limit - 1)}
        BY <2>1, <4>1
      <4> QED
        BY <3>0, <3>2, <4>1, <4>2, <4>3, <4>4, Zenon DEF page, rest
    <3>4. CASE c > MaxSeq
      <4>1. offset + limit >= live /\ page.next_cursor = None
        BY <2>1, <3>1, <3>4
      <4>2. rest.seqs = {}
        BY <2>2, <4>1, Zenon
      <4> QED
        BY <3>0, <4>1, <4>2, Zenon DEF page, rest
    <3> QED BY <2>1, <3>2, <3>3, <3>4
  <2> QED
    BY <2>1, <2>3, <2>4, <2>5
<1>2. LogInv => OffsetContinues
  BY <1>1, Zenon DEF OffsetContinues
<1> QED
  BY <1>2, LogInvariant, PTL
===============================================================================
