---------------------------- MODULE WaitingQueue ----------------------------
(***************************************************************************)
(* The operations on e.waiting and e.stopped: Go slices of gids, modelled  *)
(* as sequences.  Positions are Go indices, which count from 0.            *)
(***************************************************************************)
EXTENDS Integers, Sequences, Functions

\* The element at index i is overwritten by the shift of its successors.
RemoveAt(q, i) ==
  [j \in 1 .. Len(q) - 1 |-> IF j < i THEN q[j] ELSE q[j + 1]]

\* slices.DeleteFunc(q, ... == g).  A queue holds g at most once
\* (QueueConsistent), so deleting every occurrence is deleting that one.
IndexOf(q, g) == CHOOSE i \in DOMAIN q : q[i] = g
Without(q, g) == IF g \in Range(q) THEN RemoveAt(q, IndexOf(q, g)) ELSE q

\* q = append(q, ""); copy(q[pos+1:], q[pos:]); q[pos] = g, for a Go index pos
\* with 0 <= pos <= len(q).
InsertAt(q, g, pos) ==
  [j \in 1 .. Len(q) + 1 |-> IF j <= pos THEN q[j]
                             ELSE IF j = pos + 1 THEN g ELSE q[j - 1]]

\* A nil position appends, as a position beyond the end does.
InsertWaiting(q, g, pos) ==
  IF pos >= Len(q) THEN Append(q, g)
  ELSE InsertAt(q, g, IF pos < 0 THEN 0 ELSE pos)

\* max is len(e.waiting) after the item was taken out.
ClampedQueuePosition(from, delta, max) ==
  LET base == IF from < 0 THEN 0 ELSE from
  IN  IF delta >= 0
      THEN IF base >= max \/ delta > max - base THEN max ELSE base + delta
      ELSE IF delta < -base THEN 0
           ELSE IF base + delta > max THEN max ELSE base + delta

Clamp(pos, max) == IF pos < 0 THEN 0 ELSE IF pos > max THEN max ELSE pos

\* The destination of an item found at the Go index idx.
Destination(how, idx, pos, max) ==
  Clamp(CASE how = "POS_SET" -> pos
          [] how = "POS_CUR" -> ClampedQueuePosition(idx, pos, max)
          [] how = "POS_END" -> ClampedQueuePosition(max + 1, pos, max), max)
=============================================================================
