------------------------ MODULE ConcurrencyController ------------------------
(***************************************************************************)
(* segmentedConcurrencyController of downloader.go: how many ranges of a   *)
(* segmented transfer may be in flight.  The limit starts at one, grows by *)
(* one when as many ranges as it allows succeed under it, and shrinks by   *)
(* one when the server throttles.  A result counts only if the limit has   *)
(* not changed since its range was launched, which the generation tells.   *)
(* One operator per method: it maps a controller to the next.              *)
(***************************************************************************)
EXTENDS Integers

AtMost(m, n) == IF m > n THEN n ELSE m
AtLeastOne(n) == IF n < 1 THEN 1 ELSE n

Controller == [limit : Nat \ {0}, successes : Nat, rejected : Nat, generation : Nat]

\* Slip: off by one.
AdjustedCeilingOff(c, ceiling) ==
  IF c.rejected > 0 /\ AtLeastOne(ceiling) > c.rejected
  THEN AtLeastOne(c.rejected - 1)
  ELSE AtLeastOne(ceiling)

\* A limit that the server has rejected is not tried again.
AdjustedCeiling(c, ceiling) ==
  IF c.rejected > 0 /\ AtLeastOne(ceiling) >= c.rejected
  THEN AtLeastOne(c.rejected - 1)
  ELSE AtLeastOne(ceiling)

\* The limit becomes n; a change makes a new generation.
Limited(c, n) ==
  IF n = c.limit THEN c
  ELSE [c EXCEPT !.limit = n, !.successes = 0, !.generation = c.generation + 1]

ClampCeiling(c, ceiling) == Limited(c, AtMost(c.limit, AdjustedCeiling(c, ceiling)))

\* newSegmentedConcurrencyController
NewController == [limit |-> 1, successes |-> 0, rejected |-> 0, generation |-> 0]

\* The limit and the generation that launchState hands to a range.
LaunchState(c) == [limit |-> c.limit, generation |-> c.generation]

Current(c, l) == l.generation = c.generation

OnSuccess(old, l, ceiling) ==
  LET c == ClampCeiling(old, ceiling) IN
  IF ~(Current(c, l) /\ l.limit = c.limit) THEN c
  ELSE IF c.successes + 1 < c.limit THEN [c EXCEPT !.successes = c.successes + 1]
  ELSE IF c.limit < AdjustedCeiling(c, ceiling) THEN Limited(c, c.limit + 1)
  ELSE [c EXCEPT !.successes = 0]

\* The smallest limit above one under which the server throttled.
Rejected(c, n) ==
  IF n > 1 /\ (c.rejected = 0 \/ n < c.rejected) THEN [c EXCEPT !.rejected = n] ELSE c

OnThrottle(old, l, ceiling) ==
  LET c == ClampCeiling(old, ceiling)
      r == Rejected(c, l.limit)
  IN IF ~Current(c, l) THEN c
     ELSE [r EXCEPT !.limit = AtMost(AtLeastOne(l.limit - 1), AdjustedCeiling(r, ceiling)),
                    !.successes = 0,
                    !.generation = r.generation + 1]

OnRetryableError(old, l, ceiling) ==
  LET c == ClampCeiling(old, ceiling) IN
  IF ~(Current(c, l) /\ l.limit = c.limit) THEN c
  ELSE [c EXCEPT !.successes = 0, !.generation = c.generation + 1]
=============================================================================
