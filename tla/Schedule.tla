------------------------------ MODULE Schedule ------------------------------
(***************************************************************************)
(* Active hours (src/daemon/schedule.py): whether a time of day falls into *)
(* one of the configured windows, which may cross midnight.                *)
(***************************************************************************)
EXTENDS Integers

CONSTANT Day  \* the times of day: minutes in the code's windows

ASSUME ScheduleAssumption == Day \in Nat \ {0}

Times == 0..Day - 1

\* Mutant: every window is taken for one within a single day.
InWindowOneDay(now, w) == w[1] <= now /\ now <= w[2]

\* A window is a pair of a start and an end, both of them inside.
InWindow(now, w) ==
  IF w[1] <= w[2] THEN w[1] <= now /\ now <= w[2]
                  ELSE now >= w[1] \/ now <= w[2]

IsWithinActiveHours(windows, now) == windows = {} \/ \E w \in windows : InWindow(now, w)

-----------------------------------------------------------------------------
(* What a window means: from its start, time goes by until its end. *)

\* How long it takes from time a to the next time b.
Forward(a, b) == IF a <= b THEN b - a ELSE b - a + Day

Covers(w, now) == Forward(w[1], now) <= Forward(w[1], w[2])
=============================================================================
