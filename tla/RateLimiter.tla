---------------------------- MODULE RateLimiter ----------------------------
(***************************************************************************)
(* The bandwidth cap (RateLimiter in src/client/ratelimit.py): a token     *)
(* bucket that all concurrent downloads share.  A download reports each    *)
(* chunk after it received it (the progress callback in downloader.py) and *)
(* sleeps off the bucket's deficit before it receives more.                *)
(*                                                                         *)
(* The unit of data is what accrues in one tick, so that the rate is 1 and *)
(* the burst of one second is as many units as a second has ticks.  The    *)
(* code's floats lose nothing in these units.                              *)
(***************************************************************************)
EXTENDS Integers, FiniteSets

CONSTANTS
  Tasks,      \* concurrent downloads
  Burst,      \* one second's worth
  Chunks,     \* the sizes of a chunk
  MaxChunk,   \* the largest of them
  MaxCancels  \* bound: checks that are cancelled

ASSUME RateAssumption ==
  /\ IsFiniteSet(Tasks)
  /\ Burst \in Nat \ {0}
  /\ Chunks \subseteq 1..MaxChunk
  /\ MaxChunk \in Nat
  /\ MaxCancels \in Nat

VARIABLES
  allowance,  \* _allowance, as of _last
  since,      \* time since _last, saturating where it no longer matters
  wait,       \* wait[t]: what is left of t's sleep; 0 while it receives
  excess,     \* ghost: how much the last throttle calls are ahead of the cap
  cancels     \* cancelled checks so far

vars == <<allowance, since, wait, excess, cancels>>

Least(a, b) == IF a < b THEN a ELSE b
CountDown(a) == IF a > 0 THEN a - 1 ELSE 0
Deficit(a) == IF a < 0 THEN -a ELSE 0

\* The furthest the bucket can be overdrawn.
MaxDebt == Cardinality(Tasks) * MaxChunk * (MaxCancels + 1)

TypeOK ==
  /\ allowance \in -MaxDebt..Burst
  /\ since \in 0..Burst + MaxDebt
  /\ wait \in [Tasks -> 0..MaxDebt]
  /\ excess \in 0..Burst + MaxDebt
  /\ cancels \in 0..MaxCancels

Init ==
  /\ allowance = Burst
  /\ since = 0
  /\ wait = [t \in Tasks |-> 0]
  /\ excess = 0
  /\ cancels = 0

\* The refill at the beginning of throttle.
Refilled == Least(Burst, allowance + since)

\* Mutants: _last is not moved on; sleepers queue up behind each other.
ThrottleKeepsLast(t, n) ==
  /\ wait[t] = 0
  /\ allowance' = Refilled - n
  /\ wait' = [wait EXCEPT ![t] = Deficit(Refilled - n)]
  /\ excess' = excess + n
  /\ UNCHANGED <<since, cancels>>

ThrottleStacked(t, n) ==
  /\ wait[t] = 0
  /\ allowance' = Refilled - n
  /\ since' = 0
  /\ \E longest \in {wait[u] : u \in Tasks} :
       /\ \A u \in Tasks : wait[u] <= longest
       /\ wait' = [wait EXCEPT ![t] = longest + Deficit(Refilled - n)]
  /\ excess' = excess + n
  /\ UNCHANGED cancels

\* throttle(n): the lock is never held across an await, so this is one step.
Throttle(t, n) ==
  /\ wait[t] = 0
  /\ allowance' = Refilled - n
  /\ since' = 0
  /\ wait' = [wait EXCEPT ![t] = Deficit(Refilled - n)]
  /\ excess' = excess + n
  /\ UNCHANGED cancels

\* Data above the cap is worked off at the rate of the cap.
Tick ==
  /\ since' = Least(Burst + MaxDebt, since + 1)
  /\ wait' = [t \in Tasks |-> CountDown(wait[t])]
  /\ excess' = CountDown(excess)
  /\ UNCHANGED <<allowance, cancels>>

\* The check is cancelled and its sleepers with it; the bucket stays.
Cancel ==
  /\ cancels < MaxCancels
  /\ cancels' = cancels + 1
  /\ wait' = [t \in Tasks |-> 0]
  /\ UNCHANGED <<allowance, since, excess>>

Next == Tick \/ Cancel \/ \E t \in Tasks, n \in Chunks : Throttle(t, n)

Spec == Init /\ [][Next]_vars

-----------------------------------------------------------------------------
(* What the cap promises. *)

\* In any stretch of time the downloads together receive no more than the cap
\* allows for it, plus the burst, plus one chunk for each of them, although no
\* sleeper is told of what the others report meanwhile; a cancelled check may
\* add one more chunk for each (throttle).
CapHolds == excess <= Burst + Cardinality(Tasks) * MaxChunk * (cancels + 1)

\* A download never sleeps longer than the bucket takes to recover, so the cap
\* is not undershot by sleeping while there is allowance.
NoNeedlessSleep == \A t \in Tasks : wait[t] <= Deficit(allowance + since)
=============================================================================
