-------------------------- MODULE RateLimiterProofs --------------------------
(***************************************************************************)
(* Proofs about RateLimiter, for any number of downloads, chunk sizes,     *)
(* caps and cancelled checks.                                              *)
(***************************************************************************)
EXTENDS RateLimiter, FiniteSetTheorems, TLAPS

-----------------------------------------------------------------------------
(* Arithmetic and cardinalities. *)

\* One chunk for every download.
K == Cardinality(Tasks) * MaxChunk

\* Products are numbers.
LEMMA Product == \A m, n \in Nat : m * n \in Nat /\ n * m = m * n /\ m * (n + 1) = m * n + m
OBVIOUS

\* A larger factor makes a larger product.
LEMMA ProductGrows ==
  ASSUME NEW m \in Nat, NEW a \in Nat, NEW b \in Nat, a + 1 <= b
  PROVE  m * a + m <= b * m
<1>1. PICK d \in Nat : b = a + 1 + d
  <2>1. b - a - 1 \in Nat /\ b = a + 1 + (b - a - 1)
    OBVIOUS
  <2> QED BY <2>1
<1>2. b * m = m * a + m + m * d
  BY <1>1
<1>3. m * d \in Nat /\ m * a \in Nat
  BY Product
<1> QED BY <1>2, <1>3

\* The constants.
LEMMA Constants ==
  /\ Cardinality(Tasks) \in Nat
  /\ K \in Nat
  /\ MaxDebt = K * (MaxCancels + 1)
  /\ Tasks # {} => MaxChunk <= K
<1>1. Cardinality(Tasks) \in Nat
  BY RateAssumption, FS_CardinalityType
<1>2. K \in Nat
  BY <1>1, RateAssumption, Product DEF K
<1>3. Tasks # {} => MaxChunk <= K
  <2> SUFFICES ASSUME Tasks # {} PROVE MaxChunk <= K
    OBVIOUS
  <2>1. Cardinality(Tasks) # 0
    BY RateAssumption, FS_EmptySet
  <2>2. 0 + 1 <= Cardinality(Tasks)
    BY <1>1, <2>1
  <2>3. MaxChunk * 0 + MaxChunk <= Cardinality(Tasks) * MaxChunk
    BY <1>1, <2>2, RateAssumption, ProductGrows
  <2> QED BY <2>3, RateAssumption DEF K
<1> QED BY <1>1, <1>2, <1>3 DEF MaxDebt, K

\* The debt that so many cancelled checks can leave.
LEMMA DebtGrows ==
  \A c \in Nat : /\ K * c \in Nat
                 /\ K * (c + 1) = K * c + K
                 /\ c <= MaxCancels => K * (c + 1) <= MaxDebt
<1> SUFFICES ASSUME NEW c \in Nat
             PROVE  /\ K * c \in Nat /\ K * (c + 1) = K * c + K
                    /\ c <= MaxCancels => K * (c + 1) <= MaxDebt
  OBVIOUS
<1>1. K * c \in Nat /\ K * (c + 1) = K * c + K
  BY Constants, Product
<1>2. ASSUME c <= MaxCancels PROVE K * (c + 1) <= MaxDebt
  <2>1. CASE c = MaxCancels
    BY <2>1, Constants, <1>1
  <2>2. CASE c + 1 <= MaxCancels
    <3>1. K * (c + 1) + K <= (MaxCancels + 1) * K
      BY <2>2, Constants, RateAssumption, ProductGrows
    <3>2. K * (c + 1) \in Nat /\ (MaxCancels + 1) * K = K * (MaxCancels + 1)
      BY Constants, RateAssumption, Product
    <3> QED BY <3>1, <3>2, Constants
  <2> QED BY <1>2, <2>1, <2>2, RateAssumption
<1> QED BY <1>1, <1>2

-----------------------------------------------------------------------------
(* The queue of the sleepers. *)

\* Those that sleep longer than t: they have reported after it.
Longer(t) == {u \in Tasks : wait[u] > wait[t]}

\* The longest sleeper but one chunk each covers the debt, whoever is asked: nobody
\* receives a second chunk before the bucket has recovered from the first.
Queue ==
  \A t \in Tasks :
    -(allowance + since) <= wait[t] + MaxChunk * Cardinality(Longer(t)) + K * cancels

Ranges ==
  /\ allowance \in Int /\ allowance <= Burst
  /\ since \in 0..Burst + MaxDebt
  /\ wait \in [Tasks -> Nat]
  /\ excess \in Nat
  /\ cancels \in 0..MaxCancels

RInv ==
  /\ Ranges
  /\ -allowance <= K * (cancels + 1)
  /\ excess = Burst - Refilled
  /\ NoNeedlessSleep
  /\ Queue

\* The longer sleepers are not all.
LEMMA LongerSize ==
  ASSUME Ranges, NEW t \in Tasks
  PROVE  /\ IsFiniteSet(Longer(t))
         /\ Cardinality(Longer(t)) \in Nat
         /\ Cardinality(Longer(t)) + 1 <= Cardinality(Tasks)
         /\ MaxChunk * Cardinality(Longer(t)) \in Nat
         /\ MaxChunk * Cardinality(Longer(t)) + MaxChunk <= K
<1>1. Longer(t) \subseteq Tasks \ {t}
  BY DEF Longer, Ranges
<1>2. IsFiniteSet(Tasks \ {t}) /\ Cardinality(Tasks \ {t}) = Cardinality(Tasks) - 1
  BY RateAssumption, FS_RemoveElement
<1>3. IsFiniteSet(Longer(t)) /\ Cardinality(Longer(t)) <= Cardinality(Tasks \ {t})
  BY <1>1, <1>2, FS_Subset
<1>4. Cardinality(Longer(t)) \in Nat
  BY <1>3, FS_CardinalityType
<1>5. Cardinality(Longer(t)) + 1 <= Cardinality(Tasks)
  BY <1>2, <1>3, <1>4, Constants
<1>6. MaxChunk * Cardinality(Longer(t)) + MaxChunk <= K
  BY <1>4, <1>5, Constants, RateAssumption, ProductGrows DEF K
<1>7. MaxChunk * Cardinality(Longer(t)) \in Nat
  BY <1>4, RateAssumption, Product
<1> QED BY <1>3, <1>4, <1>5, <1>6, <1>7

-----------------------------------------------------------------------------
(* The steps. *)

\* Initially the bucket is full.
LEMMA InitRInv == Init => RInv
<1> SUFFICES ASSUME Init PROVE RInv
  OBVIOUS
<1>1. allowance = Burst /\ since = 0 /\ excess = 0 /\ cancels = 0 /\ wait = [t \in Tasks |-> 0]
  BY DEF Init
<1>2. K * (0 + 1) \in Nat /\ K * 0 \in Nat /\ MaxDebt \in Nat
  BY Constants, RateAssumption, Product
<1>3. Ranges
  BY <1>1, <1>2, RateAssumption DEF Ranges
<1>4. -allowance <= K * (cancels + 1) /\ excess = Burst - Refilled
  BY <1>1, <1>2, RateAssumption DEF Refilled, Least
<1>5. NoNeedlessSleep
  BY <1>1, RateAssumption DEF NoNeedlessSleep, Deficit
<1>6. Queue
  <2> SUFFICES ASSUME NEW t \in Tasks
               PROVE  -(allowance + since) <= wait[t] + MaxChunk * Cardinality(Longer(t)) + K * cancels
    BY DEF Queue
  <2>1. MaxChunk * Cardinality(Longer(t)) \in Nat
    BY <1>3, LongerSize
  <2> QED BY <1>1, <1>2, <2>1, RateAssumption
<1> QED BY <1>3, <1>4, <1>5, <1>6 DEF RInv

\* The bucket after its refill.
LEMMA RefilledMeaning ==
  ASSUME RInv
  PROVE  /\ Refilled \in Int /\ Refilled <= Burst /\ Refilled <= allowance + since
         /\ Refilled = Burst \/ Refilled = allowance + since
         /\ -Refilled <= K * (cancels + 1)
         /\ K * cancels \in Nat /\ K * (cancels + 1) = K * cancels + K /\ K * (cancels + 1) \in Nat
         /\ K * (cancels + 1) <= MaxDebt /\ MaxDebt \in Nat
<1>1. cancels \in Nat /\ cancels <= MaxCancels
  BY RateAssumption DEF RInv, Ranges
<1>2. /\ K * cancels \in Nat /\ K * (cancels + 1) = K * cancels + K /\ K * (cancels + 1) \in Nat
      /\ K * (cancels + 1) <= MaxDebt
  BY <1>1, DebtGrows, Constants
<1>3. MaxDebt \in Nat
  BY Constants, RateAssumption, Product
<1>4. Refilled \in Int /\ Refilled <= Burst /\ Refilled <= allowance + since
      /\ (Refilled = Burst \/ Refilled = allowance + since)
  BY <1>3, RateAssumption DEF RInv, Ranges, Refilled, Least
<1>5. -Refilled <= K * (cancels + 1)
  BY <1>2, <1>3, <1>4, RateAssumption DEF RInv, Ranges
<1> QED BY <1>2, <1>3, <1>4, <1>5

\* A chunk more.
LEMMA ThrottleStep ==
  ASSUME RInv, NEW t \in Tasks, NEW n \in Chunks, Throttle(t, n)
  PROVE  RInv'
<1> DEFINE left == Refilled - n
<1>0. n \in Nat /\ n >= 1 /\ n <= MaxChunk /\ MaxChunk \in Nat /\ MaxChunk <= K /\ K \in Nat /\ Burst \in Nat
  BY RateAssumption, Constants
<1>1. /\ wait[t] = 0 /\ allowance' = left /\ since' = 0 /\ excess' = excess + n /\ cancels' = cancels
      /\ wait' = [wait EXCEPT ![t] = Deficit(left)]
  BY DEF Throttle
<1>2. /\ Refilled \in Int /\ Refilled <= Burst /\ Refilled <= allowance + since
      /\ Refilled = Burst \/ Refilled = allowance + since
      /\ K * cancels \in Nat /\ K * (cancels + 1) = K * cancels + K /\ MaxDebt \in Nat
  BY RefilledMeaning
<1>3. left \in Int /\ left <= Burst /\ Deficit(left) \in Nat /\ Deficit(left) >= -left
  BY <1>0, <1>2 DEF Deficit
<1>4. wait'[t] = Deficit(left) /\ \A u \in Tasks : u # t => wait'[u] = wait[u]
  BY <1>1 DEF RInv, Ranges
<1>5. Ranges'
  <2>1. wait' \in [Tasks -> Nat]
    BY <1>1, <1>3 DEF RInv, Ranges
  <2>2. allowance' \in Int /\ allowance' <= Burst /\ since' \in 0..Burst + MaxDebt /\ excess' \in Nat
    BY <1>0, <1>1, <1>2, <1>3 DEF RInv, Ranges
  <2> QED BY <1>1, <2>1, <2>2 DEF RInv, Ranges, MaxDebt
<1>6. -left <= MaxChunk * Cardinality(Longer(t)) + K * cancels + MaxChunk
  <2>1. MaxChunk * Cardinality(Longer(t)) \in Nat
    BY LongerSize DEF RInv
  <2>2. -(allowance + since) <= MaxChunk * Cardinality(Longer(t)) + K * cancels
    BY <1>1, <1>2, <2>1 DEF RInv, Queue
  <2>3. allowance + since \in Int
    BY <1>2 DEF RInv, Ranges
  <2> QED BY <1>0, <1>2, <2>1, <2>2, <2>3
<1>7. -allowance' <= K * (cancels' + 1)
  <2>1. MaxChunk * Cardinality(Longer(t)) \in Nat /\ MaxChunk * Cardinality(Longer(t)) + MaxChunk <= K
    BY LongerSize DEF RInv
  <2> QED BY <1>0, <1>1, <1>2, <1>3, <1>6, <2>1
<1>8. excess' = Burst - Refilled'
  <2>1. Refilled' = left
    BY <1>1, <1>3, <1>0 DEF Refilled, Least
  <2> QED BY <1>0, <1>1, <1>2, <2>1 DEF RInv, Ranges
<1>9. NoNeedlessSleep'
  <2> SUFFICES ASSUME NEW u \in Tasks PROVE wait'[u] <= Deficit(allowance' + since')
    BY DEF NoNeedlessSleep, Deficit
  <2>1. allowance' + since' = left
    BY <1>1, <1>3
  <2>2. CASE u = t
    BY <1>3, <1>4, <2>1, <2>2
  <2>3. CASE u # t
    <3>1. wait'[u] = wait[u] /\ wait[u] <= Deficit(allowance + since)
      BY <1>4, <2>3 DEF RInv, NoNeedlessSleep
    <3>2. Deficit(allowance + since) <= Deficit(left)
      BY <1>0, <1>2, <1>3 DEF Deficit, RInv, Ranges
    <3>3. wait[u] \in Nat /\ Deficit(allowance + since) \in Int
      BY <1>2 DEF RInv, Ranges, Deficit
    <3> QED BY <1>3, <2>1, <3>1, <3>2, <3>3
  <2> QED BY <2>2, <2>3
<1>10. Queue'
  <2> SUFFICES ASSUME NEW u \in Tasks
               PROVE  -(allowance' + since') <= wait'[u] + MaxChunk * Cardinality(Longer(u)') + K * cancels'
    BY DEF Queue, K
  <2>1. allowance' + since' = left /\ cancels' = cancels
    BY <1>1, <1>3
  <2>2. MaxChunk * Cardinality(Longer(u)') \in Nat
    <3>1. Longer(u)' \subseteq Tasks
      BY DEF Longer
    <3>2. Cardinality(Longer(u)') \in Nat
      BY <3>1, RateAssumption, FS_Subset, FS_CardinalityType
    <3> QED BY <3>2, <1>0, Product
  <2>3. wait'[u] \in Nat
    BY <1>5 DEF Ranges
  <2>4. CASE -left <= wait'[u]
    BY <1>2, <1>3, <2>1, <2>2, <2>3, <2>4
  <2>5. CASE ~(-left <= wait'[u])
    <3>1. Deficit(left) = -left /\ u # t
      BY <1>3, <1>4, <2>3, <2>5 DEF Deficit
    <3>2. wait'[u] = wait[u] /\ wait[u] < wait'[t] /\ wait[u] >= wait[t]
      BY <1>1, <1>3, <1>4, <2>3, <2>5, <3>1
    <3>3. Longer(u)' = Longer(u) \cup {t} /\ t \notin Longer(u)
      BY <1>1, <1>4, <3>1, <3>2, <2>3 DEF Longer
    <3>4. Cardinality(Longer(u)') = Cardinality(Longer(u)) + 1 /\ Cardinality(Longer(u)) \in Nat
      BY <3>3, FS_AddElement, LongerSize DEF RInv
    <3>5. MaxChunk * Cardinality(Longer(u)') = MaxChunk * Cardinality(Longer(u)) + MaxChunk
          /\ MaxChunk * Cardinality(Longer(u)) \in Nat
      BY <1>0, <3>4, Product
    <3>6. -(allowance + since) <= wait[u] + MaxChunk * Cardinality(Longer(u)) + K * cancels
      BY DEF RInv, Queue
    <3>7. allowance + since \in Int
      BY <1>2 DEF RInv, Ranges
    <3>8. CASE Refilled = allowance + since
      BY <1>0, <1>2, <1>3, <2>1, <2>3, <3>2, <3>5, <3>6, <3>7, <3>8
    <3>9. CASE Refilled = Burst
      BY <1>0, <1>2, <1>3, <2>1, <2>3, <3>2, <3>5, <3>9
    <3> QED BY <1>2, <3>8, <3>9
  <2> QED BY <2>4, <2>5
<1> QED BY <1>5, <1>7, <1>8, <1>9, <1>10 DEF RInv, K

\* Time passes.
LEMMA TickStep ==
  ASSUME RInv, Tick
  PROVE  RInv'
<1>1. /\ since' = Least(Burst + MaxDebt, since + 1) /\ wait' = [t \in Tasks |-> CountDown(wait[t])]
      /\ excess' = CountDown(excess) /\ allowance' = allowance /\ cancels' = cancels
  BY DEF Tick
<1>2. /\ K * cancels \in Nat /\ K * (cancels + 1) \in Nat /\ K * (cancels + 1) <= MaxDebt /\ MaxDebt \in Nat
      /\ Burst \in Nat \ {0} /\ MaxChunk \in Nat
      /\ allowance \in Int /\ since \in Nat /\ since <= Burst + MaxDebt
      /\ -allowance <= K * (cancels + 1) /\ allowance <= Burst
  BY RefilledMeaning, RateAssumption DEF RInv, Ranges
<1>3. \/ since' = since + 1
      \/ since' = since /\ allowance + since >= Burst
  BY <1>1, <1>2 DEF Least
<1>4. since' \in 0..Burst + MaxDebt
  BY <1>1, <1>2 DEF Least
<1>5. \A t \in Tasks : wait[t] \in Nat /\ wait'[t] = CountDown(wait[t]) /\ wait'[t] \in Nat
  BY <1>1 DEF RInv, Ranges, CountDown
<1>6. Ranges'
  <2>1. wait' \in [Tasks -> Nat]
    BY <1>1, <1>5
  <2>2. excess' \in Nat
    BY <1>1 DEF RInv, Ranges, CountDown
  <2> QED BY <1>1, <1>4, <2>1, <2>2 DEF RInv, Ranges, MaxDebt
<1>7. excess' = Burst - Refilled'
  <2>1. excess = Burst - Refilled
    BY DEF RInv
  <2>2. CASE since' = since + 1
    BY <1>1, <1>2, <2>1, <2>2 DEF Refilled, Least, CountDown
  <2>3. CASE since' = since /\ allowance + since >= Burst
    BY <1>1, <1>2, <2>1, <2>3 DEF Refilled, Least, CountDown
  <2> QED BY <1>3, <2>2, <2>3
<1>8. NoNeedlessSleep'
  <2> SUFFICES ASSUME NEW u \in Tasks PROVE wait'[u] <= Deficit(allowance' + since')
    BY DEF NoNeedlessSleep, Deficit
  <2>1. wait[u] <= Deficit(allowance + since)
    BY DEF RInv, NoNeedlessSleep
  <2> QED BY <1>1, <1>2, <1>3, <1>5, <2>1 DEF Deficit, CountDown
<1>9. Queue'
  <2> SUFFICES ASSUME NEW u \in Tasks
               PROVE  -(allowance + since') <= wait'[u] + MaxChunk * Cardinality(Longer(u)') + K * cancels
    BY <1>1 DEF Queue, K
  <2>1. MaxChunk * Cardinality(Longer(u)') \in Nat
    <3>1. Longer(u)' \subseteq Tasks
      BY DEF Longer
    <3>2. Cardinality(Longer(u)') \in Nat
      BY <3>1, RateAssumption, FS_Subset, FS_CardinalityType
    <3> QED BY <3>2, <1>2, Product
  <2>2. CASE since' = since /\ allowance + since >= Burst
    BY <1>2, <1>5, <2>1, <2>2
  <2>3. CASE since' = since + 1
    <3>1. \A v \in Tasks : wait[v] >= 1 => wait'[v] = wait[v] - 1
      BY <1>5 DEF CountDown
    <3>2. \A v \in Tasks : wait[v] = 0 => wait'[v] = 0
      BY <1>5 DEF CountDown
    <3>3. CASE wait[u] >= 1
      <4>1. Longer(u)' = Longer(u)
        <5>1. \A v \in Tasks : wait'[v] > wait'[u] <=> wait[v] > wait[u]
          BY <1>5, <3>1, <3>2, <3>3
        <5> QED BY <5>1 DEF Longer
      <4>2. -(allowance + since) <= wait[u] + MaxChunk * Cardinality(Longer(u)) + K * cancels
        BY DEF RInv, Queue
      <4> QED BY <1>2, <1>5, <2>1, <2>3, <3>1, <3>3, <4>1, <4>2
    <3>4. CASE wait[u] = 0 /\ \E v \in Tasks : wait[v] = 1
      <4>1. PICK v \in Tasks : wait[v] = 1
        BY <3>4
      <4>2. Longer(u)' = Longer(v)
        <5>1. \A x \in Tasks : wait'[x] > wait'[u] <=> wait[x] > wait[v]
          BY <1>5, <3>1, <3>2, <3>4, <4>1
        <5> QED BY <5>1 DEF Longer
      <4>3. -(allowance + since) <= 1 + MaxChunk * Cardinality(Longer(v)) + K * cancels
        BY <4>1 DEF RInv, Queue
      <4> QED BY <1>2, <1>5, <2>1, <2>3, <3>2, <3>4, <4>2, <4>3
    <3>5. CASE wait[u] = 0 /\ ~\E v \in Tasks : wait[v] = 1
      <4>1. Longer(u)' = Longer(u)
        <5>1. \A x \in Tasks : wait'[x] > wait'[u] <=> wait[x] > wait[u]
          BY <1>5, <3>1, <3>2, <3>5
        <5> QED BY <5>1 DEF Longer
      <4>2. -(allowance + since) <= wait[u] + MaxChunk * Cardinality(Longer(u)) + K * cancels
        BY DEF RInv, Queue
      <4> QED BY <1>2, <1>5, <2>1, <2>3, <3>2, <3>5, <4>1, <4>2
    <3> QED BY <1>5, <3>3, <3>4, <3>5
  <2> QED BY <1>3, <2>2, <2>3
<1> QED BY <1>1, <1>2, <1>6, <1>7, <1>8, <1>9 DEF RInv, K

\* A cancelled check wakes the sleepers.
LEMMA CancelStep ==
  ASSUME RInv, Cancel
  PROVE  RInv'
<1>1. /\ cancels < MaxCancels /\ cancels' = cancels + 1 /\ wait' = [t \in Tasks |-> 0]
      /\ allowance' = allowance /\ since' = since /\ excess' = excess
  BY DEF Cancel
<1>2. /\ K \in Nat /\ cancels \in Nat /\ K * (cancels + 1) \in Nat /\ MaxChunk \in Nat
      /\ allowance \in Int /\ since \in Nat /\ Burst \in Nat
      /\ -allowance <= K * (cancels + 1)
  BY RefilledMeaning, RateAssumption, Constants DEF RInv, Ranges
<1>3. K * (cancels' + 1) \in Nat /\ K * (cancels' + 1) = K * (cancels + 1) + K
  BY <1>1, <1>2, Product
<1>4. Ranges'
  BY <1>1, RateAssumption DEF RInv, Ranges, MaxDebt
<1>5. -allowance' <= K * (cancels' + 1)
  BY <1>1, <1>2, <1>3
<1>6. excess' = Burst - Refilled'
  BY <1>1 DEF RInv, Refilled
<1>7. NoNeedlessSleep'
  BY <1>1, <1>2 DEF NoNeedlessSleep, Deficit
<1>8. Queue'
  <2> SUFFICES ASSUME NEW u \in Tasks
               PROVE  -(allowance + since) <= 0 + MaxChunk * Cardinality(Longer(u)') + K * (cancels + 1)
    BY <1>1 DEF Queue, K
  <2>1. Longer(u)' \subseteq Tasks
    BY DEF Longer
  <2>2. Cardinality(Longer(u)') \in Nat
    BY <2>1, RateAssumption, FS_Subset, FS_CardinalityType
  <2>3. MaxChunk * Cardinality(Longer(u)') \in Nat
    BY <1>2, <2>2, Product
  <2> QED BY <1>2, <2>3
<1> QED BY <1>4, <1>5, <1>6, <1>7, <1>8 DEF RInv, K

\* RInv is an invariant.
LEMMA RInvariant == Spec => []RInv
<1>1. RInv /\ [Next]_vars => RInv'
  <2>1. RInv /\ UNCHANGED vars => RInv'
    BY DEF vars, RInv, Ranges, Refilled, NoNeedlessSleep, Queue, Longer, K
  <2> QED BY <2>1, ThrottleStep, TickStep, CancelStep DEF Next
<1> QED BY <1>1, InitRInv, PTL DEF Spec

-----------------------------------------------------------------------------
(* What the cap promises. *)

\* The downloads together keep to the cap, however many there are and in whatever
\* order they report (CapHolds in RateLimiter).
THEOREM CapIsKept == Spec => []CapHolds
<1>1. RInv => CapHolds
  <2> SUFFICES ASSUME RInv PROVE CapHolds
    OBVIOUS
  <2>1. excess = Burst - Refilled /\ Refilled \in Int /\ -Refilled <= K * (cancels + 1) /\ K * (cancels + 1) \in Nat
    BY RefilledMeaning DEF RInv
  <2>2. excess <= Burst + K * (cancels + 1)
    BY <2>1, RateAssumption
  <2> QED BY <2>2 DEF CapHolds, K
<1> QED BY <1>1, RInvariant, PTL

\* A download sleeps no longer than the bucket needs (NoNeedlessSleep in
\* RateLimiter).
THEOREM SleepsAreNeeded == Spec => []NoNeedlessSleep
<1>1. RInv => NoNeedlessSleep
  BY DEF RInv
<1> QED BY <1>1, RInvariant, PTL

\* Type correctness of the bucket: how far it can be overdrawn.
THEOREM TypeCorrect == Spec => []TypeOK
<1>1. RInv => TypeOK
  <2> SUFFICES ASSUME RInv PROVE TypeOK
    OBVIOUS
  <2>1. /\ Refilled \in Int /\ Refilled <= Burst /\ -Refilled <= MaxDebt /\ MaxDebt \in Nat
        /\ -allowance <= MaxDebt
    BY RefilledMeaning DEF RInv, Ranges
  <2>2. allowance \in -MaxDebt..Burst /\ since \in 0..Burst + MaxDebt /\ excess \in 0..Burst + MaxDebt
    BY <2>1, RateAssumption DEF RInv, Ranges
  <2>3. \A t \in Tasks : wait[t] \in 0..MaxDebt
    BY <2>1 DEF RInv, Ranges, NoNeedlessSleep, Deficit
  <2>4. wait \in [Tasks -> 0..MaxDebt]
    BY <2>3 DEF RInv, Ranges
  <2> QED BY <2>2, <2>4 DEF TypeOK, RInv, Ranges
<1> QED BY <1>1, RInvariant, PTL
=============================================================================
