--------------------------- MODULE DownloadProofs ---------------------------
(***************************************************************************)
(* Proofs about Download, for any number of downloads, sizes, names,       *)
(* retries, waits and crashes.                                             *)
(***************************************************************************)
EXTENDS Download, TLAPS, WellFoundedInduction, FiniteSetTheorems

-----------------------------------------------------------------------------
(* Names. *)

\* A set of numbers has a smallest member.
LEMMA Smallest ==
  ASSUME NEW T, T \subseteq Nat, T # {}
  PROVE  \E x \in T : \A y \in T : x <= y
<1>1. \E x \in T : \A y \in T : ~(<<y, x>> \in OpToRel(<, Nat))
  BY WFMin, NatLessThanWellFounded
<1>2. \A x, y \in Nat : y < x => <<y, x>> \in OpToRel(<, Nat)
  BY DEF OpToRel
<1>3. \A x, y \in T : x \in Nat /\ y \in Nat
  OBVIOUS
<1>4. PICK x \in T : \A y \in T : ~(<<y, x>> \in OpToRel(<, Nat))
  BY <1>1
<1>5. \A y \in T : ~(y < x)
  BY <1>2, <1>3, <1>4
<1>6. \A y \in T : x <= y
  BY <1>3, <1>5
<1> QED BY <1>6

\* resolve_conflict never returns a name that is taken.
LEMMA ResolvedIsFree ==
  ASSUME NEW n \in Seq(Nat), ResolveConflict(n) # NoName
  PROVE  ResolveConflict(n) \in Seq(Nat) /\ ~Stored(ResolveConflict(n))
<1> DEFINE free == {i \in 2..MaxSuffix : ~Stored(Numbered(n, i))}
<1>1. CASE ~Stored(n)
  BY <1>1 DEF ResolveConflict
<1>2. CASE Stored(n)
  <2>1. free # {}
    BY <1>2 DEF ResolveConflict
  <2>2. free \subseteq Nat
    BY DownloadAssumption
  <2>3. \E i \in free : \A j \in free : i <= j
    BY <2>1, <2>2, Smallest
  <2>4. PICK k \in free : ResolveConflict(n) = Numbered(n, k)
    BY <1>2, <2>1, <2>3 DEF ResolveConflict
  <2>5. Numbered(n, k) \in Seq(Nat)
    BY <2>2 DEF Numbered
  <2>6. ~Stored(Numbered(n, k))
    OBVIOUS
  <2> QED BY <2>4, <2>5, <2>6
<1> QED BY <1>1, <1>2

-----------------------------------------------------------------------------
(* Type correctness, with what the attempts count. *)

Counts ==
  \A t \in Tasks :
    /\ state[t] \in {"cool", "xfer"} => tries[t] = attempt[t] - 1
    /\ state[t] \in {"refresh", "backoff"} => tries[t] = attempt[t] /\ attempt[t] < MaxRetries
    /\ state[t] = "failed" => tries[t] = MaxRetries

TInv == TypeOK /\ Counts

States == {"new"} \cup Running \cup Returned \cup Skipped

\* The loop is entered.
LEMMA EnterLoopTyped ==
  ASSUME TInv, NEW t \in Tasks, NEW remaining \in Nat, EnterLoop(t, remaining)
  PROVE  /\ state' \in [Tasks -> States]
         /\ wait' \in [Tasks -> Nat]
         /\ state'[t] \in {"cool", "xfer"}
         /\ \A u \in Tasks : u # t => state'[u] = state[u]
BY DEF EnterLoop, TInv, TypeOK, States, Running, Asking

\* A .partial file less.
LEMMA UnlinkTyped ==
  ASSUME TInv, NEW t \in Tasks, Unlink(t)
  PROVE  partials' \subseteq Seq(Nat) \X Tasks /\ partials' \subseteq partials /\ Partial(t) \notin partials'
BY DEF Unlink, TInv, TypeOK

\* A failed transfer counts as one.
LEMMA RetryOrFailTyped ==
  ASSUME TInv, NEW t \in Tasks, state[t] = "xfer", NEW next \in {"refresh", "backoff"},
         RetryOrFail(t, next), UNCHANGED attempt
  PROVE  /\ partials' \subseteq Seq(Nat) \X Tasks
         /\ state' \in [Tasks -> States]
         /\ wait' \in [Tasks -> Nat]
         /\ tries' \in [Tasks -> 0..MaxRetries]
         /\ Counts'
<1>1. tries[t] = attempt[t] - 1 /\ attempt[t] \in 1..MaxRetries
  BY DEF TInv, TypeOK, Counts
<1>2. tries' = [tries EXCEPT ![t] = @ + 1]
  BY DEF RetryOrFail
<1>3. tries' \in [Tasks -> 0..MaxRetries] /\ tries'[t] = attempt[t]
  BY <1>1, <1>2, DownloadAssumption DEF TInv, TypeOK
<1>4. partials' \subseteq Seq(Nat) \X Tasks
  BY UnlinkTyped DEF RetryOrFail
<1>5. Backoff(attempt[t]) \in Nat
  BY <1>1, BackoffAssumption
<1>6. wait' \in [Tasks -> Nat]
  BY <1>5 DEF RetryOrFail, TInv, TypeOK
<1>7. CASE attempt[t] < MaxRetries
  <2>1. state' = [state EXCEPT ![t] = next]
    BY <1>7 DEF RetryOrFail
  <2>2. state' \in [Tasks -> States]
    BY <2>1 DEF TInv, TypeOK, States, Running, Asking
  <2>3. Counts'
    BY <1>1, <1>2, <1>3, <1>7, <2>1 DEF TInv, TypeOK, Counts
  <2> QED BY <1>3, <1>4, <1>6, <2>2, <2>3
<1>8. CASE ~(attempt[t] < MaxRetries)
  <2>1. state' = [state EXCEPT ![t] = "failed"]
    BY <1>8 DEF RetryOrFail
  <2>2. attempt[t] = MaxRetries
    BY <1>1, <1>8, DownloadAssumption
  <2>3. state' \in [Tasks -> States]
    BY <2>1 DEF TInv, TypeOK, States, Returned
  <2>4. Counts'
    BY <1>1, <1>2, <1>3, <2>1, <2>2 DEF TInv, TypeOK, Counts
  <2> QED BY <1>3, <1>4, <1>6, <2>3, <2>4
<1> QED BY <1>7, <1>8

\* A FloodWait is none.
LEMMA FloodWaitTyped ==
  ASSUME TInv, NEW t \in Tasks, state[t] = "xfer", NEW s \in Floods, FloodWait(t, s),
         UNCHANGED <<attempt, tries>>
  PROVE  /\ cool' \in Nat /\ cool' >= s + Margin /\ cool' >= cool
         /\ partials' \subseteq Seq(Nat) \X Tasks
         /\ state' = [state EXCEPT ![t] = "cool"]
         /\ wait' = [wait EXCEPT ![t] = cool']
         /\ owed' = [owed EXCEPT ![t] = s + Margin]
         /\ heard' = [heard EXCEPT ![t] = TRUE]
         /\ s + Margin \in Nat
         /\ Counts'
<1>1. s \in Nat /\ Margin \in Nat \ {0} /\ cool \in Nat
  BY DownloadAssumption DEF TInv, TypeOK
<1>2. cool' = IF cool > s + Margin THEN cool ELSE s + Margin
  BY DEF FloodWait
<1>3. cool' \in Nat /\ cool' >= s + Margin /\ cool' >= cool /\ cool' > 0
  BY <1>1, <1>2
<1>4. EnterLoop(t, cool')
  BY <1>2 DEF FloodWait
<1>5. state' = [state EXCEPT ![t] = "cool"] /\ wait' = [wait EXCEPT ![t] = cool']
  BY <1>3, <1>4 DEF EnterLoop
<1>6. /\ partials' \subseteq Seq(Nat) \X Tasks
      /\ owed' = [owed EXCEPT ![t] = s + Margin] /\ heard' = [heard EXCEPT ![t] = TRUE]
  BY UnlinkTyped DEF FloodWait
<1>7. Counts'
  BY <1>5 DEF Counts, TInv, TypeOK
<1> QED BY <1>1, <1>3, <1>5, <1>6, <1>7

\* Nor does a FloodWait that stays unheard matter to anything but the ghosts.
LEMMA UnheardTyped ==
  ASSUME TInv, NEW t \in Tasks, NoFlood \/ Unheard(t)
  PROVE  /\ floods' \in 0..MaxFloods
         /\ owed' \in [Tasks -> Nat]
         /\ heard' \in [Tasks -> BOOLEAN]
         /\ \A u \in Tasks : heard'[u] => heard[u] /\ owed'[u] = owed[u]
<1>1. CASE NoFlood
  BY <1>1 DEF NoFlood, TInv, TypeOK
<1>2. CASE Unheard(t)
  <2>1. floods' \in 0..MaxFloods
    BY <1>2, DownloadAssumption DEF Unheard, TInv, TypeOK
  <2>2. PICK s \in Floods : owed' = [owed EXCEPT ![t] = s + Margin]
    BY <1>2 DEF Unheard
  <2>3. s + Margin \in Nat
    BY DownloadAssumption
  <2>4. owed' \in [Tasks -> Nat] /\ \A u \in Tasks : u # t => owed'[u] = owed[u]
    BY <2>2, <2>3 DEF TInv, TypeOK
  <2>5. heard' = [heard EXCEPT ![t] = FALSE]
    BY <1>2 DEF Unheard
  <2> QED BY <2>1, <2>4, <2>5 DEF TInv, TypeOK
<1> QED BY <1>1, <1>2

\* A file more.
LEMMA PutTyped ==
  ASSUME TInv, NEW n, NEW t \in Tasks, NEW size \in Nat, Put(n, t, size)
  PROVE  /\ \A x \in DOMAIN files' : files'[x] \in [by : Tasks, size : Nat]
         /\ DOMAIN files' = DOMAIN files \cup {n}
         /\ files'[n] = [by |-> t, size |-> size]
         /\ \A x \in DOMAIN files : x # n => files'[x] = files[x]
BY DEF Put, TInv, TypeOK

\* A cancellation or a crash: at most one .partial file more for each message.
LEMMA DropTyped ==
  ASSUME TInv, Drop
  PROVE  /\ crashes' \in 0..MaxCrashes
         /\ crashes' = crashes + 1
         /\ state' \in [Tasks -> States]
         /\ wait' \in [Tasks -> Nat]
         /\ partials' \subseteq Seq(Nat) \X Tasks
         /\ \A t \in Tasks : /\ state[t] \in Running => state'[t] = "new"
                             /\ state[t] \notin Running => state'[t] = state[t]
         /\ \A p \in partials' \ partials : \E t \in Tasks : state[t] = "xfer" /\ p = Partial(t)
<1>1. crashes' \in 0..MaxCrashes /\ crashes' = crashes + 1
  BY DownloadAssumption DEF Drop, TInv, TypeOK
<1>2. state' \in [Tasks -> States] /\ wait' \in [Tasks -> Nat]
  BY DEF Drop, TInv, TypeOK, States
<1>3. \A t \in Tasks : /\ state[t] \in Running => state'[t] = "new"
                       /\ state[t] \notin Running => state'[t] = state[t]
  BY DEF Drop
<1>4. \A p \in partials' \ partials : \E t \in Tasks : state[t] = "xfer" /\ p = Partial(t)
  BY DEF Drop
<1>5. \A t \in Tasks : Partial(t) \in Seq(Nat) \X Tasks
  BY DEF Partial, TInv, TypeOK
<1>6. partials' \subseteq Seq(Nat) \X Tasks
  BY <1>4, <1>5 DEF TInv, TypeOK
<1> QED BY <1>1, <1>2, <1>3, <1>4, <1>6

\* The steps of one download keep the types.
LEMMA StepTyped ==
  ASSUME TInv, NEW t \in Tasks, Step(t)
  PROVE  TInv'
<1>1. CASE Begin(t)
  <2>1. /\ attempt' = [attempt EXCEPT ![t] = 1] /\ tries' = [tries EXCEPT ![t] = 0]
        /\ state[t] = "new" /\ UNCHANGED <<files, partials, cool, floods, crashes, owed, heard>>
    BY <1>1 DEF Begin, NoFlood
  <2>2. attempt' \in [Tasks -> 1..MaxRetries] /\ tries' \in [Tasks -> 0..MaxRetries]
    BY <2>1, DownloadAssumption DEF TInv, TypeOK
  <2>3. CASE IsDuplicate(Base[t], SizeOf[t]) \/ ResolveConflict(Base[t]) = NoName
    <3>1. PICK s \in Skipped : state' = [state EXCEPT ![t] = s] /\ UNCHANGED <<wait, dest>>
      BY <1>1, <2>3 DEF Begin, Skipped
    <3>2. state' \in [Tasks -> States]
      BY <3>1 DEF States, TInv, TypeOK
    <3>3. Counts'
      BY <2>1, <3>1 DEF TInv, TypeOK, Counts, Skipped
    <3> QED BY <2>1, <2>2, <3>1, <3>2, <3>3 DEF TInv, TypeOK, States
  <2>4. CASE ~(IsDuplicate(Base[t], SizeOf[t]) \/ ResolveConflict(Base[t]) = NoName)
    <3>1. dest' = [dest EXCEPT ![t] = ResolveConflict(Base[t])] /\ EnterLoop(t, cool)
      BY <1>1, <2>4 DEF Begin
    <3>2. dest' \in [Tasks -> Seq(Nat)]
      BY <2>4, <3>1, ResolvedIsFree, DownloadAssumption DEF TInv, TypeOK
    <3>3. cool \in Nat
      BY DEF TInv, TypeOK
    <3>4. /\ state' \in [Tasks -> States] /\ wait' \in [Tasks -> Nat]
          /\ state'[t] \in {"cool", "xfer"} /\ \A u \in Tasks : u # t => state'[u] = state[u]
      BY <3>1, <3>3, EnterLoopTyped
    <3>5. Counts'
      <4> SUFFICES ASSUME NEW u \in Tasks
                   PROVE  /\ state'[u] \in {"cool", "xfer"} => tries'[u] = attempt'[u] - 1
                          /\ state'[u] \in {"refresh", "backoff"} =>
                               tries'[u] = attempt'[u] /\ attempt'[u] < MaxRetries
                          /\ state'[u] = "failed" => tries'[u] = MaxRetries
        BY DEF Counts
      <4>1. CASE u = t
        BY <2>1, <3>4, <4>1 DEF TInv, TypeOK
      <4>2. CASE u # t
        BY <2>1, <3>4, <4>2 DEF TInv, TypeOK, Counts
      <4> QED BY <4>1, <4>2
    <3> QED BY <2>1, <2>2, <3>2, <3>4, <3>5 DEF TInv, TypeOK, States
  <2> QED BY <2>3, <2>4
<1>2. CASE CooldownOver(t)
  <2>1. state' = [state EXCEPT ![t] = "xfer"] /\ state[t] = "cool"
        /\ UNCHANGED <<files, partials, cool, wait, attempt, dest, floods, crashes, owed, heard, tries>>
    BY <1>2 DEF CooldownOver, NoFlood
  <2>2. Counts'
    BY <2>1 DEF TInv, TypeOK, Counts
  <2> QED BY <2>1, <2>2 DEF TInv, TypeOK, Running, Asking
<1>3. CASE BackoffOver(t)
  <2>1. /\ state[t] = "backoff" /\ EnterLoop(t, cool) /\ attempt' = [attempt EXCEPT ![t] = @ + 1]
        /\ UNCHANGED <<files, partials, cool, dest, floods, crashes, owed, heard, tries>>
    BY <1>3 DEF BackoffOver, NoFlood
  <2>2. cool \in Nat
    BY DEF TInv, TypeOK
  <2>3. /\ state' \in [Tasks -> States] /\ wait' \in [Tasks -> Nat]
        /\ state'[t] \in {"cool", "xfer"} /\ \A u \in Tasks : u # t => state'[u] = state[u]
    BY <2>1, <2>2, EnterLoopTyped
  <2>4. tries[t] = attempt[t] /\ attempt[t] \in 1..MaxRetries /\ attempt[t] < MaxRetries
    BY <2>1 DEF TInv, TypeOK, Counts
  <2>5. attempt' \in [Tasks -> 1..MaxRetries] /\ attempt'[t] = attempt[t] + 1
    BY <2>1, <2>4, DownloadAssumption DEF TInv, TypeOK
  <2>6. Counts'
    BY <2>1, <2>3, <2>4, <2>5 DEF TInv, TypeOK, Counts
  <2> QED BY <2>1, <2>3, <2>5, <2>6 DEF TInv, TypeOK, States
<1>7. CASE Refreshed(t)
  <2>1. /\ state[t] = "refresh" /\ state' = [state EXCEPT ![t] = "backoff"]
        /\ wait' = [wait EXCEPT ![t] = Backoff(attempt[t])]
        /\ UNCHANGED <<files, partials, cool, attempt, dest, crashes, tries>>
    BY <1>7 DEF Refreshed
  <2>2. Backoff(attempt[t]) \in Nat
    BY BackoffAssumption DEF TInv, TypeOK
  <2>3. wait' \in [Tasks -> Nat] /\ state' \in [Tasks -> States]
    BY <2>1, <2>2 DEF TInv, TypeOK, States, Running, Asking
  <2>4. Counts'
    BY <2>1 DEF TInv, TypeOK, Counts
  <2>5. /\ floods' \in 0..MaxFloods /\ owed' \in [Tasks -> Nat] /\ heard' \in [Tasks -> BOOLEAN]
    BY <1>7, UnheardTyped DEF Refreshed
  <2> QED BY <2>1, <2>3, <2>4, <2>5 DEF TInv, TypeOK, States
<1>4. CASE XferFlooded(t)
  <2>1. /\ state[t] = "xfer" /\ floods < MaxFloods /\ floods' = floods + 1
        /\ UNCHANGED <<files, attempt, dest, crashes, tries>>
    BY <1>4 DEF XferFlooded
  <2>2. PICK s \in Floods : FloodWait(t, s)
    BY <1>4 DEF XferFlooded
  <2>3. /\ cool' \in Nat /\ partials' \subseteq Seq(Nat) \X Tasks
        /\ state' = [state EXCEPT ![t] = "cool"] /\ wait' = [wait EXCEPT ![t] = cool']
        /\ owed' = [owed EXCEPT ![t] = s + Margin] /\ s + Margin \in Nat
        /\ heard' = [heard EXCEPT ![t] = TRUE] /\ Counts'
    BY <2>1, <2>2, FloodWaitTyped
  <2>4. floods' \in 0..MaxFloods
    BY <2>1, DownloadAssumption DEF TInv, TypeOK
  <2> QED BY <2>1, <2>3, <2>4 DEF TInv, TypeOK, Running, Asking
<1>5. CASE XferFails(t)
  <2>1. state[t] = "xfer" /\ UNCHANGED <<files, cool, attempt, dest, crashes>>
    BY <1>5 DEF XferFails
  <2>2. PICK next \in {"refresh", "backoff"} : RetryOrFail(t, next)
    BY <1>5 DEF XferFails
  <2>3. /\ partials' \subseteq Seq(Nat) \X Tasks /\ state' \in [Tasks -> States]
        /\ wait' \in [Tasks -> Nat] /\ tries' \in [Tasks -> 0..MaxRetries] /\ Counts'
    BY <2>1, <2>2, RetryOrFailTyped
  <2>4. floods' \in 0..MaxFloods /\ owed' \in [Tasks -> Nat] /\ heard' \in [Tasks -> BOOLEAN]
    BY <1>5, UnheardTyped DEF XferFails
  <2> QED BY <2>1, <2>3, <2>4 DEF TInv, TypeOK, States
<1>6. CASE XferDelivers(t)
  <2>1. state[t] = "xfer" /\ UNCHANGED <<cool, attempt, dest, floods, crashes, owed, heard>>
    BY <1>6 DEF XferDelivers, NoFlood
  <2>2. PICK size \in Received : Accepted(t, size) /\ Publish(t, size)
    BY <1>6 DEF XferDelivers
  <2>3. CASE ~IsDuplicate(dest[t], size) /\ ResolveConflict(dest[t]) = NoName
    <3>1. RetryOrFail(t, "backoff") /\ UNCHANGED files
      BY <2>2, <2>3 DEF Publish
    <3> QED BY <2>1, <3>1, RetryOrFailTyped DEF TInv, TypeOK, States
  <2>4. CASE ~(~IsDuplicate(dest[t], size) /\ ResolveConflict(dest[t]) = NoName)
    <3>1. /\ Unlink(t) /\ state' = [state EXCEPT ![t] = "ok"]
          /\ UNCHANGED <<wait, tries>>
      BY <2>2, <2>4 DEF Publish
    <3>2. files' = files \/ Put(ResolveConflict(dest[t]), t, size)
      BY <2>2, <2>4 DEF Publish
    <3>3. size \in Nat
      BY DownloadAssumption
    <3>4. \A x \in DOMAIN files' : files'[x] \in [by : Tasks, size : Nat]
      BY <3>2, <3>3, PutTyped DEF TInv, TypeOK
    <3>5. Counts'
      BY <2>1, <3>1 DEF TInv, TypeOK, Counts
    <3>6. partials' \subseteq Seq(Nat) \X Tasks
      BY <3>1, UnlinkTyped
    <3> QED BY <2>1, <3>1, <3>4, <3>5, <3>6 DEF TInv, TypeOK, Returned
  <2> QED BY <2>3, <2>4
<1> QED BY <1>1, <1>2, <1>3, <1>4, <1>5, <1>6, <1>7 DEF Step

\* So do time, cancellations and crashes.
LEMMA WorldTyped ==
  ASSUME TInv, \/ Tick \/ Cancel \/ Crash \/ AllReturned \/ UNCHANGED vars
               \/ \E t \in Tasks : CrashInPublish(t)
  PROVE  TInv'
<1>1. CASE Tick
  <2>1. \A n \in Nat : CountDown(n) \in Nat
    BY DEF CountDown
  <2>2. /\ cool' = CountDown(cool) /\ wait' = [t \in Tasks |-> CountDown(wait[t])]
        /\ owed' = [t \in Tasks |-> CountDown(owed[t])]
        /\ UNCHANGED <<files, partials, state, attempt, dest, floods, crashes, tries>>
    BY <1>1 DEF Tick
  <2>3. heard' \in [Tasks -> BOOLEAN]
    BY <1>1 DEF Tick, TInv, TypeOK
  <2> QED BY <2>1, <2>2, <2>3 DEF TInv, TypeOK, Counts
<1>2. CASE Cancel
  <2>1. Drop /\ UNCHANGED <<files, cool, attempt, dest, floods, owed, heard, tries>>
    BY <1>2 DEF Cancel, NoFlood
  <2>2. Counts'
    BY <2>1, DropTyped DEF TInv, TypeOK, Counts, Running, Asking
  <2> QED BY <2>1, <2>2, DropTyped DEF TInv, TypeOK, States
<1>3. CASE Crash
  <2>1. Drop /\ Forget /\ UNCHANGED <<files, attempt, dest, floods, tries>>
    BY <1>3 DEF Crash
  <2>2. Counts'
    BY <2>1, DropTyped DEF TInv, TypeOK, Counts, Running, Asking
  <2> QED BY <2>1, <2>2, DropTyped DEF Forget, TInv, TypeOK, States
<1>4. CASE \E t \in Tasks : CrashInPublish(t)
  <2>1. PICK t \in Tasks : CrashInPublish(t)
    BY <1>4
  <2>2. /\ Drop /\ Put(ResolveConflict(dest[t]), t, 0) /\ Forget
        /\ UNCHANGED <<attempt, dest, floods, tries>>
    BY <2>1 DEF CrashInPublish
  <2>3. Counts'
    BY <2>2, DropTyped DEF TInv, TypeOK, Counts, Running, Asking
  <2>4. \A x \in DOMAIN files' : files'[x] \in [by : Tasks, size : Nat]
    BY <2>2, PutTyped
  <2> QED BY <2>2, <2>3, <2>4, DropTyped DEF Forget, TInv, TypeOK, States
<1>5. CASE AllReturned \/ UNCHANGED vars
  BY <1>5 DEF AllReturned, vars, TInv, TypeOK, Counts
<1> QED BY <1>1, <1>2, <1>3, <1>4, <1>5

\* Type correctness, and what the attempts count.
LEMMA TypesInvariant == Spec => []TInv
<1>1. Init => TInv
  <2> SUFFICES ASSUME Init PROVE TInv
    OBVIOUS
  <2>1. Counts
    BY DEF Init, Counts
  <2>2. partials \subseteq Seq(Nat) \X Tasks /\ state \in [Tasks -> States] /\ dest \in [Tasks -> Seq(Nat)]
    BY DownloadAssumption DEF Init, States
  <2>3. wait \in [Tasks -> Nat] /\ owed \in [Tasks -> Nat] /\ heard \in [Tasks -> BOOLEAN] /\ cool \in Nat
    BY DEF Init
  <2>4. attempt \in [Tasks -> 1..MaxRetries] /\ tries \in [Tasks -> 0..MaxRetries]
    BY DownloadAssumption DEF Init
  <2>5. floods \in 0..MaxFloods /\ crashes \in 0..MaxCrashes
    BY DownloadAssumption DEF Init
  <2>6. DOMAIN files = {}
    BY DEF Init
  <2> QED BY <2>1, <2>2, <2>3, <2>4, <2>5, <2>6 DEF TInv, TypeOK, States
<1>2. TInv /\ [Next]_vars => TInv'
  BY StepTyped, WorldTyped DEF Next
<1> QED BY <1>1, <1>2, PTL DEF Spec

\* Type correctness of the downloads.
THEOREM TypeCorrect == Spec => []TypeOK
<1>1. TInv => TypeOK
  BY DEF TInv
<1> QED BY <1>1, TypesInvariant, PTL

\* A download gives up only after max_retries failed transfers
\* (FailsAfterAllRetries in Download).
THEOREM AllRetriesUsed == Spec => []FailsAfterAllRetries
<1>1. TInv => FailsAfterAllRetries
  BY DEF TInv, Counts, FailsAfterAllRetries
<1> QED BY <1>1, TypesInvariant, PTL

-----------------------------------------------------------------------------
(* The download folder. *)

\* What a step does to the folder: nothing, or one file more at a free name, by a
\* download that is transferring; the file is whole, or a crash's placeholder.
Adds(t, size) ==
  \E n \in Seq(Nat) :
    /\ state[t] = "xfer" /\ ~Stored(n) /\ Put(n, t, size)
    /\ \/ /\ Accepted(t, size) /\ size \in Received
          /\ crashes' = crashes /\ state' = [state EXCEPT ![t] = "ok"]
       \/ /\ size = 0 /\ crashes' > 0
          /\ \A u \in Tasks : state'[u] = IF state[u] \in Running THEN "new" ELSE state[u]

\* Every step leaves the folder alone or adds one file.
LEMMA FolderGrows ==
  ASSUME TInv, [Next]_vars
  PROVE  \/ files' = files /\ crashes' >= crashes
         \/ \E t \in Tasks, size \in Nat : Adds(t, size)
<1>0. crashes \in Nat
  BY DownloadAssumption DEF TInv, TypeOK
<1>1. ASSUME NEW t \in Tasks, XferDelivers(t)
      PROVE  (files' = files /\ crashes' >= crashes) \/ \E size \in Nat : Adds(t, size)
  <2>1. PICK size \in Received : Accepted(t, size) /\ Publish(t, size)
    BY <1>1 DEF XferDelivers
  <2>2. CASE IsDuplicate(dest[t], size) \/ ResolveConflict(dest[t]) = NoName
    <3>1. files' = files /\ crashes' = crashes
      BY <1>1, <2>1, <2>2 DEF Publish, XferDelivers
    <3> QED BY <1>0, <3>1
  <2>3. CASE ~(IsDuplicate(dest[t], size) \/ ResolveConflict(dest[t]) = NoName)
    <3>1. Put(ResolveConflict(dest[t]), t, size) /\ state' = [state EXCEPT ![t] = "ok"]
      BY <2>1, <2>3 DEF Publish
    <3>2. ResolveConflict(dest[t]) \in Seq(Nat) /\ ~Stored(ResolveConflict(dest[t]))
      BY <2>3, ResolvedIsFree DEF TInv, TypeOK
    <3>3. state[t] = "xfer" /\ crashes' = crashes
      BY <1>1 DEF XferDelivers
    <3>4. Adds(t, size)
      BY <2>1, <3>1, <3>2, <3>3, Zenon DEF Adds
    <3>5. size \in Nat
      BY DownloadAssumption
    <3> QED BY <3>4, <3>5
  <2> QED BY <2>2, <2>3
<1>2. ASSUME NEW t \in Tasks, CrashInPublish(t)
      PROVE  \E size \in Nat : Adds(t, size)
  <2>1. /\ state[t] = "xfer" /\ ResolveConflict(dest[t]) # NoName
        /\ Put(ResolveConflict(dest[t]), t, 0) /\ crashes' = crashes + 1
    BY <1>2 DEF CrashInPublish, Drop
  <2>2. ResolveConflict(dest[t]) \in Seq(Nat) /\ ~Stored(ResolveConflict(dest[t]))
    BY <2>1, ResolvedIsFree DEF TInv, TypeOK
  <2>3. \A u \in Tasks : state'[u] = IF state[u] \in Running THEN "new" ELSE state[u]
    BY <1>2 DEF CrashInPublish, Drop
  <2>4. crashes' > 0
    BY <1>0, <2>1
  <2>5. Adds(t, 0)
    BY <2>1, <2>2, <2>3, <2>4 DEF Adds
  <2> QED BY <2>5
<1>3. ASSUME NEW t \in Tasks,
             \/ Begin(t) \/ CooldownOver(t) \/ Refreshed(t) \/ BackoffOver(t)
             \/ XferFlooded(t) \/ XferFails(t)
      PROVE  files' = files /\ crashes' = crashes
  BY <1>3 DEF Begin, CooldownOver, Refreshed, BackoffOver, XferFlooded, XferFails
<1>4. Tick \/ AllReturned \/ UNCHANGED vars => files' = files /\ crashes' = crashes
  BY DEF Tick, AllReturned, vars
<1>5. Cancel \/ Crash => files' = files /\ crashes' = crashes + 1
  BY DEF Cancel, Crash, Drop
<1> QED BY <1>0, <1>1, <1>2, <1>3, <1>4, <1>5 DEF Next, Step

\* No file is ever replaced, truncated or removed (NoClobber in Download).
THEOREM NothingReplaced == Spec => NoClobber
<1>1. TInv /\ [Next]_vars => [\A n \in DOMAIN files : n \in DOMAIN files' /\ files'[n] = files[n]]_vars
  <2> SUFFICES ASSUME TInv, [Next]_vars, NEW n \in DOMAIN files
               PROVE  n \in DOMAIN files' /\ files'[n] = files[n]
    OBVIOUS
  <2>1. CASE files' = files
    BY <2>1
  <2>2. CASE \E t \in Tasks, size \in Nat : Adds(t, size)
    <3>1. PICK t \in Tasks, size \in Nat, m \in Seq(Nat) : ~Stored(m) /\ Put(m, t, size)
      BY <2>2 DEF Adds
    <3>2. n # m
      BY <3>1 DEF Stored
    <3>3. /\ DOMAIN files' = DOMAIN files \cup {m}
          /\ \A x \in DOMAIN files : x # m => files'[x] = files[x]
      BY <3>1, PutTyped
    <3>4. files'[n] = files[n]
      BY <3>2, <3>3
    <3> QED BY <3>3, <3>4
  <2> QED BY <2>1, <2>2, FolderGrows
<1> QED BY <1>1, TypesInvariant, PTL DEF Spec, NoClobber

\* A published file is whole, an empty one the placeholder of a crash
\* (FilesWhole in Download).
THEOREM PublishedIsWhole == Spec => []FilesWhole
<1>1. Init => FilesWhole
  BY DEF Init, FilesWhole
<1>2. TInv /\ FilesWhole /\ [Next]_vars => FilesWhole'
  <2> SUFFICES ASSUME TInv, FilesWhole, [Next]_vars, NEW n \in DOMAIN files'
               PROVE  \/ Accepted(files'[n].by, files'[n].size)
                      \/ files'[n].size = 0 /\ crashes' > 0
    BY DEF FilesWhole, Accepted
  <2>0. crashes \in Nat
    BY DownloadAssumption DEF TInv, TypeOK
  <2>1. CASE files' = files /\ crashes' >= crashes
    <3>1. TInv'
      BY StepTyped, WorldTyped DEF Next
    <3>2. crashes' \in Nat
      BY <3>1, DownloadAssumption DEF TInv, TypeOK
    <3>3. Accepted(files[n].by, files[n].size) \/ (files[n].size = 0 /\ crashes > 0)
      BY <2>1 DEF FilesWhole
    <3>4. crashes > 0 => crashes' > 0
      BY <2>0, <2>1, <3>2
    <3> QED BY <2>1, <3>3, <3>4
  <2>2. CASE \E t \in Tasks, size \in Nat : Adds(t, size)
    <3>1. PICK t \in Tasks, size \in Nat, m \in Seq(Nat) :
            /\ Put(m, t, size)
            /\ (Accepted(t, size) /\ crashes' = crashes) \/ (size = 0 /\ crashes' > 0)
      BY <2>2 DEF Adds
    <3>0. /\ DOMAIN files' = DOMAIN files \cup {m}
          /\ files'[m] = [by |-> t, size |-> size]
          /\ \A x \in DOMAIN files : x # m => files'[x] = files[x]
      BY <3>1, PutTyped
    <3>2. CASE n = m
      BY <3>0, <3>1, <3>2
    <3>3. CASE n # m
      <4>1. n \in DOMAIN files /\ files'[n] = files[n]
        BY <3>0, <3>3
      <4>2. Accepted(files[n].by, files[n].size) \/ (files[n].size = 0 /\ crashes > 0)
        BY <4>1 DEF FilesWhole
      <4>3. crashes > 0 => crashes' > 0
        BY <2>0, <3>1
      <4> QED BY <4>1, <4>2, <4>3
    <3> QED BY <3>2, <3>3
  <2> QED BY <2>1, <2>2, FolderGrows
<1> QED BY <1>1, <1>2, TypesInvariant, PTL DEF Spec

\* What NothingLeftBehind says, of sets known to be finite.
Leftovers ==
  \A t \in Tasks :
    /\ state[t] \in Returned => Partial(t) \notin partials
    /\ IsFiniteSet(LeftBy(t)) /\ Cardinality(LeftBy(t)) <= crashes

\* Fewer .partial files are no more than before.
LEMMA FewerLeft ==
  ASSUME TInv, Leftovers, partials' \subseteq partials, crashes' = crashes, NEW t \in Tasks
  PROVE  IsFiniteSet(LeftBy(t))' /\ (Cardinality(LeftBy(t)) <= crashes)'
<1> DEFINE left == LeftBy(t)'
<1>1. IsFiniteSet(LeftBy(t)) /\ Cardinality(LeftBy(t)) <= crashes /\ crashes \in Nat
  BY DownloadAssumption DEF Leftovers, TInv, TypeOK
<1>2. left \subseteq LeftBy(t)
  BY DEF LeftBy
<1> HIDE DEF left
<1>3. IsFiniteSet(left) /\ Cardinality(left) <= Cardinality(LeftBy(t))
  BY <1>1, <1>2, FS_Subset
<1>4. Cardinality(left) \in Nat /\ Cardinality(LeftBy(t)) \in Nat
  BY <1>1, <1>3, FS_CardinalityType
<1>5. Cardinality(left) <= crashes
  BY <1>1, <1>3, <1>4
<1> QED BY <1>3, <1>5 DEF left

\* A message that is cut off leaves one .partial file more at most.
LEMMA OneMoreLeft ==
  ASSUME TInv, Leftovers, Drop, NEW t \in Tasks
  PROVE  IsFiniteSet(LeftBy(t))' /\ (Cardinality(LeftBy(t)) <= crashes)'
<1> DEFINE left == LeftBy(t)'
           most == LeftBy(t) \cup {Partial(t)}
<1>1. IsFiniteSet(LeftBy(t)) /\ Cardinality(LeftBy(t)) <= crashes /\ crashes \in Nat
  BY DownloadAssumption DEF Leftovers, TInv, TypeOK
<1>2. \A p \in partials' \ partials : \E u \in Tasks : p = Partial(u)
  BY DropTyped
<1>3. \A u \in Tasks : Partial(u)[2] = u
  BY DEF Partial
<1>4. left \subseteq most
  BY <1>2, <1>3 DEF LeftBy
<1>5. IsFiniteSet(most) /\ (Cardinality(most) = Cardinality(LeftBy(t)) \/ Cardinality(most) = Cardinality(LeftBy(t)) + 1)
  BY <1>1, FS_AddElement
<1> HIDE DEF left, most
<1>6. IsFiniteSet(left) /\ Cardinality(left) <= Cardinality(most)
  BY <1>4, <1>5, FS_Subset
<1>7. Cardinality(left) \in Nat /\ Cardinality(most) \in Nat /\ Cardinality(LeftBy(t)) \in Nat
  BY <1>1, <1>5, <1>6, FS_CardinalityType
<1>8. crashes' = crashes + 1
  BY DropTyped
<1>9. Cardinality(left) <= crashes'
  BY <1>1, <1>5, <1>6, <1>7, <1>8
<1> QED BY <1>6, <1>9 DEF left

\* Leftovers is inductive.
LEMMA LeftoversStep ==
  ASSUME TInv, Leftovers, [Next]_vars
  PROVE  Leftovers'
<1> SUFFICES ASSUME NEW u \in Tasks
             PROVE  /\ state'[u] \in Returned => Partial(u)' \notin partials'
                    /\ IsFiniteSet(LeftBy(u))' /\ (Cardinality(LeftBy(u)) <= crashes)'
  BY DEF Leftovers
<1>1. ASSUME NEW t \in Tasks, Begin(t)
      PROVE  /\ partials' = partials /\ crashes' = crashes
             /\ state'[u] \in Returned => state'[u] = state[u] /\ dest'[u] = dest[u]
  <2>1. partials' = partials /\ crashes' = crashes /\ (u # t => state'[u] = state[u] /\ dest'[u] = dest[u])
    BY <1>1 DEF Begin, EnterLoop, TInv, TypeOK
  <2>2. state'[t] \notin Returned
    BY <1>1 DEF Begin, EnterLoop, TInv, TypeOK, Returned
  <2> QED BY <2>1, <2>2
<1>2. ASSUME NEW t \in Tasks, CooldownOver(t) \/ Refreshed(t) \/ BackoffOver(t)
      PROVE  /\ partials' = partials /\ crashes' = crashes
             /\ state'[u] \in Returned => state'[u] = state[u] /\ dest'[u] = dest[u]
  BY <1>2 DEF CooldownOver, Refreshed, BackoffOver, EnterLoop, TInv, TypeOK, Returned
<1>3. ASSUME NEW t \in Tasks, XferFlooded(t) \/ XferFails(t) \/ XferDelivers(t)
      PROVE  /\ Unlink(t) /\ crashes' = crashes /\ dest' = dest
             /\ u # t => state'[u] = state[u]
  <2>1. Unlink(t) /\ crashes' = crashes /\ dest' = dest
    BY <1>3 DEF XferFlooded, FloodWait, XferFails, XferDelivers, RetryOrFail, Publish
  <2>2. u # t => state'[u] = state[u]
    BY <1>3 DEF XferFlooded, FloodWait, EnterLoop, XferFails, XferDelivers, RetryOrFail, Publish, TInv, TypeOK
  <2> QED BY <2>1, <2>2
<1>4. CASE \E t \in Tasks : Begin(t) \/ CooldownOver(t) \/ Refreshed(t) \/ BackoffOver(t)
  <2>1. /\ partials' = partials /\ crashes' = crashes
        /\ state'[u] \in Returned => state'[u] = state[u] /\ dest'[u] = dest[u]
    BY <1>1, <1>2, <1>4
  <2> QED BY <2>1, FewerLeft DEF Leftovers, Partial
<1>5. CASE \E t \in Tasks : XferFlooded(t) \/ XferFails(t) \/ XferDelivers(t)
  <2>1. PICK t \in Tasks : /\ Unlink(t) /\ crashes' = crashes /\ dest' = dest
                           /\ u # t => state'[u] = state[u]
    BY <1>3, <1>5
  <2>2. partials' \subseteq partials /\ Partial(t) \notin partials'
    BY <2>1, UnlinkTyped
  <2>3. state'[u] \in Returned => Partial(u)' \notin partials'
    BY <2>1, <2>2 DEF Leftovers, Partial
  <2> QED BY <2>1, <2>2, <2>3, FewerLeft
<1>6. CASE Cancel \/ Crash \/ \E t \in Tasks : CrashInPublish(t)
  <2>1. Drop /\ dest' = dest
    BY <1>6 DEF Cancel, Crash, CrashInPublish
  <2>2. ASSUME state'[u] \in Returned PROVE Partial(u)' \notin partials'
    <3>1. state[u] \notin Running /\ state[u] \in Returned
      BY <2>1, <2>2, DropTyped DEF Returned
    <3>2. \A t \in Tasks : state[t] = "xfer" => Partial(t) # Partial(u)
      BY <3>1 DEF Partial, Running, Asking
    <3>3. Partial(u) \notin partials
      BY <3>1 DEF Leftovers
    <3>4. Partial(u) \notin partials'
      BY <2>1, <3>2, <3>3, DropTyped
    <3> QED BY <2>1, <3>4 DEF Partial
  <2> QED BY <2>1, <2>2, OneMoreLeft
<1>7. CASE Tick \/ AllReturned \/ UNCHANGED vars
  <2>1. UNCHANGED <<partials, crashes, state, dest>>
    BY <1>7 DEF Tick, AllReturned, vars
  <2> QED BY <2>1, FewerLeft DEF Leftovers, Partial
<1> QED BY <1>4, <1>5, <1>6, <1>7 DEF Next, Step

\* A download that returned leaves no .partial file of its call, and every call
\* that was cut off one at most (NothingLeftBehind in Download).
THEOREM PartialsAreGone == Spec => []NothingLeftBehind
<1>1. Init => Leftovers
  <2> SUFFICES ASSUME Init, NEW t \in Tasks
               PROVE  state[t] \notin Returned /\ IsFiniteSet(LeftBy(t)) /\ Cardinality(LeftBy(t)) <= crashes
    BY DEF Leftovers
  <2>1. state[t] \notin Returned /\ crashes = 0 /\ LeftBy(t) = {}
    BY DEF Init, Returned, LeftBy
  <2> QED BY <2>1, FS_EmptySet
<1>2. TInv /\ Leftovers /\ [Next]_vars => Leftovers'
  BY LeftoversStep
<1>3. Leftovers => NothingLeftBehind
  BY DEF Leftovers, NothingLeftBehind
<1> QED BY <1>1, <1>2, <1>3, TypesInvariant, PTL DEF Spec

-----------------------------------------------------------------------------
(* The waits that Telegram demands. *)

\* The shared cooldown covers every wait that is owed and known of, and so does the
\* sleep of a download that waits for it; nothing of the kind is owed while a request
\* of its own is under way.
Owed ==
  \A t \in Tasks : heard[t] =>
    /\ owed[t] <= cool
    /\ state[t] = "cool" => owed[t] <= wait[t]
    /\ state[t] \in Asking => owed[t] = 0

\* Entering the loop with what is left of the cooldown.
LEMMA EnterLoopOwes ==
  ASSUME TInv, Owed, NEW t \in Tasks, EnterLoop(t, cool), UNCHANGED <<cool, owed, heard>>
  PROVE  Owed'
<1>1. cool \in Nat /\ owed \in [Tasks -> Nat] /\ (heard[t] => owed[t] <= cool)
  BY DEF TInv, TypeOK, Owed
<1>2. state' = [state EXCEPT ![t] = IF cool > 0 THEN "cool" ELSE "xfer"] /\ wait' = [wait EXCEPT ![t] = cool]
  BY DEF EnterLoop
<1>3. state'[t] = IF cool > 0 THEN "cool" ELSE "xfer"
  BY <1>2 DEF TInv, TypeOK
<1>4. state'[t] \in Asking => cool = 0
  BY <1>1, <1>3 DEF Asking
<1>5. wait'[t] = cool /\ \A u \in Tasks : u # t => state'[u] = state[u] /\ wait'[u] = wait[u]
  BY <1>2 DEF TInv, TypeOK
<1>6. heard[t] /\ state'[t] \in Asking => owed[t] = 0
  BY <1>1, <1>4
<1> QED BY <1>1, <1>5, <1>6 DEF Owed

\* Owed is inductive.
LEMMA OwedStep ==
  ASSUME TInv, Owed, [Next]_vars
  PROVE  Owed'
<1>0. cool \in Nat /\ owed \in [Tasks -> Nat] /\ wait \in [Tasks -> Nat] /\ heard \in [Tasks -> BOOLEAN]
  BY DEF TInv, TypeOK
<1>1. ASSUME NEW t \in Tasks, Begin(t) PROVE Owed'
  <2>1. UNCHANGED <<cool, owed, heard>>
    BY <1>1 DEF Begin, NoFlood
  <2>2. CASE IsDuplicate(Base[t], SizeOf[t]) \/ ResolveConflict(Base[t]) = NoName
    <3>1. wait' = wait /\ \A u \in Tasks : state'[u] = state[u] \/ state'[u] \in Skipped
      BY <1>1, <2>2 DEF Begin, TInv, TypeOK, Skipped
    <3> QED BY <2>1, <3>1 DEF Owed, Skipped, Asking
  <2>3. CASE ~(IsDuplicate(Base[t], SizeOf[t]) \/ ResolveConflict(Base[t]) = NoName)
    <3>1. EnterLoop(t, cool)
      BY <1>1, <2>3 DEF Begin
    <3> QED BY <2>1, <3>1, EnterLoopOwes
  <2> QED BY <2>2, <2>3
<1>2. ASSUME NEW t \in Tasks, CooldownOver(t) PROVE Owed'
  <2>1. /\ state[t] = "cool" /\ wait[t] = 0 /\ state' = [state EXCEPT ![t] = "xfer"]
        /\ UNCHANGED <<cool, wait, owed, heard>>
    BY <1>2 DEF CooldownOver, NoFlood
  <2>2. heard[t] => owed[t] = 0
    BY <1>0, <2>1 DEF Owed
  <2>3. \A u \in Tasks : u # t => state'[u] = state[u]
    BY <2>1 DEF TInv, TypeOK
  <2>4. state'[t] = "xfer"
    BY <2>1 DEF TInv, TypeOK
  <2> QED BY <2>1, <2>2, <2>3, <2>4 DEF Owed
<1>3. ASSUME NEW t \in Tasks, BackoffOver(t) PROVE Owed'
  BY <1>3, EnterLoopOwes DEF BackoffOver, NoFlood
<1>4. ASSUME NEW t \in Tasks, XferFlooded(t) PROVE Owed'
  <2>1. state[t] = "xfer" /\ UNCHANGED <<attempt, tries>>
    BY <1>4 DEF XferFlooded
  <2>2. PICK s \in Floods : FloodWait(t, s)
    BY <1>4 DEF XferFlooded
  <2>3. /\ cool' \in Nat /\ cool' >= s + Margin /\ cool' >= cool /\ s + Margin \in Nat
        /\ state' = [state EXCEPT ![t] = "cool"] /\ wait' = [wait EXCEPT ![t] = cool']
        /\ owed' = [owed EXCEPT ![t] = s + Margin] /\ heard' = [heard EXCEPT ![t] = TRUE]
    BY <2>1, <2>2, FloodWaitTyped
  <2>4. state'[t] = "cool" /\ wait'[t] = cool' /\ owed'[t] = s + Margin
    BY <1>0, <2>3 DEF TInv, TypeOK
  <2>5. \A u \in Tasks : u # t => /\ state'[u] = state[u] /\ wait'[u] = wait[u]
                                  /\ owed'[u] = owed[u] /\ heard'[u] = heard[u]
    BY <1>0, <2>3 DEF TInv, TypeOK
  <2>6. owed'[t] <= cool' /\ owed'[t] <= wait'[t]
    BY <2>3, <2>4
  <2>7. \A u \in Tasks : u # t /\ heard'[u] => owed'[u] <= cool'
    BY <1>0, <2>3, <2>5 DEF Owed
  <2> QED BY <2>4, <2>5, <2>6, <2>7 DEF Owed, Asking
<1>5. ASSUME NEW t \in Tasks, XferFails(t) PROVE Owed'
  <2>1. PICK next \in {"refresh", "backoff"} : RetryOrFail(t, next)
    BY <1>5 DEF XferFails
  <2>2. state[t] = "xfer" /\ cool' = cool
    BY <1>5 DEF XferFails
  <2>3. state'[t] # "cool"
    BY <2>1 DEF RetryOrFail, TInv, TypeOK
  <2>4. \A u \in Tasks : u # t => state'[u] = state[u] /\ wait'[u] = wait[u]
    BY <2>1 DEF RetryOrFail, TInv, TypeOK
  <2>5. \A u \in Tasks : heard'[u] => heard[u] /\ owed'[u] = owed[u]
    BY <1>5, UnheardTyped DEF XferFails
  <2> QED BY <2>2, <2>3, <2>4, <2>5 DEF Owed, Asking
<1>6. ASSUME NEW t \in Tasks, XferDelivers(t) PROVE Owed'
  <2>1. /\ state[t] = "xfer" /\ UNCHANGED <<cool, owed, heard>>
        /\ RetryOrFail(t, "backoff") \/ (state' = [state EXCEPT ![t] = "ok"] /\ wait' = wait)
    BY <1>6 DEF XferDelivers, Publish, NoFlood
  <2>2. state'[t] # "cool" /\ state'[t] \notin Asking
    BY <2>1 DEF RetryOrFail, TInv, TypeOK, Asking
  <2>3. \A u \in Tasks : u # t => state'[u] = state[u] /\ wait'[u] = wait[u]
    BY <2>1 DEF RetryOrFail, TInv, TypeOK
  <2> QED BY <2>1, <2>2, <2>3 DEF Owed
<1>7. ASSUME NEW t \in Tasks, Refreshed(t) PROVE Owed'
  <2>1. cool' = cool /\ state'[t] = "backoff"
    BY <1>7 DEF Refreshed, TInv, TypeOK
  <2>2. \A u \in Tasks : u # t => state'[u] = state[u] /\ wait'[u] = wait[u]
    BY <1>7 DEF Refreshed, TInv, TypeOK
  <2>3. \A u \in Tasks : heard'[u] => heard[u] /\ owed'[u] = owed[u]
    BY <1>7, UnheardTyped DEF Refreshed
  <2> QED BY <2>1, <2>2, <2>3 DEF Owed, Asking
<1>8. CASE Cancel \/ Crash \/ \E t \in Tasks : CrashInPublish(t)
  <2>1. Drop /\ (UNCHANGED <<cool, owed, heard>> \/ Forget)
    BY <1>8 DEF Cancel, Crash, CrashInPublish, NoFlood
  <2>2. \A u \in Tasks : state'[u] # "cool" /\ state'[u] \notin Asking
    BY <2>1, DropTyped DEF Running, Asking
  <2> QED BY <2>1, <2>2 DEF Owed, Forget
<1>9. CASE Tick
  <2>1. /\ cool' = CountDown(cool) /\ wait' = [t \in Tasks |-> CountDown(wait[t])]
        /\ owed' = [t \in Tasks |-> CountDown(owed[t])] /\ state' = state
        /\ heard' = [t \in Tasks |-> heard[t] \/ owed'[t] = 0]
    BY <1>9 DEF Tick
  <2>2. \A m, n \in Nat : m <= n => CountDown(m) <= CountDown(n)
    BY DEF CountDown
  <2>3. \A n \in Nat : CountDown(n) \in Nat
    BY DEF CountDown
  <2> SUFFICES ASSUME NEW t \in Tasks, heard'[t]
               PROVE  /\ owed'[t] <= cool'
                      /\ state'[t] = "cool" => owed'[t] <= wait'[t]
                      /\ state'[t] \in Asking => owed'[t] = 0
    BY DEF Owed
  <2>4. owed'[t] = CountDown(owed[t]) /\ wait'[t] = CountDown(wait[t])
    BY <2>1
  <2>5. CASE owed'[t] = 0
    BY <1>0, <2>1, <2>3, <2>4, <2>5
  <2>6. CASE heard[t]
    <3>1. /\ owed[t] <= cool
          /\ state[t] = "cool" => owed[t] <= wait[t]
          /\ state[t] \in Asking => owed[t] = 0
      BY <2>6 DEF Owed
    <3>2. CountDown(0) = 0
      BY DEF CountDown
    <3> QED BY <1>0, <2>1, <2>2, <2>4, <3>1, <3>2
  <2> QED BY <2>1, <2>5, <2>6
<1>10. CASE AllReturned \/ UNCHANGED vars
  BY <1>10 DEF AllReturned, vars, Owed
<1> QED BY <1>1, <1>2, <1>3, <1>4, <1>5, <1>6, <1>7, <1>8, <1>9, <1>10 DEF Next, Step

\* No download asks Telegram again before a wait of its own that it knows of is
\* over (OwnWaitRespected in Download).
THEOREM WaitsAreRespected == Spec => OwnWaitRespected
<1> DEFINE InTurn == \A t \in Tasks :
             state'[t] \in Asking /\ state'[t] # state[t] => owed'[t] = 0 \/ ~heard'[t]
<1>1. Init => Owed
  <2> SUFFICES ASSUME Init PROVE Owed
    OBVIOUS
  <2>1. cool = 0 /\ owed = [t \in Tasks |-> 0] /\ state = [t \in Tasks |-> "new"]
    BY DEF Init
  <2>2. 0 <= 0
    OBVIOUS
  <2>3. \A t \in Tasks : owed[t] = 0 /\ state[t] # "cool"
    BY <2>1
  <2> QED BY <2>1, <2>2, <2>3, Zenon DEF Owed
<1>2. TInv /\ Owed /\ [Next]_vars => Owed'
  BY OwedStep
<1>3. Owed' => InTurn
  BY DEF Owed
<1>4. TInv /\ Owed /\ [Next]_vars => [InTurn]_vars
  BY <1>2, <1>3
<1> QED BY <1>1, <1>2, <1>4, TypesInvariant, PTL DEF Spec, OwnWaitRespected

-----------------------------------------------------------------------------
(* The abstract folder. *)

\* How a download ends, for the abstract folder.
Outcome ==
  [t \in Tasks |-> IF state[t] \in {"ok", "skipped"} THEN "ok"
                   ELSE IF state[t] \in {"failed", "refused"} THEN "failed" ELSE "open"]

\* An outcome changes with its own download only.
LEMMA OutcomeOf ==
  ASSUME TInv, NEW t \in Tasks, NEW s, state' = [state EXCEPT ![t] = s]
  PROVE  Outcome' = [Outcome EXCEPT ![t] = IF s \in {"ok", "skipped"} THEN "ok"
                                           ELSE IF s \in {"failed", "refused"} THEN "failed" ELSE "open"]
BY DEF Outcome, TInv, TypeOK

\* The size that Telegram reports is one of a whole file.
LEMMA ReportedIsWhole == \A t \in Tasks : SizeOf[t] \in Whole[t]
<1> SUFFICES ASSUME NEW t \in Tasks PROVE SizeOf[t] \in Whole[t]
  OBVIOUS
<1>1. SizeOf[t] \in Nat /\ SizeOf[t] > 0
  BY DownloadAssumption
<1>2. SizeOf[t] >= (SizeOf[t] * 99) \div 100
  BY <1>1
<1> QED BY <1>1, <1>2 DEF Whole, Accepted

\* A duplicate has the size of a whole file.
LEMMA DuplicateIsWhole ==
  ASSUME TInv, NEW t \in Tasks, NEW n, NEW size \in Whole[t], IsDuplicate(n, size)
  PROVE  \E x \in DOMAIN files : files[x].size \in Whole[t]
BY DEF IsDuplicate, Stored

\* A file more in the folder.
LEMMA PutAdds ==
  ASSUME TInv, NEW t \in Tasks, NEW n, ~Stored(n), NEW size \in Nat, Put(n, t, size),
         NEW sizes, size \in sizes
  PROVE  Store!Added(t, sizes)
<1>1. /\ DOMAIN files' = DOMAIN files \cup {n}
      /\ files'[n] = [by |-> t, size |-> size]
      /\ \A x \in DOMAIN files : x # n => files'[x] = files[x]
  BY PutTyped
<1>2. n \notin DOMAIN files
  BY DEF Stored
<1>3. n \in DOMAIN files' \ DOMAIN files /\ \A x \in DOMAIN files : files'[x] = files[x]
  BY <1>1, <1>2
<1>4. files'[n].by = t /\ files'[n].size \in sizes
  BY <1>1
<1> QED BY <1>1, <1>3, <1>4 DEF Store!Added

\* Every step of a download is one of the abstract folder, or none.
LEMMA StepRefines ==
  ASSUME TInv, NEW t \in Tasks, Step(t)
  PROVE  Store!Next \/ UNCHANGED <<files, Outcome>>
<1> USE DEF Store!Next
<1>0. state \in [Tasks -> States]
  BY DEF TInv, TypeOK, States
<1>1. CASE Begin(t)
  <2>1. state[t] = "new" /\ files' = files
    BY <1>1 DEF Begin
  <2>2. Outcome[t] = "open"
    BY <2>1 DEF Outcome
  <2>3. CASE IsDuplicate(Base[t], SizeOf[t])
    <3>1. state' = [state EXCEPT ![t] = "skipped"]
      BY <1>1, <2>3 DEF Begin
    <3>2. Outcome' = [Outcome EXCEPT ![t] = "ok"]
      BY <3>1, OutcomeOf
    <3>3. \E x \in DOMAIN files : files[x].size \in Whole[t]
      BY <2>3, DuplicateIsWhole, ReportedIsWhole
    <3>4. Store!Skip(t)
      BY <2>1, <2>2, <3>2, <3>3 DEF Store!Skip, Store!End, Outcome
    <3> QED BY <3>4
  <2>4. CASE ~IsDuplicate(Base[t], SizeOf[t]) /\ ResolveConflict(Base[t]) = NoName
    <3>1. state' = [state EXCEPT ![t] = "refused"]
      BY <1>1, <2>4 DEF Begin
    <3>2. Outcome' = [Outcome EXCEPT ![t] = "failed"]
      BY <3>1, OutcomeOf
    <3>3. Store!GiveUp(t)
      BY <2>1, <2>2, <3>2 DEF Store!GiveUp, Store!End, Outcome
    <3> QED BY <3>3
  <2>5. CASE ~IsDuplicate(Base[t], SizeOf[t]) /\ ResolveConflict(Base[t]) # NoName
    <3>1. PICK s \in {"cool", "xfer"} : state' = [state EXCEPT ![t] = s]
      BY <1>1, <2>5 DEF Begin, EnterLoop
    <3>2. Outcome' = [Outcome EXCEPT ![t] = "open"]
      BY <3>1, OutcomeOf
    <3>3. Outcome' = Outcome
      BY <2>2, <3>2 DEF Outcome
    <3> QED BY <2>1, <3>3
  <2> QED BY <2>3, <2>4, <2>5
<1>2. CASE CooldownOver(t) \/ Refreshed(t) \/ BackoffOver(t) \/ XferFlooded(t)
  <2>1. PICK s \in {"cool", "xfer", "backoff"} : state' = [state EXCEPT ![t] = s]
    BY <1>2 DEF CooldownOver, Refreshed, BackoffOver, XferFlooded, FloodWait, EnterLoop
  <2>2. state[t] \in Running /\ files' = files
    BY <1>2 DEF CooldownOver, Refreshed, BackoffOver, XferFlooded, Running, Asking
  <2>3. Outcome' = [Outcome EXCEPT ![t] = "open"]
    BY <2>1, OutcomeOf
  <2>4. Outcome[t] = "open"
    BY <2>2 DEF Outcome, Running, Asking
  <2>5. Outcome' = Outcome
    BY <2>3, <2>4 DEF Outcome
  <2> QED BY <2>2, <2>5
<1>3. ASSUME state[t] = "xfer", NEW next \in {"refresh", "backoff"}, RetryOrFail(t, next), files' = files
      PROVE  Store!GiveUp(t) \/ UNCHANGED <<files, Outcome>>
  <2>1. Outcome[t] = "open"
    BY <1>3 DEF Outcome
  <2>2. CASE attempt[t] < MaxRetries
    <3>1. state' = [state EXCEPT ![t] = next]
      BY <1>3, <2>2 DEF RetryOrFail
    <3>2. Outcome' = [Outcome EXCEPT ![t] = "open"]
      BY <3>1, OutcomeOf
    <3>3. Outcome' = Outcome
      BY <2>1, <3>2 DEF Outcome
    <3> QED BY <1>3, <3>3
  <2>3. CASE ~(attempt[t] < MaxRetries)
    <3>1. state' = [state EXCEPT ![t] = "failed"]
      BY <1>3, <2>3 DEF RetryOrFail
    <3>2. Outcome' = [Outcome EXCEPT ![t] = "failed"]
      BY <3>1, OutcomeOf
    <3> QED BY <1>3, <2>1, <3>2 DEF Store!GiveUp, Store!End, Outcome
  <2> QED BY <2>2, <2>3
<1>4. CASE XferFails(t)
  BY <1>3, <1>4 DEF XferFails
<1>5. CASE XferDelivers(t)
  <2>1. state[t] = "xfer"
    BY <1>5 DEF XferDelivers
  <2>2. PICK size \in Received : Accepted(t, size) /\ Publish(t, size)
    BY <1>5 DEF XferDelivers
  <2>3. size \in Whole[t] /\ size \in Nat
    BY <2>2, DownloadAssumption DEF Whole
  <2>4. Outcome[t] = "open"
    BY <2>1 DEF Outcome
  <2>5. CASE ~IsDuplicate(dest[t], size) /\ ResolveConflict(dest[t]) = NoName
    BY <1>3, <2>1, <2>2, <2>5 DEF Publish
  <2>6. CASE IsDuplicate(dest[t], size) \/ ResolveConflict(dest[t]) # NoName
    <3>1. state' = [state EXCEPT ![t] = "ok"]
      BY <2>2, <2>6 DEF Publish
    <3>2. Outcome' = [Outcome EXCEPT ![t] = "ok"]
      BY <3>1, OutcomeOf
    <3>3. Store!End(t, "ok")
      BY <2>4, <3>2 DEF Store!End, Outcome
    <3>4. CASE IsDuplicate(dest[t], size)
      <4>1. files' = files
        BY <2>2, <3>4 DEF Publish
      <4>2. Store!Skip(t)
        BY <2>3, <3>3, <3>4, <4>1, DuplicateIsWhole DEF Store!Skip
      <4> QED BY <4>2
    <3>5. CASE ~IsDuplicate(dest[t], size)
      <4>1. Put(ResolveConflict(dest[t]), t, size)
        BY <2>2, <2>6, <3>5 DEF Publish
      <4>2. ~Stored(ResolveConflict(dest[t]))
        BY <2>6, <3>5, ResolvedIsFree DEF TInv, TypeOK
      <4>3. Store!Added(t, Whole[t])
        BY <2>3, <4>1, <4>2, PutAdds
      <4>4. Store!Keep(t)
        BY <3>3, <4>3 DEF Store!Keep
      <4> QED BY <4>4
    <3> QED BY <3>4, <3>5
  <2> QED BY <2>5, <2>6
<1> QED BY <1>1, <1>2, <1>4, <1>5 DEF Step

\* So is every other step.
LEMMA WorldRefines ==
  ASSUME TInv, \/ Tick \/ Cancel \/ Crash \/ AllReturned \/ UNCHANGED vars
               \/ \E t \in Tasks : CrashInPublish(t)
  PROVE  Store!Next \/ UNCHANGED <<files, Outcome>>
<1>0. Drop => Outcome' = Outcome
  <2> SUFFICES ASSUME Drop PROVE Outcome' = Outcome
    OBVIOUS
  <2>1. \A t \in Tasks : state'[t] = state[t] \/ (state[t] \in Running /\ state'[t] = "new")
    BY DropTyped
  <2> QED BY <2>1 DEF Outcome, Running, Asking
<1>1. CASE Tick \/ AllReturned \/ UNCHANGED vars
  BY <1>1 DEF Tick, AllReturned, vars, Outcome
<1>2. CASE Cancel \/ Crash
  BY <1>0, <1>2 DEF Cancel, Crash
<1>3. CASE \E t \in Tasks : CrashInPublish(t)
  <2>1. PICK t \in Tasks : CrashInPublish(t)
    BY <1>3
  <2>2. /\ state[t] = "xfer" /\ ResolveConflict(dest[t]) # NoName /\ Drop
        /\ Put(ResolveConflict(dest[t]), t, 0)
    BY <2>1 DEF CrashInPublish
  <2>3. ~Stored(ResolveConflict(dest[t]))
    BY <2>2, ResolvedIsFree DEF TInv, TypeOK
  <2>4. Store!Added(t, {0})
    BY <2>2, <2>3, PutAdds
  <2>5. Outcome[t] = "open"
    BY <2>2 DEF Outcome
  <2>6. Store!Debris(t)
    BY <1>0, <2>2, <2>4, <2>5 DEF Store!Debris, Outcome
  <2> QED BY <2>6 DEF Store!Next
<1> QED BY <1>1, <1>2, <1>3

\* The downloads keep the promise of the abstract folder (KeepsStorePromise in
\* Download).
THEOREM DownloadsRefineFolder == Spec => KeepsStorePromise
<1>1. Init => Store!Init
  BY DEF Init, Store!Init
<1>2. TInv /\ [Next]_vars => [Store!Next]_(Store!vars)
  BY StepRefines, WorldRefines DEF Next, Store!vars, Outcome
<1> QED BY <1>1, <1>2, TypesInvariant, PTL DEF Spec, KeepsStorePromise, Store!Spec
=============================================================================
