---------------------------- MODULE HooksProofs ----------------------------
(***************************************************************************)
(* Proofs about Hooks, for any number of processes, cancellations and any  *)
(* timeouts.                                                               *)
(***************************************************************************)
EXTENDS Hooks, TLAPS

\* The type invariant is inductive.
THEOREM TypeCorrect == Spec => []TypeOK
<1>1. Init => TypeOK
  <2> SUFFICES ASSUME Init PROVE TypeOK
    OBVIOUS
  <2>1. left \in 0..Max(Timeout, CleanupTime) /\ asked \in 0..MaxCancels
    BY HooksAssumption DEF Init, Max
  <2>2. proc \in [Procs -> {"none", "alive", "dying", "gone"}] /\ tree \in SUBSET Procs
    BY DEF Init
  <2> QED BY <2>1, <2>2 DEF Init, TypeOK, Procs, Final
<1>2. TypeOK /\ [Next]_vars => TypeOK'
  <2> SUFFICES ASSUME TypeOK, [Next]_vars PROVE TypeOK'
    OBVIOUS
  <2> USE HooksAssumption DEF TypeOK, Procs, Final, Max, Await, Return, Raise, Kill, processes, group
  <2>1. ASSUME Step PROVE TypeOK'
    <3>1. CASE Refused \/ Launch \/ Started \/ HookEnds
      BY <3>1 DEF Refused, Launch, Started, HookEnds
    <3>2. CASE TimesOut
      BY <3>2 DEF TimesOut, Terminate, KillGroup, Untouchable
    <3>3. CASE TaskkillEnds
      BY <3>3 DEF TaskkillEnds
    <3>4. CASE CleanupEnds \/ Closed
      BY <3>4 DEF CleanupEnds, Closed
    <3> QED BY <2>1, <3>1, <3>2, <3>3, <3>4 DEF Step
  <2>2. ASSUME Cancel PROVE TypeOK'
    <3>1. CASE CancelStart
      BY <3>1 DEF CancelStart, Asked
    <3>2. CASE CancelWait
      BY <3>2 DEF CancelWait, Asked, Terminate, KillGroup, Untouchable
    <3>3. CASE CancelCleanup
      BY <3>3 DEF CancelCleanup, Asked
    <3> QED BY <2>2, <3>1, <3>2, <3>3 DEF Cancel
  <2>3. ASSUME System PROVE TypeOK'
    <3>1. ASSUME NEW p \in Procs, Exits(p) PROVE TypeOK'
      BY <3>1 DEF Exits
    <3>2. ASSUME NEW p \in Procs, Leaves(p) PROVE TypeOK'
      BY <3>2 DEF Leaves
    <3>3. ASSUME NEW p \in Procs, NEW q \in Descendants, Forks(p, q) PROVE TypeOK'
      BY <3>3 DEF Forks
    <3>4. ASSUME NEW p \in Procs, TurnsForeign(p) PROVE TypeOK'
      BY <3>4 DEF TurnsForeign
    <3>5. CASE Reaps
      BY <3>5 DEF Reaps
    <3> QED BY <2>3, <3>1, <3>2, <3>3, <3>4, <3>5 DEF System
  <2>4. ASSUME Tick PROVE TypeOK'
    BY <2>4 DEF Tick
  <2>5. CASE UNCHANGED vars
    BY <2>5 DEF vars
  <2> QED BY <2>1, <2>2, <2>3, <2>4, <2>5 DEF Next
<1> QED BY <1>1, <1>2, PTL DEF Spec

-----------------------------------------------------------------------------
(* The inductive invariant. *)

\* The hook has been, or is being, cleaned up after.
Terminated == pc \in {"cleanup"} \cup Final /\ why # "none"

\* A tree that was killed cannot grow again: whoever forks is outside or out of reach.
TreeDead == Terminated /\ posix => \A p \in tree \ foreign : proc[p] # "alive"

LeaderDead == Terminated /\ ~posix /\ ~cut => proc[Leader] # "alive"

\* Why and when the clean-up runs.
Reasons ==
  /\ pc \in {"begin", "start", "wait", "closing"} => why = "none"
  /\ pc = "taskkill" => ~posix

\* Whoever was cancelled is on its way to raise it.
OnItsWay ==
  asked # 0 => \/ pc \in {"closing", "cancelled", "raised"}
               \/ pc \in {"taskkill", "cleanup"} /\ why = "cancel"

IInv == TreeDead /\ LeaderDead /\ Reasons /\ OnItsWay /\ ReapedFirst

\* The invariant is preserved by every step, given the types.
LEMMA Inductive == Spec => []IInv
<1>1. Init => IInv
  BY DEF Init, IInv, TreeDead, LeaderDead, Reasons, OnItsWay, ReapedFirst, Terminated, Final
<1>2. TypeOK /\ TypeOK' /\ IInv /\ [Next]_vars => IInv'
  <2> SUFFICES ASSUME TypeOK, TypeOK', IInv, [Next]_vars PROVE IInv'
    OBVIOUS
  <2> USE HooksAssumption DEF TypeOK, Procs, Final, Await, Return, Raise, Kill, processes, group,
        IInv, TreeDead, LeaderDead, Reasons, OnItsWay, ReapedFirst, Terminated
  <2>1. ASSUME Step PROVE IInv'
    <3>1. CASE Refused \/ Launch \/ Started \/ HookEnds
      BY <3>1 DEF Refused, Launch, Started, HookEnds
    <3>2. CASE TimesOut
      BY <3>2 DEF TimesOut, Terminate, KillGroup, Untouchable
    <3>3. CASE TaskkillEnds
      BY <3>3 DEF TaskkillEnds
    <3>4. CASE CleanupEnds \/ Closed
      BY <3>4 DEF CleanupEnds, Closed
    <3> QED BY <2>1, <3>1, <3>2, <3>3, <3>4 DEF Step
  <2>2. ASSUME Cancel PROVE IInv'
    <3>1. CASE CancelStart
      BY <3>1 DEF CancelStart, Asked
    <3>2. CASE CancelWait
      BY <3>2 DEF CancelWait, Asked, Terminate, KillGroup, Untouchable
    <3>3. CASE CancelCleanup
      BY <3>3 DEF CancelCleanup, Asked
    <3> QED BY <2>2, <3>1, <3>2, <3>3 DEF Cancel
  <2>3. ASSUME System PROVE IInv'
    <3>1. ASSUME NEW p \in Procs, Exits(p) PROVE IInv'
      BY <3>1 DEF Exits
    <3>2. ASSUME NEW p \in Procs, Leaves(p) PROVE IInv'
      BY <3>2 DEF Leaves
    <3>3. ASSUME NEW p \in Procs, NEW q \in Descendants, Forks(p, q) PROVE IInv'
      BY <3>3 DEF Forks
    <3>4. ASSUME NEW p \in Procs, TurnsForeign(p) PROVE IInv'
      BY <3>4 DEF TurnsForeign
    <3>5. CASE Reaps
      BY <3>5 DEF Reaps
    <3> QED BY <2>3, <3>1, <3>2, <3>3, <3>4, <3>5 DEF System
  <2>4. ASSUME Tick PROVE IInv'
    BY <2>4 DEF Tick
  <2>5. CASE UNCHANGED vars
    BY <2>5 DEF vars
  <2> QED BY <2>1, <2>2, <2>3, <2>4, <2>5 DEF Next
<1> QED BY <1>1, <1>2, TypeCorrect, PTL DEF Spec

\* Nothing of a hook that was terminated runs on, but what runs as another user
\* (_terminate_hook).
THEOREM NothingSurvives == Spec => []NoSurvivors
<1>1. TypeOK /\ IInv => NoSurvivors
  BY DEF TypeOK, IInv, TreeDead, LeaderDead, Terminated, NoSurvivors, Procs, Final
<1> QED BY <1>1, TypeCorrect, Inductive, PTL

\* No cancellation is lost in a hook (the re-raise in run_post_download_hook).
THEOREM CancellationsPropagate == Spec => []CancellationPropagates
<1>1. IInv => CancellationPropagates
  BY DEF IInv, OnItsWay, CancellationPropagates
<1> QED BY <1>1, Inductive, PTL

\* The command is reaped, or was given its time, before the call ends, unless it is
\* out of reach or a second cancellation leaves no time.
THEOREM AlwaysReapedFirst == Spec => []ReapedFirst
<1>1. IInv => ReapedFirst
  BY DEF IInv
<1> QED BY <1>1, Inductive, PTL
=============================================================================
