-------------------------------- MODULE Hooks --------------------------------
(***************************************************************************)
(* One call of run_post_download_hook (src/client/hooks.py): the command   *)
(* and the processes it starts, the timeout, and cancellations, which may  *)
(* arrive at every await: while the command is started, while it runs, and *)
(* while it is being cleaned up after.                                     *)
(***************************************************************************)
EXTENDS Integers

CONSTANTS
  Leader,       \* the process that the hook starts
  Descendants,  \* bound: the processes that may come after it
  Timeout,      \* post_download_hook_timeout
  CleanupTime,  \* HOOK_CLEANUP_TIMEOUT
  MaxCancels    \* bound: cancellations

ASSUME HooksAssumption ==
  /\ Leader \notin Descendants
  /\ Timeout \in Nat
  /\ CleanupTime \in Nat
  /\ MaxCancels \in Nat

VARIABLES
  posix,   \* os.name == "posix"
  pc,      \* where the call stands
  left,    \* time left of the wait it is in
  proc,    \* proc[p]: "none", "alive", "dying" (killed) or "gone"
  tree,    \* the processes in the group (on Windows: in the tree) of the hook
  foreign, \* the processes that run as another user, whom nobody here may kill
  reaped,  \* process.returncode is set
  why,     \* why the hook is terminated: "none", "timeout", "cancel"
  asked,   \* ghost: the cancellations so far
  cut      \* ghost: did one of them arrive during the clean-up?

group == <<posix, tree, foreign>>
processes == <<group, proc, reaped>>
vars == <<processes, pc, left, why, asked, cut>>

Procs == {Leader} \cup Descendants
Final == {"returned", "cancelled", "raised"}
Max(a, b) == IF a > b THEN a ELSE b

Init ==
  /\ posix \in BOOLEAN
  /\ pc = "begin"
  /\ left = 0
  /\ proc = [p \in Procs |-> "none"]
  /\ tree = Procs
  /\ foreign = {}
  /\ reaped = FALSE
  /\ why = "none"
  /\ asked = 0
  /\ cut = FALSE

Await(where, time) == pc' = where /\ left' = time

Return == pc' = "returned" /\ UNCHANGED left
Raise == pc' = "cancelled" /\ UNCHANGED left

\* The processes of a set are killed, those of them that still run and may be.
Kill(S) ==
  proc' = [p \in Procs |->
             IF p \in S \ foreign /\ proc[p] = "alive" THEN "dying" ELSE proc[p]]

-----------------------------------------------------------------------------
(* The hook is started and awaited. *)

\* A bad template, no command, no temporary file, no such program.
Refused ==
  /\ pc = "begin"
  /\ Return
  /\ UNCHANGED <<processes, why, asked, cut>>

\* create_subprocess_exec starts the process, and then awaits.
Launch ==
  /\ pc = "begin"
  /\ pc' = "start"
  /\ proc' = [proc EXCEPT ![Leader] = "alive"]
  /\ UNCHANGED <<group, left, reaped, why, asked, cut>>

Started ==
  /\ pc = "start"
  /\ Await("wait", Timeout)
  /\ UNCHANGED <<processes, why, asked, cut>>

\* The command has ended by itself: its output is read and logged.
HookEnds ==
  /\ pc = "wait"
  /\ reaped
  /\ Return
  /\ UNCHANGED <<processes, why, asked, cut>>

-----------------------------------------------------------------------------
(* _terminate_hook *)

\* Mutant: the group is killed only if the command still runs.
KillGroupIfRunning == IF reaped THEN UNCHANGED proc ELSE Kill(tree)

\* os.killpg: the group is addressable even when its leader has ended.  It only
\* fails when there is nobody in it that may be killed, which is a warning.
KillGroup == Kill(tree)

\* Then process.kill() fails too if the command itself is such a process and still
\* runs, and nobody handles that.
Untouchable == Leader \in foreign /\ proc[Leader] = "alive"

\* Mutant: nobody waits for the killed process.
TerminateNoWait(reason) ==
  /\ why' = reason
  /\ IF posix
       THEN KillGroup /\ IF reason = "cancel" THEN Raise ELSE Return
       ELSE UNCHANGED proc /\ Await(IF reaped THEN "cleanup" ELSE "taskkill", CleanupTime)

\* Up to its first await.  On Windows taskkill does the work, if it is needed.
Terminate(reason) ==
  /\ why' = reason
  /\ IF posix
       THEN KillGroup /\ Await(IF Untouchable THEN "raised" ELSE "cleanup", CleanupTime)
       ELSE UNCHANGED proc /\ Await(IF reaped THEN "cleanup" ELSE "taskkill", CleanupTime)

TimesOut ==
  /\ pc = "wait"
  /\ left = 0
  /\ Terminate("timeout")
  /\ UNCHANGED <<group, reaped, asked, cut>>

\* taskkill ends, having killed the tree or not, or its time is up; then
\* process.kill() makes sure of the leader.
TaskkillEnds ==
  /\ pc = "taskkill"
  /\ \E killed \in {{Leader}, {Leader} \cup tree} : Kill(killed)
  /\ Await("cleanup", CleanupTime)
  /\ UNCHANGED <<group, reaped, why, asked, cut>>

\* Mutants: the clean-up waits as long as it takes; the cancellation is lost
\* when the clean-up is over.
CleanupEndsReaped ==
  /\ pc = "cleanup"
  /\ reaped
  /\ IF why = "cancel" THEN Raise ELSE Return
  /\ UNCHANGED <<processes, why, asked, cut>>

CleanupEndsQuietly ==
  /\ pc = "cleanup"
  /\ reaped \/ left = 0
  /\ Return
  /\ UNCHANGED <<processes, why, asked, cut>>

\* A cancellation is raised again, a timeout is a warning.
CleanupEnds ==
  /\ pc = "cleanup"
  /\ reaped \/ left = 0
  /\ IF why = "cancel" THEN Raise ELSE Return
  /\ UNCHANGED <<processes, why, asked, cut>>

-----------------------------------------------------------------------------
(* Cancellation: the check's timeout, a sibling's error, the shutdown. *)

Asked == asked < MaxCancels /\ asked' = asked + 1

\* asyncio kills the process it has started, and waits for it to end.
CancelStart ==
  /\ pc = "start"
  /\ Asked
  /\ Await("closing", 0)
  /\ Kill({Leader})
  /\ UNCHANGED <<group, reaped, why, cut>>

Closed ==
  /\ pc = "closing"
  /\ reaped
  /\ Raise
  /\ UNCHANGED <<processes, why, asked, cut>>

CancelWait ==
  /\ pc = "wait"
  /\ Asked
  /\ Terminate("cancel")
  /\ UNCHANGED <<group, reaped, cut>>

\* It is caught nowhere in the clean-up.  A taskkill may have done its work.
CancelCleanup ==
  /\ pc \in {"closing", "taskkill", "cleanup"}
  /\ Asked
  /\ cut' = TRUE
  /\ Raise
  /\ IF pc = "taskkill" THEN UNCHANGED proc \/ Kill(tree) ELSE UNCHANGED proc
  /\ UNCHANGED <<group, reaped, why>>

-----------------------------------------------------------------------------
(* The operating system and the clock. *)

\* A process ends, by itself or because it was killed.
Exits(p) ==
  /\ proc[p] \in {"alive", "dying"}
  /\ proc' = [proc EXCEPT ![p] = "gone"]
  /\ UNCHANGED <<group, pc, left, reaped, why, asked, cut>>

Forks(p, q) ==
  /\ proc[p] = "alive"
  /\ proc[q] = "none"
  /\ proc' = [proc EXCEPT ![q] = "alive"]
  /\ tree' = IF p \in tree THEN tree ELSE tree \ {q}
  /\ foreign' = IF p \in foreign THEN foreign \cup {q} ELSE foreign
  /\ UNCHANGED <<posix, pc, left, reaped, why, asked, cut>>

\* A descendant begins a session of its own, or loses its parent on Windows.
Leaves(p) ==
  /\ p \in tree \ {Leader}
  /\ proc[p] = "alive"
  /\ tree' = tree \ {p}
  /\ UNCHANGED <<posix, foreign, pc, left, proc, reaped, why, asked, cut>>

\* A process takes another user's identity, like sudo.
TurnsForeign(p) ==
  /\ posix
  /\ p \notin foreign
  /\ proc[p] = "alive"
  /\ foreign' = foreign \cup {p}
  /\ UNCHANGED <<posix, tree, pc, left, proc, reaped, why, asked, cut>>

\* asyncio's child watcher.
Reaps ==
  /\ proc[Leader] = "gone"
  /\ ~reaped
  /\ reaped' = TRUE
  /\ UNCHANGED <<group, pc, left, proc, why, asked, cut>>

Tick ==
  /\ pc \in {"wait", "taskkill", "cleanup"}
  /\ left > 0
  /\ left' = left - 1
  /\ UNCHANGED <<processes, pc, why, asked, cut>>

Step ==
  \/ Refused \/ Launch \/ Started \/ HookEnds
  \/ TimesOut \/ TaskkillEnds \/ CleanupEnds \/ Closed

Cancel == CancelStart \/ CancelWait \/ CancelCleanup

System ==
  \/ \E p \in Procs : Exits(p) \/ Leaves(p) \/ TurnsForeign(p) \/ \E q \in Descendants : Forks(p, q)
  \/ Reaps

Next == Step \/ Cancel \/ System \/ Tick

Spec == Init /\ [][Next]_vars

\* The event loop goes on and time passes.  No process ever has to end, not
\* even a killed one: it may be stuck in the kernel.
FairSpec == Spec /\ WF_vars(Step) /\ WF_vars(Tick)

-----------------------------------------------------------------------------
(* What the hook promises. *)

TypeOK ==
  /\ posix \in BOOLEAN
  /\ pc \in {"begin", "start", "closing", "wait", "taskkill", "cleanup"} \cup Final
  /\ left \in 0..Max(Timeout, CleanupTime)
  /\ pc \in {"taskkill", "cleanup"} => left <= CleanupTime
  /\ proc \in [Procs -> {"none", "alive", "dying", "gone"}]
  /\ tree \in SUBSET Procs
  /\ Leader \in tree
  /\ foreign \in SUBSET Procs
  /\ foreign # {} => posix
  /\ reaped \in BOOLEAN
  /\ reaped => proc[Leader] = "gone"
  /\ pc = "begin" => proc[Leader] = "none"
  /\ why \in {"none", "timeout", "cancel"}
  /\ asked \in 0..MaxCancels
  /\ cut \in BOOLEAN

\* Once a hook that timed out or was cancelled is given up, nothing of it runs
\* on that may be killed: no process of its group, also when the command itself
\* has ended before its descendants, when it is cancelled again, or when a process
\* forks at the last moment (_terminate_hook).  What runs as another user is out of
\* reach (hooks.py:53).  A hook that is cancelled while it is being started only
\* loses its command.  On Windows the command at least is killed, unless a second
\* cancellation interrupts taskkill.
NoSurvivors ==
  (pc \in Final /\ why # "none") =>
    \A p \in IF posix THEN tree \ foreign ELSE IF cut THEN {} ELSE {Leader} : proc[p] # "alive"

\* A cancellation is never lost, in whatever step of the hook it arrives: the
\* call does not return as if nothing had happened, and the check that is
\* being cancelled does not go on to its next await (the re-raise in
\* run_post_download_hook).  A PermissionError may stand in for it ("raised"), when
\* the command runs as another user.
CancellationPropagates == pc = "returned" => asked = 0

\* The call ends only after the process was reaped, or after it was given its
\* time for that, unless another cancellation leaves no time, or it is out of reach
\* (the docstring's "propagated after the child is reaped", and HOOK_CLEANUP_TIMEOUT).
ReapedFirst ==
  (pc \in Final /\ why # "none") =>
    reaped \/ left = 0 \/ cut \/ (pc = "raised" /\ Leader \in foreign)

\* A hook always ends and frees its download slot, even if its processes cannot
\* be killed.  asyncio's own clean-up of a start that is cancelled is the one
\* wait without a limit.
HookReturns == <>(pc \in Final \cup {"closing"})
=============================================================================
