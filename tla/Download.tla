------------------------------ MODULE Download ------------------------------
(***************************************************************************)
(* Concurrent downloads (download_media_with_retry in                      *)
(* src/client/downloader.py) between the choice of a destination in        *)
(* download_one and the publication of the finished file.  The downloads   *)
(* share the download folder and the FloodWait cooldown; they interleave   *)
(* at their awaits: the transfer, the refresh of the message, the waits    *)
(* and the retry delays.                                                   *)
(*                                                                         *)
(* Time is kept as remaining waits, in seconds, that Tick counts down.     *)
(* The transfer itself is pyrogram's: it may deliver the file, a part of   *)
(* it, nothing, or fail in any of the ways the code tells apart.           *)
(***************************************************************************)
EXTENDS Integers, Sequences, FiniteSets

CONSTANTS
  Tasks,       \* the messages being downloaded
  Base,        \* Base[t]: the destination path built for t
  SizeOf,      \* SizeOf[t]: the size Telegram reports for t's file
  Received,    \* bound: the sizes a transfer may deliver
  MaxRetries,  \* max_retries
  BaseDelay,   \* base_delay
  MaxDelay,    \* max_delay
  Margin,      \* FLOOD_WAIT_MARGIN
  Floods,      \* bound: the waits Telegram may demand
  MaxSuffix,   \* the highest numeric suffix resolve_conflict tries (10000)
  MaxFloods,   \* bound: FloodWaits
  MaxCrashes   \* bound: crashes and cancellations

ASSUME DownloadAssumption ==
  /\ Base \in [Tasks -> Seq(Nat)]
  /\ SizeOf \in [Tasks -> Nat \ {0}]
  /\ Received \subseteq Nat
  /\ MaxRetries \in Nat \ {0}
  /\ BaseDelay \in Nat \ {0}
  /\ MaxDelay \in Nat \ {0}
  /\ Margin \in Nat \ {0}
  /\ Floods \subseteq Nat
  /\ MaxSuffix \in Nat
  /\ MaxFloods \in Nat
  /\ MaxCrashes \in Nat

VARIABLES
  files,    \* files[n]: task that wrote the file named n and its size
  partials, \* the .partial files in the folder, each with the message's task in its name
  cool,     \* seconds left until _cooldown_until
  state,    \* state[t]: where download t stands
  wait,     \* wait[t]: seconds t still sleeps
  attempt,  \* attempt[t]: the loop counter
  dest,     \* dest[t]: the path download_one chose, and later passes to the hook
  floods,   \* FloodWaits so far
  crashes,  \* crashes and cancellations so far
  owed,     \* ghost: seconds left of the wait t's own last FloodWait demanded
  heard,    \* ghost: heard[t]: FALSE while a wait is owed that the retry loop does not know of
  tries     \* ghost: transfers of t that failed since it was started

vars == <<files, partials, cool, state, wait, attempt, dest, floods, crashes, owed, heard, tries>>

Asking == {"xfer", "refresh"}      \* a request to Telegram is under way
Running == {"cool", "backoff"} \cup Asking
Returned == {"ok", "failed"}       \* download_media_with_retry returned
Skipped == {"skipped", "refused"}  \* download_one did not call it

TypeOK ==
  /\ \A n \in DOMAIN files : files[n] \in [by : Tasks, size : Nat]
  /\ partials \subseteq Seq(Nat) \X Tasks
  /\ cool \in Nat
  /\ state \in [Tasks -> {"new"} \cup Running \cup Returned \cup Skipped]
  /\ wait \in [Tasks -> Nat]
  /\ attempt \in [Tasks -> 1..MaxRetries]
  /\ dest \in [Tasks -> Seq(Nat)]
  /\ floods \in 0..MaxFloods
  /\ crashes \in 0..MaxCrashes
  /\ owed \in [Tasks -> Nat]
  /\ heard \in [Tasks -> BOOLEAN]
  /\ tries \in [Tasks -> 0..MaxRetries]

Init ==
  /\ files = [n \in {} |-> [by |-> "none", size |-> 0]]
  /\ partials = {}
  /\ cool = 0
  /\ state = [t \in Tasks |-> "new"]
  /\ wait = [t \in Tasks |-> 0]
  /\ attempt = [t \in Tasks |-> 1]
  /\ dest = Base
  /\ floods = 0
  /\ crashes = 0
  /\ owed = [t \in Tasks |-> 0]
  /\ heard = [t \in Tasks |-> TRUE]
  /\ tries = [t \in Tasks |-> 0]

-----------------------------------------------------------------------------
(* The download folder. *)

Stored(n) == n \in DOMAIN files

\* Mutant: any file at that name will do.
IsDuplicateByName(n, size) == Stored(n)

\* is_duplicate: the name is taken by a file of exactly this size.
IsDuplicate(n, size) == Stored(n) /\ files[n].size = size

\* resolve_conflict: the first free name among n, n_2, n_3, ...; NoName when
\* all of them are taken (the code raises RuntimeError).
Numbered(n, i) == Append(n, i)
NoName == <<>>
ResolveConflict(n) ==
  LET free == {i \in 2..MaxSuffix : ~Stored(Numbered(n, i))}
  IN IF ~Stored(n) THEN n
     ELSE IF free = {} THEN NoName
     ELSE Numbered(n, CHOOSE i \in free : \A j \in free : i <= j)

Put(n, t, size) ==
  files' = [x \in DOMAIN files \cup {n} |-> IF x = n THEN [by |-> t, size |-> size] ELSE files[x]]

-----------------------------------------------------------------------------
(* The retry loop. *)

\* The top of the loop: wait for the cooldown as it stands now, then transfer.
EnterLoop(t, remaining) ==
  /\ state' = [state EXCEPT ![t] = IF remaining > 0 THEN "cool" ELSE "xfer"]
  /\ wait' = [wait EXCEPT ![t] = remaining]

Backoff(n) == LET delay == BaseDelay * 2^(n - 1)
              IN IF delay > MaxDelay THEN MaxDelay ELSE delay

\* Arithmetic that the provers do not know: a power of two is not negative.
ASSUME BackoffAssumption == \A n \in 1..MaxRetries : Backoff(n) \in Nat

\* The .partial file is named after the destination chosen at the start of the
\* call and the message, so that two downloads never share one.
Partial(t) == <<dest[t], t>>
Unlink(t) == partials' = partials \ {Partial(t)}

\* Mutants: one retry too many; retries that are not counted; the .partial file
\* stays when the last attempt fails.
RetryOrFailOneMore(t, next) ==
  /\ Unlink(t)
  /\ tries' = [tries EXCEPT ![t] = @ + 1]
  /\ IF attempt[t] <= MaxRetries
       THEN state' = [state EXCEPT ![t] = next]
       ELSE state' = [state EXCEPT ![t] = "failed"]
  /\ wait' = [wait EXCEPT ![t] = IF state'[t] = "backoff" THEN Backoff(attempt[t]) ELSE 0]

RetryUncounted(t, next) ==
  /\ Unlink(t)
  /\ EnterLoop(t, cool)
  /\ UNCHANGED tries

RetryOrFailKeepsPartial(t, next) ==
  /\ tries' = [tries EXCEPT ![t] = @ + 1]
  /\ IF attempt[t] < MaxRetries
       THEN Unlink(t) /\ state' = [state EXCEPT ![t] = next]
       ELSE /\ partials' \in {partials, partials \cup {Partial(t)}}
            /\ state' = [state EXCEPT ![t] = "failed"]
  /\ wait' = [wait EXCEPT ![t] = IF state'[t] = "backoff" THEN Backoff(attempt[t]) ELSE 0]

\* A failed transfer: its .partial file goes, and the last attempt makes the
\* download return False.  Otherwise the message is fetched again (next =
\* "refresh") if its file was empty or truncated or its reference had expired;
\* after any other exception comes the retry delay.
RetryOrFail(t, next) ==
  /\ Unlink(t)
  /\ tries' = [tries EXCEPT ![t] = @ + 1]
  /\ IF attempt[t] < MaxRetries
       THEN state' = [state EXCEPT ![t] = next]
       ELSE state' = [state EXCEPT ![t] = "failed"]
  /\ wait' = [wait EXCEPT ![t] = IF state'[t] = "backoff" THEN Backoff(attempt[t]) ELSE 0]

\* Mutant: a cooldown that is running already is not extended.
FloodWaitOnce(t, s) ==
  LET until == IF cool > 0 THEN cool ELSE s + Margin
  IN /\ cool' = until
     /\ Unlink(t)
     /\ EnterLoop(t, until)
     /\ owed' = [owed EXCEPT ![t] = s + Margin]
     /\ heard' = [heard EXCEPT ![t] = TRUE]

\* A FloodWait of s seconds: the shared cooldown is extended to cover it and
\* the loop starts over without using an attempt.
FloodWait(t, s) ==
  LET until == IF cool > s + Margin THEN cool ELSE s + Margin
  IN /\ cool' = until
     /\ Unlink(t)
     /\ EnterLoop(t, until)
     /\ owed' = [owed EXCEPT ![t] = s + Margin]
     /\ heard' = [heard EXCEPT ![t] = TRUE]

\* A FloodWait that does not reach the retry loop: raised by the refresh, where
\* every exception is caught, or logged by pyrogram beside a file that is not
\* empty or an exception.  No cooldown starts.
Unheard(t) ==
  /\ floods < MaxFloods
  /\ floods' = floods + 1
  /\ \E s \in Floods : owed' = [owed EXCEPT ![t] = s + Margin]
  /\ heard' = [heard EXCEPT ![t] = FALSE]

NoFlood == UNCHANGED <<floods, owed, heard>>

\* The size check allows one percent less than Telegram reported.
Accepted(t, size) == size > 0 /\ size >= (SizeOf[t] * 99) \div 100

\* download_one: the destination is looked up before the download starts.  A
\* file of the reported size ends it, another file moves it to a free name, and
\* when there is none it is skipped with an error.
Begin(t) ==
  /\ state[t] = "new"
  /\ attempt' = [attempt EXCEPT ![t] = 1]
  /\ tries' = [tries EXCEPT ![t] = 0]
  /\ IF IsDuplicate(Base[t], SizeOf[t]) \/ ResolveConflict(Base[t]) = NoName
       THEN /\ state' = [state EXCEPT ![t] =
                           IF IsDuplicate(Base[t], SizeOf[t]) THEN "skipped" ELSE "refused"]
            /\ UNCHANGED <<wait, dest>>
       ELSE /\ dest' = [dest EXCEPT ![t] = ResolveConflict(Base[t])]
            /\ EnterLoop(t, cool)
  /\ UNCHANGED <<files, partials, cool, crashes>> /\ NoFlood

\* The sleep of _wait_for_cooldown is over: the transfer starts.
CooldownOver(t) ==
  /\ state[t] = "cool"
  /\ wait[t] = 0
  /\ state' = [state EXCEPT ![t] = "xfer"]
  /\ UNCHANGED <<files, partials, cool, wait, attempt, dest, crashes, tries>> /\ NoFlood

\* The message was fetched again, or that failed: either way the delay follows.
Refreshed(t) ==
  /\ state[t] = "refresh"
  /\ state' = [state EXCEPT ![t] = "backoff"]
  /\ wait' = [wait EXCEPT ![t] = Backoff(attempt[t])]
  /\ NoFlood \/ Unheard(t)
  /\ UNCHANGED <<files, partials, cool, attempt, dest, crashes, tries>>

\* The retry delay is over: back to the top of the loop.
BackoffOver(t) ==
  /\ state[t] = "backoff"
  /\ wait[t] = 0
  /\ attempt' = [attempt EXCEPT ![t] = @ + 1]
  /\ EnterLoop(t, cool)
  /\ UNCHANGED <<files, partials, cool, dest, crashes, tries>> /\ NoFlood

\* Mutant: the last attempt fails on a FloodWait instead of waiting.
XferFloodedFails(t) ==
  /\ state[t] = "xfer"
  /\ floods < MaxFloods
  /\ floods' = floods + 1
  /\ IF attempt[t] < MaxRetries
       THEN \E s \in Floods : FloodWait(t, s)
       ELSE state' = [state EXCEPT ![t] = "failed"] /\ UNCHANGED <<cool, partials, wait, owed, heard>>
  /\ UNCHANGED <<files, attempt, dest, crashes, tries>>

\* pyrogram raises FloodWait, or logs it and leaves an empty file.
XferFlooded(t) ==
  /\ state[t] = "xfer"
  /\ floods < MaxFloods
  /\ floods' = floods + 1
  /\ \E s \in Floods : FloodWait(t, s)
  /\ UNCHANGED <<files, attempt, dest, crashes, tries>>

\* A stale file reference, an empty or truncated file, or any other exception.
XferFails(t) ==
  /\ state[t] = "xfer"
  /\ \E next \in {"refresh", "backoff"} : RetryOrFail(t, next)
  /\ NoFlood \/ Unheard(t)
  /\ UNCHANGED <<files, cool, attempt, dest, crashes>>

\* Mutant: the rename of the .partial file replaces what is there.
PublishOverwriting(t, size) ==
  /\ Put(dest[t], t, size)
  /\ Unlink(t)
  /\ state' = [state EXCEPT ![t] = "ok"]
  /\ UNCHANGED <<wait, tries>>

\* The transfer delivered a file that passes the size check.  It is published
\* without an await: under dest[t] if that name is still free, not at all if a
\* file of its size took the name meanwhile, else under the next free name;
\* when there is none the attempt has failed.  The name it got stays inside
\* download_media_with_retry.
Publish(t, size) ==
  LET name == ResolveConflict(dest[t])
  IN IF IsDuplicate(dest[t], size)
       THEN /\ Unlink(t)
            /\ state' = [state EXCEPT ![t] = "ok"]
            /\ UNCHANGED <<files, wait, tries>>
     ELSE IF name = NoName
       THEN RetryOrFail(t, "backoff") /\ UNCHANGED files
       ELSE /\ Put(name, t, size)
            /\ Unlink(t)
            /\ state' = [state EXCEPT ![t] = "ok"]
            /\ UNCHANGED <<wait, tries>>

\* Mutant: truncated files are not noticed.
XferDeliversUnchecked(t) ==
  /\ state[t] = "xfer"
  /\ \E size \in Received : size > 0 /\ Publish(t, size)
  /\ UNCHANGED <<cool, attempt, dest, crashes>> /\ NoFlood

XferDelivers(t) ==
  /\ state[t] = "xfer"
  /\ \E size \in Received : Accepted(t, size) /\ Publish(t, size)
  /\ UNCHANGED <<cool, attempt, dest, crashes>> /\ NoFlood

-----------------------------------------------------------------------------
(* Time, cancellation and crashes. *)

CountDown(n) == IF n > 0 THEN n - 1 ELSE 0

Tick ==
  /\ cool > 0 \/ \E t \in Tasks : wait[t] > 0
  /\ cool' = CountDown(cool)
  /\ wait' = [t \in Tasks |-> CountDown(wait[t])]
  /\ owed' = [t \in Tasks |-> CountDown(owed[t])]
  /\ heard' = [t \in Tasks |-> heard[t] \/ owed'[t] = 0]
  /\ UNCHANGED <<files, partials, state, attempt, dest, floods, crashes, tries>>

\* The unfinished downloads are dropped, and the transfers may leave their
\* .partial files behind.  The next check starts them again, and chooses their
\* destinations again: if the choice falls on another name, or on none, nothing
\* ever removes the .partial file of the first one.
Drop ==
  LET cut == {t \in Tasks : state[t] = "xfer"} IN
  /\ crashes < MaxCrashes
  /\ crashes' = crashes + 1
  /\ state' = [t \in Tasks |-> IF state[t] \in Running THEN "new" ELSE state[t]]
  /\ wait' = [t \in Tasks |-> 0]
  /\ \E left \in SUBSET cut :
       partials' = (partials \ {Partial(t) : t \in cut}) \cup {Partial(t) : t \in left}

\* The check is cancelled (timeout or shutdown) at the awaits.
Cancel ==
  /\ \E t \in Tasks : state[t] \in Running
  /\ Drop
  /\ UNCHANGED <<files, cool, attempt, dest, tries>> /\ NoFlood

\* The cooldown is only in memory; nothing that was demanded outlives the process.
Forget ==
  /\ cool' = 0
  /\ owed' = [t \in Tasks |-> 0]
  /\ heard' = [t \in Tasks |-> TRUE]

\* The process dies.
Crash ==
  /\ Drop
  /\ Forget
  /\ UNCHANGED <<files, attempt, dest, floods, tries>>

\* It dies between reserving the destination and moving the .partial file in:
\* both stay, the one as an empty placeholder.
CrashInPublish(t) ==
  /\ state[t] = "xfer"
  /\ ResolveConflict(dest[t]) # NoName
  /\ Drop
  /\ Partial(t) \in partials'
  /\ Put(ResolveConflict(dest[t]), t, 0)
  /\ Forget
  /\ UNCHANGED <<attempt, dest, floods, tries>>

-----------------------------------------------------------------------------
Step(t) ==
  \/ Begin(t) \/ CooldownOver(t) \/ Refreshed(t) \/ BackoffOver(t)
  \/ XferFlooded(t) \/ XferFails(t) \/ XferDelivers(t)

AllReturned == (\A t \in Tasks : state[t] \in Returned \cup Skipped) /\ UNCHANGED vars

Next ==
  \/ \E t \in Tasks : Step(t)
  \/ Tick \/ Cancel \/ Crash \/ \E t \in Tasks : CrashInPublish(t)
  \/ AllReturned

Spec == Init /\ [][Next]_vars

\* asyncio runs every task that is ready, time passes, and every request ends.
FairSpec == Spec /\ WF_vars(Tick) /\ \A t \in Tasks : WF_vars(Step(t))

-----------------------------------------------------------------------------
(* What the downloads promise. *)

\* A published file is whole; an empty one can only be the placeholder of a
\* publication that a crash cut short (the size checks and the publication
\* under a reserved name).
FilesWhole ==
  \A n \in DOMAIN files :
    Accepted(files[n].by, files[n].size) \/ (files[n].size = 0 /\ crashes > 0)

\* A download that returned leaves no .partial file of its own call, whatever it
\* went through (the unlinks on every way out of the retry loop); what its
\* message left under other names comes from calls that were cut off, one file
\* each at most.
LeftBy(t) == {p \in partials : p[2] = t}
NothingLeftBehind ==
  \A t \in Tasks :
    /\ state[t] \in Returned => Partial(t) \notin partials
    /\ Cardinality(LeftBy(t)) <= crashes

\* A download only gives up after max_retries transfers that failed, and a
\* FloodWait that the retry loop learned of is not one of them.
FailsAfterAllRetries == \A t \in Tasks : state[t] = "failed" => tries[t] = MaxRetries

\* A file in the download folder is never replaced, truncated or removed, not
\* even by a download that chose the same name while it did not exist yet.
NoClobber ==
  [][\A n \in DOMAIN files : n \in DOMAIN files' /\ files'[n] = files[n]]_vars

\* A download asks Telegram for nothing, the file or the message, before the
\* wait that its own last FloodWait demanded is over (the cooldown at the top of
\* the retry loop), unless the retry loop did not learn of that FloodWait: those
\* of the refresh and those logged beside a truncated file start no cooldown.
OwnWaitRespected ==
  [][\A t \in Tasks :
       state'[t] \in Asking /\ state'[t] # state[t] => owed'[t] = 0 \/ ~heard'[t]]_vars

\* The post-download hook is run with the file that was downloaded, or with the
\* equally large one that made it superfluous (the dest that download_one
\* passes on after download_media_with_retry returned True).
HookGetsOwnFile ==
  \A t \in Tasks : state[t] = "ok" =>
    Stored(dest[t]) /\ (files[dest[t]].by = t \/ Accepted(t, files[dest[t]].size))

\* Every download returns, if Telegram stops demanding waits and the process
\* is left alone.
EveryDownloadReturns == \A t \in Tasks : <>(state[t] \in Returned \cup Skipped)

\* The downloads keep the folder's abstract promise.
Whole == [t \in Tasks |-> {z \in Received \cup {SizeOf[t]} : Accepted(t, z)}]
Store == INSTANCE FileStore WITH
  store <- files,
  outcome <- [t \in Tasks |-> IF state[t] \in {"ok", "skipped"} THEN "ok"
                               ELSE IF state[t] \in {"failed", "refused"} THEN "failed"
                               ELSE "open"]
KeepsStorePromise == Store!Spec
=============================================================================
