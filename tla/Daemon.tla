------------------------------- MODULE Daemon -------------------------------
(***************************************************************************)
(* The daemon (DaemonService in src/daemon/service.py), its health file    *)
(* (HealthMonitor in src/daemon/health.py), Docker's probe of that file    *)
(* (healthcheck.py) and what main() does when the Telegram session dies,   *)
(* with the active hours of Schedule and the throttle of Notifications.    *)
(*                                                                         *)
(* Three asyncio tasks share the event loop: the main task (start-up, then *)
(* check, report, sleep, forever), the heartbeat, and the shutdown that a  *)
(* signal starts.  One unit of time is an arbitrary tick; ages and elapsed *)
(* times saturate just above the largest limit they are compared with.     *)
(***************************************************************************)
EXTENDS Schedule, Notifications

CONSTANTS
  Interval,    \* check_interval
  Timeout,     \* check_timeout
  Heartbeat,   \* HEARTBEAT_INTERVAL
  NotifyTime,  \* the longest that notifications may take
  MaxAge,      \* TDL_DAEMON_HEALTH_MAX_AGE, the probe's limit on the timestamp
  Windows,     \* active_windows, a set of pairs; empty: no restriction
  Deaths,      \* the ways the session may die: "revoked", "duplicated"
  MayHang      \* may a check ignore its cancellation?

ASSUME DaemonAssumption ==
  /\ Interval \in Nat \ {0}
  /\ Timeout \in Nat \ {0}
  /\ Heartbeat \in Nat \ {0}
  /\ NotifyTime \in Nat
  /\ \A d \in Delivery : d.time \in 0..NotifyTime
  /\ MaxAge \in Nat
  /\ Windows \subseteq Times \X Times
  /\ Deaths \subseteq {"revoked", "duplicated"}
  /\ MayHang \in BOOLEAN

VARIABLES
  main,      \* where the main task is
  spent,     \* time it has spent there
  hb,        \* time since the heartbeat task last woke up, Off if it is not running
  stop,      \* shutdown_event
  shutting,  \* the shutdown task: "no", "notify", "done"
  status,    \* line 1 of the health file
  age,       \* age of its timestamp
  progress,  \* age of last_progress, or of started_at before the first check
  limited,   \* does the file carry max_check_age?
  session,   \* the Telegram session
  now,       \* the local time of day
  notice,    \* the notification on its way, NoNotice if it was throttled
  hung       \* the running check ignores its cancellation

file == <<status, age, progress, limited>>
reporting == <<notice, quiet, lag>>
vars == <<main, spent, hb, stop, shutting, file, session, now, reporting, hung>>

Off == -1

\* Mutant: the deadline forgets the sleep between two checks.
MaxCheckAgeNoSleep == Timeout + Heartbeat

MaxCheckAge == Interval + Timeout + Heartbeat
MaxSpent == Interval + Timeout + NotifyTime   \* bound: saturates spent

Working == {"startup", "check", "report", "sleep"}

TypeOK ==
  /\ main \in {"validate", "dead", "auth", "ended"} \cup Working
  /\ spent \in 0..MaxSpent
  /\ hb \in {Off} \cup 0..Heartbeat + NotifyTime
  /\ hb # Off => main \in Working
  /\ stop \in BOOLEAN
  /\ shutting \in {"no", "notify", "done"}
  /\ status \in {"none", "starting", "healthy", "error", "stopped"}
  /\ age \in 0..MaxAge + 1
  /\ progress \in 0..MaxCheckAge + 1
  /\ limited \in BOOLEAN
  /\ session \in {"alive", "revoked", "duplicated"}
  /\ now \in Times
  /\ notice \in [level : Levels \cup {"none"}, ok : BOOLEAN, time : 0..NotifyTime]
  /\ QuietOK
  /\ hung \in BOOLEAN

Init ==
  /\ main = "validate"
  /\ spent = 0
  /\ hb = Off
  /\ stop = FALSE
  /\ shutting = "no"
  /\ status = "none"
  /\ age = 0
  /\ progress = 0
  /\ limited = FALSE
  /\ session = "alive"
  /\ now \in Times
  /\ notice = NoNotice
  /\ NeverNotified
  /\ hung = FALSE

-----------------------------------------------------------------------------
(* The health file. *)

\* update_status: every write renews the timestamp, "healthy" also the progress.
UpdateStatus(s) ==
  /\ status' = s
  /\ age' = 0
  /\ progress' = IF s = "healthy" THEN 0 ELSE progress
  /\ limited' = TRUE

\* Mutant: a heartbeat counts as progress.
RefreshAll == age' = 0 /\ progress' = 0 /\ UNCHANGED <<status, limited>>

\* heartbeat: the timestamp only.
Refresh == age' = 0 /\ UNCHANGED <<status, progress, limited>>

\* handle_auth_failure writes with a new HealthMonitor, without a deadline.
ReportDeadSession ==
  /\ status' = "error"
  /\ age' = 0
  /\ limited' = FALSE
  /\ UNCHANGED progress

\* healthcheck.py: exit 0 or 1.
ProbeOK ==
  /\ status \in {"healthy", "starting"}
  /\ age <= MaxAge
  /\ limited => progress <= MaxCheckAge

-----------------------------------------------------------------------------
(* The main task. *)

GoTo(where) == main' = where /\ spent' = 0

\* Mutant: the heartbeat is not cancelled.
LeaveHeartbeatOn == GoTo("ended") /\ UNCHANGED hb /\ UpdateStatus("stopped")

\* run() leaves its try block: the heartbeat is cancelled, "stopped" written.
Leave == GoTo("ended") /\ hb' = Off /\ UpdateStatus("stopped")

\* Mutant: main() exits after its report, and Docker restarts it.
DeadSessionExits(where) == GoTo("ended") /\ hb' = Off /\ ReportDeadSession

\* AUTH_ERRORS out of connecting or out of run(): no shutdown, no "stopped", but
\* one report in the health file and one notification.
DeadSession(where) == GoTo(where) /\ hb' = Off /\ ReportDeadSession

\* run_check: outside the active hours the check is skipped, as a healthy one.
BeginCheck ==
  IF IsWithinActiveHours(Windows, now)
    THEN GoTo("check") /\ UNCHANGED file
    ELSE GoTo("sleep") /\ UpdateStatus("healthy")

\* A notification is on its way, or throttled, while the main task is in startup,
\* report or dead; then it has been sent or has failed.
Sends(level, force) == notice' \in Notices(level, force) /\ UNCHANGED <<quiet, lag>>
Sent == spent = notice.time /\ Notified(notice) /\ notice' = NoNotice

\* Connecting and startup_validation, then startup() up to its notification.
Validate ==
  /\ main = "validate"
  /\ session = "alive"
  /\ GoTo("startup")
  /\ status' = "starting" /\ age' = 0 /\ progress' = 0 /\ limited' = TRUE
  /\ Sends("info", FALSE)
  /\ UNCHANGED <<hb, stop, shutting, session, now, hung>>

ValidateUnauthorized ==
  /\ main = "validate"
  /\ session # "alive"
  /\ DeadSession("auth")
  /\ Sends("error", TRUE)
  /\ UNCHANGED <<stop, shutting, session, now, hung>>

\* Fail-fast: any other error before the loop ends the process.
ValidateFails ==
  /\ main = "validate"
  /\ GoTo("ended")
  /\ UNCHANGED <<hb, stop, shutting, file, session, now, reporting, hung>>

\* The heartbeat starts and the first check runs, whatever shutdown_event says.
StartupDone ==
  /\ main = "startup"
  /\ hb' = 0
  /\ BeginCheck
  /\ Sent
  /\ UNCHANGED <<stop, shutting, session, now, hung>>

\* Every check that ends without an auth error is reported and followed by the
\* sleep.  The sources of a session that is used elsewhere (AuthKeyDuplicated)
\* fail one by one in main.run_check, which then raises a RuntimeError.
CheckOK ==
  /\ main = "check" /\ ~hung
  /\ session = "alive"
  /\ GoTo("report")
  /\ UpdateStatus("healthy")
  /\ Sends("success", FALSE)
  /\ UNCHANGED <<hb, stop, shutting, session, now, hung>>

CheckFails ==
  /\ main = "check" /\ ~hung
  /\ session # "revoked"
  /\ GoTo("report")
  /\ UpdateStatus("error")
  /\ \E force \in BOOLEAN : Sends("error", force)
  /\ UNCHANGED <<hb, stop, shutting, session, now, hung>>

CheckTimesOut ==
  /\ main = "check" /\ ~hung
  /\ spent = Timeout
  /\ GoTo("report")
  /\ UpdateStatus("error")
  /\ Sends("error", TRUE)
  /\ UNCHANGED <<hb, stop, shutting, session, now, hung>>

\* Mutant: an auth error is a failed check like any other.
CheckUnauthorizedRetried ==
  /\ main = "check" /\ ~hung
  /\ session = "revoked"
  /\ GoTo("report")
  /\ UpdateStatus("error")
  /\ Sends("error", FALSE)
  /\ UNCHANGED <<hb, stop, shutting, session, now, hung>>

CheckUnauthorized ==
  /\ main = "check" /\ ~hung
  /\ session = "revoked"
  /\ DeadSession("dead")
  /\ Sends("error", TRUE)
  /\ UNCHANGED <<stop, shutting, session, now, hung>>

\* The report is sent, and the process waits for a signal of its own.
WaitForShutdown ==
  /\ main = "dead"
  /\ GoTo("auth")
  /\ Sent
  /\ UNCHANGED <<hb, stop, shutting, file, session, now, hung>>

\* The notifications of the check are sent; periodic_loop sleeps or leaves.
ReportDone ==
  /\ main = "report"
  /\ IF stop THEN Leave ELSE GoTo("sleep") /\ UNCHANGED <<hb, file>>
  /\ Sent
  /\ UNCHANGED <<stop, shutting, session, now, hung>>

\* The sleep ends with the interval or with shutdown_event.
WakeUp ==
  /\ main = "sleep"
  /\ spent = Interval \/ stop
  /\ IF stop THEN Leave ELSE BeginCheck /\ UNCHANGED hb
  /\ UNCHANGED <<stop, shutting, session, now, reporting, hung>>

-----------------------------------------------------------------------------
(* The heartbeat and the shutdown. *)

HeartbeatStep ==
  /\ hb # Off
  /\ hb >= Heartbeat \/ stop
  /\ IF stop THEN hb' = Off /\ UNCHANGED file ELSE hb' = 0 /\ Refresh
  /\ UNCHANGED <<main, spent, stop, shutting, session, now, reporting, hung>>

\* SIGTERM or SIGINT: shutdown() sets the event and sends its notification.
\* The handlers are those of run() until wait_for_shutdown replaces them.
Signal ==
  /\ main \in Working \cup {"dead"}
  /\ ~stop
  /\ stop' = TRUE
  /\ shutting' = "notify"
  /\ UNCHANGED <<main, spent, hb, file, session, now, reporting, hung>>

\* While it waits for re-authentication main() has a handler of its own.
SignalWhileDead ==
  /\ main = "auth"
  /\ stop' = TRUE
  /\ GoTo("ended")
  /\ UNCHANGED <<hb, shutting, file, session, now, reporting, hung>>

\* Mutants: the main task is not cancelled; "stopped" is written without waiting
\* for the cancelled tasks.
CancelAllButMain ==
  /\ shutting = "notify"
  /\ main # "ended" /\ ~hung
  /\ shutting' = "done"
  /\ hb' = Off
  /\ UNCHANGED <<main, spent, stop, file, session, now, reporting, hung>>

CancelAllNoWait ==
  /\ shutting = "notify"
  /\ main # "ended" /\ ~hung
  /\ shutting' = "done"
  /\ UpdateStatus("stopped")
  /\ UNCHANGED <<main, spent, hb, stop, session, now, reporting, hung>>

\* Then it cancels every other task, waits for them to end, and writes
\* "stopped".  A check that ignores its cancellation keeps it waiting.
CancelAll ==
  /\ shutting = "notify"
  /\ main # "ended" /\ ~hung
  /\ shutting' = "done"
  /\ Leave
  /\ UNCHANGED <<stop, session, now, reporting, hung>>

\* The main task may also end first; asyncio.run then cancels the shutdown.
MainEndedFirst ==
  /\ shutting = "notify"
  /\ main = "ended"
  /\ shutting' = "done"
  /\ UNCHANGED <<main, spent, hb, stop, file, session, now, reporting, hung>>

-----------------------------------------------------------------------------
(* The world and the clock. *)

SessionDies ==
  /\ session = "alive"
  /\ main # "check"  \* during a check it is as if it died before or after it
  /\ session' \in Deaths
  /\ UNCHANGED <<main, spent, hb, stop, shutting, file, now, reporting, hung>>

\* The local time is set (daylight saving), by any number of ticks: the windows
\* and the throttle go by it, the ages in the health file by UTC.
ClockIsSet ==
  /\ \/ now' = (now + 1) % Day /\ QuietPasses
     \/ now' = (now + Day - 1) % Day /\ QuietReturns
  /\ UNCHANGED <<main, spent, hb, stop, shutting, file, session, notice, hung>>

\* A check may swallow the cancellation that its timeout brings.
CheckHangs ==
  /\ MayHang
  /\ main = "check" /\ ~hung
  /\ spent = Timeout
  /\ hung' = TRUE
  /\ UNCHANGED <<main, spent, hb, stop, shutting, file, session, now, reporting>>

UpTo(limit, n) == IF n < limit THEN n + 1 ELSE n

\* Time passes, but not beyond a deadline somebody has to act on.  The webhooks
\* are called synchronously, and hold up even the heartbeat.
Tick ==
  /\ main # "ended"
  /\ (main = "check" /\ ~hung) => spent < Timeout
  /\ main = "sleep" => spent < Interval /\ ~stop
  /\ main \in {"startup", "report", "dead"} => spent < notice.time
  /\ main # "report" => hb < Heartbeat
  /\ spent' = UpTo(MaxSpent, spent)
  /\ hb' = IF hb = Off THEN Off ELSE hb + 1
  /\ age' = UpTo(MaxAge + 1, age)
  /\ progress' = UpTo(MaxCheckAge + 1, progress)
  /\ now' = (now + 1) % Day
  /\ QuietPasses
  /\ UNCHANGED <<main, stop, shutting, status, limited, session, notice, hung>>

MainStep ==
  \/ Validate \/ ValidateUnauthorized \/ ValidateFails \/ StartupDone
  \/ CheckOK \/ CheckFails \/ CheckTimesOut \/ CheckUnauthorized
  \/ ReportDone \/ WaitForShutdown \/ WakeUp

Shutdown == CancelAll \/ MainEndedFirst

Ended == main = "ended" /\ UNCHANGED vars

Next ==
  \/ MainStep \/ HeartbeatStep \/ Shutdown \/ Tick
  \/ Signal \/ SignalWhileDead \/ SessionDies \/ ClockIsSet \/ CheckHangs
  \/ Ended

Spec == Init /\ [][Next]_vars

\* Telegram tells a check that its session is dead.
Answer == session # "alive" /\ (CheckUnauthorized \/ CheckFails)

\* The event loop runs every task that is ready, and time passes.  A check of a
\* dead session may run into its timeout, but not one after the other forever.
FairSpec ==
  /\ Spec
  /\ WF_vars(MainStep) /\ WF_vars(HeartbeatStep)
  /\ WF_vars(Shutdown) /\ WF_vars(Tick)
  /\ SF_vars(Answer)

-----------------------------------------------------------------------------
(* What the daemon promises. *)

\* The probe never fails a daemon that works: until it is told to stop, and as
\* long as its last check did not fail and the running one is within its
\* timeout, the container is healthy (the deadline HealthMonitor writes, the
\* timestamps of the heartbeat).  The sleep, the check and the notifications
\* after the last check all count against the one deadline.
NoFalseAlarm ==
  (main \in Working /\ status \in {"healthy", "starting"} /\ ~hung /\ ~stop) => ProbeOK

\* A daemon that has started only ends because it was told to: no outcome of a
\* check, and not even a dead session, ends the process (run_check's handlers,
\* and main()'s, which waits instead of exiting into a restart loop).
EndsOnRequestOnly == main = "ended" => stop \/ status = "none"

\* When the start-up or a sleep is over, a check begins within the active hours
\* and is skipped outside: whether the time lies on the way from the start of a
\* window to its end, also when the window crosses midnight or the clock is set
\* (run_check's gate; a check that runs may outlast its window).
ActiveNow == Windows = {} \/ \E w \in Windows : Covers(w, now)
Skipped == main' = "sleep" /\ (main = "startup" \/ (main = "sleep" /\ spent' < spent))
KeepsHours ==
  /\ main # "check" /\ main' = "check" => ActiveNow
  /\ Skipped => ~ActiveNow
ChecksInHours == [][KeepsHours]_vars

\* A failed check is only kept quiet if the throttle, together with what the local
\* clock was set back since the last error notification, is longer than the
\* interval: no notification of another level, such as the start-up's, and no
\* failure more than an interval ago can hold it back (the throttle per level in
\* NotificationManager, which subtracts local times).
FailuresNotified ==
  (main = "report" /\ status = "error" /\ notice.level # "error") => Throttle + lag > Interval

\* "stopped" is the last word of a daemon in the health file: no heartbeat and
\* no report of a check comes after it.
StoppedIsFinal == [][status = "stopped" => status' = "stopped" /\ age' >= age]_vars

\* A check that hangs is found out by the probe although the heartbeat goes on.
HungCheckDetected == hung ~> (~ProbeOK \/ stop)

\* A shutdown completes, unless a check ignores its cancellation.
ShutdownCompletes == stop ~> (main = "ended" \/ hung)

\* A dead session is not retried forever: as long as checks are made, that is
\* unless none falls into the active hours, the daemon notices it, reports it as
\* such and waits for re-authentication.  So it is for a session that Telegram
\* revoked (Unauthorized in main.run_check).
Reported == main \in {"dead", "auth", "ended"} \/ stop \/ hung
RevocationReported == []<>(main = "check") => (session = "revoked" ~> Reported)

\* The same for both errors that AUTH_ERRORS names: a session that is used
\* elsewhere is dead as well (client/errors.py).
DeadSessionReported == session # "alive" ~> Reported
=============================================================================
