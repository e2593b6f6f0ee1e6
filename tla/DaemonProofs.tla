---------------------------- MODULE DaemonProofs ----------------------------
(***************************************************************************)
(* Proofs about Daemon, for any intervals, timeouts, windows, channels and *)
(* times of day.                                                           *)
(***************************************************************************)
EXTENDS Daemon, TLAPS

-----------------------------------------------------------------------------
(* Active hours and notifications. *)

\* A time is in a window exactly when it lies on the way from the window's start
\* to its end, whether or not midnight comes in between (is_within_active_hours).
THEOREM WindowMeaning ==
  ASSUME NEW w \in Times \X Times, NEW t \in Times
  PROVE  InWindow(t, w) <=> Covers(w, t)
<1>1. w[1] \in 0..Day - 1 /\ w[2] \in 0..Day - 1 /\ t \in 0..Day - 1
  BY DEF Times
<1>2. CASE w[1] <= w[2]
  BY <1>1, <1>2, ScheduleAssumption DEF InWindow, Covers, Forward
<1>3. CASE ~(w[1] <= w[2])
  BY <1>1, <1>3, ScheduleAssumption DEF InWindow, Covers, Forward
<1> QED BY <1>2, <1>3

\* The gate of run_check is open exactly when a window covers the time.
LEMMA GateMeaning == now \in Times => (IsWithinActiveHours(Windows, now) <=> ActiveNow)
<1> SUFFICES ASSUME now \in Times PROVE IsWithinActiveHours(Windows, now) <=> ActiveNow
  OBVIOUS
<1>1. \A w \in Windows : InWindow(now, w) <=> Covers(w, now)
  BY WindowMeaning, DaemonAssumption
<1> QED BY <1>1 DEF IsWithinActiveHours, ActiveNow

Reports == [level : Levels \cup {"none"}, ok : BOOLEAN, time : 0..NotifyTime]

\* What a notification on its way may be, and which level it has.
LEMMA NoticeTyped ==
  ASSUME NEW level \in Levels, NEW force \in BOOLEAN, NEW n \in Notices(level, force)
  PROVE  /\ n \in Reports
         /\ n.level \in {level, "none"}
         /\ force \/ ShouldNotify(level) => n.level = level
<1>1. CASE force \/ ShouldNotify(level)
  <2>1. PICK d \in Delivery : n = [level |-> level, ok |-> d.ok, time |-> d.time]
    BY <1>1 DEF Notices
  <2>2. d.time \in 0..NotifyTime
    BY DaemonAssumption
  <2>3. d.ok \in BOOLEAN
    <3>1. PICK x \in Discord, y \in Webhook : d = [ok |-> x.ok \/ y.ok, time |-> x.time + y.time]
      BY DEF Delivery
    <3>2. d.ok = (x.ok \/ y.ok)
      BY <3>1
    <3> QED BY <3>2
  <2> QED BY <2>1, <2>2, <2>3 DEF Reports
<1>2. CASE ~(force \/ ShouldNotify(level))
  <2>1. n = NoNotice
    BY <1>2 DEF Notices
  <2>2. 0 \in 0..NotifyTime
    BY DaemonAssumption
  <2> QED BY <1>2, <2>1, <2>2 DEF NoNotice, Reports
<1> QED BY <1>1, <1>2

\* What the main task may put on its way.
LEMMA SendsTyped ==
  ASSUME NEW level \in Levels, NEW force \in BOOLEAN, Sends(level, force)
  PROVE  /\ notice' \in Reports
         /\ notice'.level \in {level, "none"}
         /\ force \/ ShouldNotify(level) => notice'.level = level
         /\ quiet' = quiet /\ lag' = lag
BY NoticeTyped DEF Sends

-----------------------------------------------------------------------------
(* Type correctness, with how late the heartbeat may be. *)

\* Only the notifications after a check make it late, and it runs before the sleep
\* goes on.
InTime ==
  /\ main = "check" => hb <= Heartbeat
  /\ main = "sleep" /\ spent > 0 => hb <= Heartbeat
  /\ main = "report" => hb <= Heartbeat + spent
  /\ main \in {"startup", "report", "dead"} => spent <= notice.time
  /\ main = "sleep" => spent <= Interval
  /\ main = "check" /\ ~hung => spent <= Timeout

TInv == TypeOK /\ InTime

\* Where a check, a skipped check or the end leads to.
LEMMA BeginCheckTyped ==
  ASSUME TInv, BeginCheck
  PROVE  /\ main' \in {"check", "sleep"}
         /\ spent' = 0
         /\ status' \in {"none", "starting", "healthy", "error", "stopped"}
         /\ age' \in 0..MaxAge + 1
         /\ progress' \in 0..MaxCheckAge + 1
         /\ limited' \in BOOLEAN
<1>1. main' \in {"check", "sleep"} /\ spent' = 0
  BY DEF BeginCheck, GoTo
<1>2. status' \in {"none", "starting", "healthy", "error", "stopped"} /\ limited' \in BOOLEAN
  BY DEF TInv, TypeOK, BeginCheck, UpdateStatus, file
<1>3. age' \in 0..MaxAge + 1
  BY DaemonAssumption DEF TInv, TypeOK, BeginCheck, UpdateStatus, file
<1>4. progress' \in 0..MaxCheckAge + 1
  BY DaemonAssumption DEF TInv, TypeOK, BeginCheck, UpdateStatus, file, MaxCheckAge
<1> QED BY <1>1, <1>2, <1>3, <1>4

\* A sent notification leaves a quiet time behind.
LEMMA SentTyped ==
  ASSUME TInv, Sent
  PROVE  QuietOK' /\ notice' \in Reports
<1>1. QuietOK'
  <2>1. CASE notice.ok
    <3>1. Throttle \in Over..Throttle + MaxBack /\ 0 \in 0..MaxBack
      BY NotificationsAssumption DEF Over
    <3>2. quiet' = [quiet EXCEPT ![notice.level] = Throttle] /\ (lag' = 0 \/ lag' = lag)
      BY <2>1 DEF Sent, Notified
    <3> QED BY <3>1, <3>2 DEF TInv, TypeOK, QuietOK
  <2>2. CASE ~notice.ok
    BY <2>2 DEF TInv, TypeOK, QuietOK, Sent, Notified
  <2> QED BY <2>1, <2>2
<1>2. notice' \in Reports
  BY DaemonAssumption DEF Sent, NoNotice, Reports
<1> QED BY <1>1, <1>2

\* The initial states are well typed.
LEMMA InitTyped == Init => TInv
<1> SUFFICES ASSUME Init PROVE TInv
  OBVIOUS
<1>1. 0 \in 0..MaxSpent /\ 0 \in 0..MaxAge + 1 /\ 0 \in 0..MaxCheckAge + 1 /\ 0 \in 0..NotifyTime
  BY DaemonAssumption DEF MaxSpent, MaxCheckAge
<1>2. QuietOK
  <2>1. Over \in Over..Throttle + MaxBack /\ 0 \in 0..MaxBack
    BY NotificationsAssumption DEF Over
  <2> QED BY <2>1 DEF Init, NeverNotified, QuietOK
<1>3. notice \in [level : Levels \cup {"none"}, ok : BOOLEAN, time : 0..NotifyTime]
  BY <1>1 DEF Init, NoNotice
<1>4. InTime
  BY DEF Init, InTime
<1> QED BY <1>1, <1>2, <1>3, <1>4 DEF Init, TInv, TypeOK, Working, Off

\* Every step of the main task keeps the types.
LEMMA MainStepTyped ==
  ASSUME TInv, MainStep
  PROVE  TInv'
<1> USE DaemonAssumption DEF TypeOK, InTime, Working, Off, MaxSpent, GoTo, UpdateStatus, file, reporting
<1>0. "info" \in Levels /\ "success" \in Levels /\ "error" \in Levels /\ TRUE \in BOOLEAN /\ FALSE \in BOOLEAN
  BY DEF Levels
<1>1. CASE Validate
  <2>1. notice' \in Reports /\ quiet' = quiet /\ lag' = lag
    BY <1>0, <1>1, SendsTyped DEF Validate
  <2> QED BY <1>1, <2>1 DEF Validate, TInv, Reports, QuietOK, MaxCheckAge
<1>2. CASE ValidateUnauthorized
  <2>1. notice' \in Reports /\ quiet' = quiet /\ lag' = lag
    BY <1>0, <1>2, SendsTyped DEF ValidateUnauthorized
  <2>2. TypeOK'
    <3>1. main' = "auth" /\ spent' \in 0..MaxSpent /\ hb' = Off
      BY <1>2 DEF ValidateUnauthorized, DeadSession
    <3>2. status' = "error" /\ limited' \in BOOLEAN /\ progress' = progress
      BY <1>2 DEF ValidateUnauthorized, DeadSession, ReportDeadSession
    <3>3. age' \in 0..MaxAge + 1
      BY <1>2 DEF ValidateUnauthorized, DeadSession, ReportDeadSession
    <3> QED BY <1>2, <2>1, <3>1, <3>2, <3>3 DEF ValidateUnauthorized, TInv, Reports, QuietOK
  <2>3. InTime'
    BY <1>2, <2>1 DEF ValidateUnauthorized, DeadSession, TInv, Reports
  <2> QED BY <2>2, <2>3 DEF TInv
<1>3. CASE ValidateFails
  BY <1>3 DEF ValidateFails, TInv, QuietOK
<1>4. CASE StartupDone
  BY <1>4, BeginCheckTyped, SentTyped DEF StartupDone, TInv, Reports
<1>5. CASE CheckOK
  <2>1. notice' \in Reports /\ quiet' = quiet /\ lag' = lag
    BY <1>0, <1>5, SendsTyped DEF CheckOK
  <2> QED BY <1>5, <2>1 DEF CheckOK, TInv, Reports, QuietOK, MaxCheckAge
<1>6. CASE CheckFails
  <2>1. notice' \in Reports /\ quiet' = quiet /\ lag' = lag
    BY <1>0, <1>6, SendsTyped DEF CheckFails
  <2> QED BY <1>6, <2>1 DEF CheckFails, TInv, Reports, QuietOK, MaxCheckAge
<1>7. CASE CheckTimesOut
  <2>1. notice' \in Reports /\ quiet' = quiet /\ lag' = lag
    BY <1>0, <1>7, SendsTyped DEF CheckTimesOut
  <2> QED BY <1>7, <2>1 DEF CheckTimesOut, TInv, Reports, QuietOK, MaxCheckAge
<1>8. CASE CheckUnauthorized
  <2>1. notice' \in Reports /\ quiet' = quiet /\ lag' = lag
    BY <1>0, <1>8, SendsTyped DEF CheckUnauthorized
  <2>2. TypeOK'
    <3>1. main' = "dead" /\ spent' \in 0..MaxSpent /\ hb' = Off
      BY <1>8 DEF CheckUnauthorized, DeadSession
    <3>2. status' = "error" /\ limited' \in BOOLEAN /\ progress' = progress
      BY <1>8 DEF CheckUnauthorized, DeadSession, ReportDeadSession
    <3>3. age' \in 0..MaxAge + 1
      BY <1>8 DEF CheckUnauthorized, DeadSession, ReportDeadSession
    <3> QED BY <1>8, <2>1, <3>1, <3>2, <3>3 DEF CheckUnauthorized, TInv, Reports, QuietOK
  <2>3. InTime'
    BY <1>8, <2>1 DEF CheckUnauthorized, DeadSession, TInv, Reports
  <2> QED BY <2>2, <2>3 DEF TInv
<1>9. CASE ReportDone
  <2>1. QuietOK' /\ notice' \in Reports
    BY <1>9, SentTyped DEF ReportDone
  <2>2. CASE stop
    BY <1>9, <2>1, <2>2 DEF ReportDone, Leave, TInv, Reports, MaxCheckAge
  <2>3. CASE ~stop
    BY <1>9, <2>1, <2>3 DEF ReportDone, TInv, Reports
  <2> QED BY <2>2, <2>3
<1>10. CASE WaitForShutdown
  BY <1>10, SentTyped DEF WaitForShutdown, TInv, Reports
<1>11. CASE WakeUp
  <2>1. CASE stop
    BY <1>11, <2>1 DEF WakeUp, Leave, TInv, QuietOK, MaxCheckAge
  <2>2. CASE ~stop
    BY <1>11, <2>2, BeginCheckTyped DEF WakeUp, TInv, QuietOK
  <2> QED BY <2>1, <2>2
<1> QED BY <1>1, <1>2, <1>3, <1>4, <1>5, <1>6, <1>7, <1>8, <1>9, <1>10, <1>11 DEF MainStep

\* Local time stays a time of day, and the quiet times in their range, whichever way
\* the clock goes.
LEMMA ClockTyped ==
  ASSUME TInv
  PROVE  /\ (now + 1) % Day \in Times /\ (now + Day - 1) % Day \in Times
         /\ QuietPasses \/ QuietReturns => QuietOK'
<1>1. (now + 1) % Day \in Times /\ (now + Day - 1) % Day \in Times
  BY ScheduleAssumption DEF Times, TInv, TypeOK
<1>2. Over \in Int /\ Throttle \in Nat /\ MaxBack \in Nat /\ Over <= 0
  BY NotificationsAssumption DEF Over
<1>3. QuietPasses => QuietOK'
  BY <1>2 DEF QuietPasses, QuietOK, TInv, TypeOK
<1>4. QuietReturns => QuietOK'
  BY <1>2 DEF QuietReturns, QuietOK, TInv, TypeOK
<1> QED BY <1>1, <1>3, <1>4

\* So does every other step.
LEMMA OtherStepTyped ==
  ASSUME TInv, \/ HeartbeatStep \/ Shutdown \/ Signal \/ SignalWhileDead
               \/ SessionDies \/ ClockIsSet \/ CheckHangs \/ Ended
  PROVE  TInv'
<1> USE DaemonAssumption DEF TInv, TypeOK, InTime, Working, Off, MaxSpent, GoTo, UpdateStatus, file,
      reporting, QuietOK
<1>1. CASE HeartbeatStep
  BY <1>1 DEF HeartbeatStep, Refresh
<1>2. CASE CancelAll
  BY <1>2 DEF CancelAll, Leave, MaxCheckAge
<1>3. CASE MainEndedFirst
  BY <1>3 DEF MainEndedFirst
<1>4. CASE Signal
  BY <1>4 DEF Signal
<1>5. CASE SignalWhileDead
  BY <1>5 DEF SignalWhileDead
<1>6. CASE SessionDies
  BY <1>6 DEF SessionDies
<1>7. CASE ClockIsSet
  <2>1. now' \in Times /\ QuietOK'
    BY <1>7, ClockTyped DEF ClockIsSet
  <2> QED BY <1>7, <2>1 DEF ClockIsSet
<1>8. CASE CheckHangs
  BY <1>8 DEF CheckHangs
<1>9. CASE Ended
  BY <1>9 DEF Ended, vars
<1> QED BY <1>1, <1>2, <1>3, <1>4, <1>5, <1>6, <1>7, <1>8, <1>9 DEF Shutdown

\* So does the clock.
LEMMA TickTyped ==
  ASSUME TInv, Tick
  PROVE  TInv'
<1>1. spent' \in 0..MaxSpent /\ age' \in 0..MaxAge + 1 /\ progress' \in 0..MaxCheckAge + 1
  BY DaemonAssumption DEF Tick, UpTo, TInv, TypeOK, MaxSpent, MaxCheckAge
<1>2. now' \in Times /\ QuietOK'
  BY ClockTyped DEF Tick
<1>4. hb' \in {Off} \cup 0..Heartbeat + NotifyTime
  BY DaemonAssumption DEF Tick, TInv, TypeOK, InTime, Off, Working
<1>5. InTime'
  BY DaemonAssumption DEF Tick, TInv, TypeOK, InTime, Off, UpTo, Working, MaxSpent
<1> QED BY <1>1, <1>2, <1>4, <1>5 DEF Tick, TInv, TypeOK, Off

\* Every step keeps the types.
LEMMA StepTyped ==
  ASSUME TInv, [Next]_vars
  PROVE  TInv'
<1>1. CASE UNCHANGED vars
  BY <1>1 DEF vars, file, reporting, TInv, TypeOK, InTime, QuietOK
<1> QED BY <1>1, MainStepTyped, OtherStepTyped, TickTyped DEF Next

\* Type correctness, and how late the heartbeat may be.
LEMMA TypesInvariant == Spec => []TInv
<1>1. TInv /\ [Next]_vars => TInv'
  BY StepTyped
<1> QED BY <1>1, InitTyped, PTL DEF Spec

\* Type correctness of the daemon.
THEOREM TypeCorrect == Spec => []TypeOK
<1>1. TInv => TypeOK
  BY DEF TInv
<1> QED BY <1>1, TypesInvariant, PTL

-----------------------------------------------------------------------------
(* How the daemon ends. *)

\* Who may have written what: nobody before the start-up, "stopped" at the end.
Endings ==
  /\ shutting # "no" => stop
  /\ main = "validate" => status = "none"
  /\ status = "stopped" => main = "ended"
  /\ EndsOnRequestOnly

\* Endings is an invariant.
LEMMA EndingsInvariant == Spec => []Endings
<1>1. Init => Endings
  BY DEF Init, Endings, EndsOnRequestOnly
<1>2. TInv /\ Endings /\ [Next]_vars => Endings'
  <2> SUFFICES ASSUME TInv, Endings, [Next]_vars PROVE Endings'
    OBVIOUS
  <2> USE DEF Endings, EndsOnRequestOnly, file, reporting, GoTo
  <2>1. CASE Validate
    BY <2>1 DEF Validate
  <2>2. CASE ValidateUnauthorized
    BY <2>2 DEF ValidateUnauthorized, DeadSession, ReportDeadSession
  <2>3. CASE ValidateFails
    BY <2>3 DEF ValidateFails
  <2>4. CASE StartupDone
    BY <2>4 DEF StartupDone, BeginCheck, UpdateStatus
  <2>5. CASE CheckOK
    BY <2>5 DEF CheckOK, UpdateStatus
  <2>6. CASE CheckFails
    BY <2>6 DEF CheckFails, UpdateStatus
  <2>7. CASE CheckTimesOut
    BY <2>7 DEF CheckTimesOut, UpdateStatus
  <2>8. CASE CheckUnauthorized
    BY <2>8 DEF CheckUnauthorized, DeadSession, ReportDeadSession
  <2>9. CASE ReportDone
    BY <2>9 DEF ReportDone, Leave, UpdateStatus
  <2>10. CASE WaitForShutdown
    BY <2>10 DEF WaitForShutdown
  <2>11. CASE WakeUp
    BY <2>11 DEF WakeUp, Leave, BeginCheck, UpdateStatus
  <2>12. CASE HeartbeatStep
    BY <2>12 DEF HeartbeatStep, Refresh
  <2>13. CASE CancelAll
    BY <2>13 DEF CancelAll, Leave, UpdateStatus
  <2>14. CASE MainEndedFirst
    BY <2>14 DEF MainEndedFirst
  <2>15. CASE Signal
    BY <2>15 DEF Signal
  <2>16. CASE SignalWhileDead
    BY <2>16 DEF SignalWhileDead
  <2>17. CASE SessionDies
    BY <2>17 DEF SessionDies
  <2>18. CASE ClockIsSet
    BY <2>18 DEF ClockIsSet
  <2>19. CASE CheckHangs
    BY <2>19 DEF CheckHangs
  <2>20. CASE Tick
    BY <2>20 DEF Tick
  <2>21. CASE UNCHANGED vars
    BY <2>21 DEF vars
  <2> QED BY <2>1, <2>2, <2>3, <2>4, <2>5, <2>6, <2>7, <2>8, <2>9, <2>10, <2>11, <2>12, <2>13, <2>14,
             <2>15, <2>16, <2>17, <2>18, <2>19, <2>20, <2>21 DEF Next, MainStep, Shutdown, Ended
<1> QED BY <1>1, <1>2, TypesInvariant, PTL DEF Spec

\* A daemon that has started ends only on request (EndsOnRequestOnly in Daemon).
THEOREM NeverEndsByItself == Spec => []EndsOnRequestOnly
<1>1. Endings => EndsOnRequestOnly
  BY DEF Endings
<1> QED BY <1>1, EndingsInvariant, PTL

\* Nothing is written to the health file after "stopped" (StoppedIsFinal in Daemon).
THEOREM StoppedStays == Spec => StoppedIsFinal
<1>1. TInv /\ Endings /\ [Next]_vars => [status = "stopped" => status' = "stopped" /\ age' >= age]_vars
  <2> SUFFICES ASSUME TInv, Endings, Next, status = "stopped"
               PROVE  status' = "stopped" /\ age' >= age
    OBVIOUS
  <2>1. main = "ended" /\ hb = Off /\ age \in Int
    BY DaemonAssumption DEF Endings, TInv, TypeOK, Working
  <2>2. age' = age /\ status' = status
    <3>1. ~MainStep
      BY <2>1 DEF MainStep, Validate, ValidateUnauthorized, ValidateFails, StartupDone, CheckOK, CheckFails,
                  CheckTimesOut, CheckUnauthorized, ReportDone, WaitForShutdown, WakeUp
    <3>2. ~HeartbeatStep /\ ~Tick /\ ~CancelAll /\ ~Signal /\ ~SignalWhileDead
      BY <2>1 DEF HeartbeatStep, Tick, CancelAll, Signal, SignalWhileDead, Working
    <3> QED BY <3>1, <3>2 DEF Next, Shutdown, MainEndedFirst, SessionDies, ClockIsSet, CheckHangs, Ended,
                              vars, file
  <2> QED BY <2>1, <2>2
<1> QED BY <1>1, TypesInvariant, EndingsInvariant, PTL DEF Spec, StoppedIsFinal

\* Checks begin in the active hours and are skipped outside of them only
\* (ChecksInHours in Daemon).
THEOREM ChecksKeepHours == Spec => ChecksInHours
<1>1. TInv /\ [Next]_vars => [KeepsHours]_vars
  <2> SUFFICES ASSUME TInv, Next
               PROVE  KeepsHours
    OBVIOUS
  <2>1. IsWithinActiveHours(Windows, now) <=> ActiveNow
    BY GateMeaning DEF TInv, TypeOK
  <2> USE DEF GoTo, KeepsHours, Skipped
  <2>2. CASE StartupDone
    BY <2>1, <2>2 DEF StartupDone, BeginCheck
  <2>3. CASE WakeUp
    BY <2>1, <2>3 DEF WakeUp, BeginCheck, Leave
  <2>4. CASE ReportDone
    BY <2>4 DEF ReportDone, Leave
  <2>5. CASE Validate \/ ValidateUnauthorized \/ ValidateFails \/ CheckOK \/ CheckFails \/ CheckTimesOut
             \/ CheckUnauthorized \/ WaitForShutdown
    BY <2>5 DEF Validate, ValidateUnauthorized, ValidateFails, CheckOK, CheckFails, CheckTimesOut,
                CheckUnauthorized, WaitForShutdown, DeadSession
  <2>6. CASE Tick
    BY <2>6, DaemonAssumption DEF Tick, UpTo, TInv, TypeOK, MaxSpent
  <2>7. CASE CancelAll \/ SignalWhileDead
    BY <2>7 DEF CancelAll, Leave, SignalWhileDead
  <2>8. CASE main' = main /\ spent' = spent
    <3>1. spent \in Int
      BY DaemonAssumption DEF TInv, TypeOK, MaxSpent
    <3> QED BY <2>8, <3>1, DaemonAssumption DEF TInv, TypeOK
  <2>9. CASE HeartbeatStep \/ MainEndedFirst \/ Signal \/ SessionDies \/ ClockIsSet \/ CheckHangs \/ Ended
    BY <2>8, <2>9 DEF HeartbeatStep, MainEndedFirst, Signal, SessionDies, ClockIsSet, CheckHangs, Ended, vars
  <2> QED BY <2>2, <2>3, <2>4, <2>5, <2>6, <2>7, <2>9 DEF Next, MainStep, Shutdown
<1> QED BY <1>1, TypesInvariant, PTL DEF Spec, ChecksInHours

-----------------------------------------------------------------------------
(* No failure is kept quiet. *)

\* The last error is over, or what is left of its throttle and the time t since then
\* are together no more than the throttle and the set-backs of the clock.
Since(t) == quiet["error"] = Over \/ quiet["error"] + t <= Throttle + lag

\* How long the last error keeps the next one quiet, where the main task is.
ErrorsPass ==
  /\ main \in {"validate", "startup"} => quiet["error"] = Over
  /\ main = "check" => Since(Interval)
  /\ main = "report" => Since(0)
  /\ main = "sleep" => Since(spent)
  /\ main = "startup" => notice.level # "error"
  /\ FailuresNotified

\* The numbers in it.
LEMMA QuietIsInt ==
  ASSUME TInv
  PROVE  /\ quiet["error"] \in Int /\ lag \in Nat /\ Throttle \in Nat /\ Over \in Int /\ Over <= 0
         /\ spent \in Nat /\ Interval \in Nat
BY DaemonAssumption, NotificationsAssumption DEF TInv, TypeOK, QuietOK, Levels, Over, MaxSpent

\* Sending a notification of another level does not keep errors quiet.
LEMMA OthersKeepErrors ==
  ASSUME TInv, Sent, notice.level # "error"
  PROVE  quiet'["error"] = quiet["error"] /\ lag' = lag
BY DEF Sent, Notified, TInv, TypeOK, QuietOK, Levels

\* The local clock moves on or is set back: what is left and the set-backs change
\* together.
LEMMA ClockKeepsSince ==
  ASSUME TInv, QuietPasses \/ QuietReturns
  PROVE  /\ quiet["error"] = Over => quiet'["error"] = Over
         /\ lag' >= lag /\ lag' \in Nat
         /\ \A t \in Nat : Since(t) => Since(t)'
         /\ QuietPasses => \A t \in Nat : Since(t) => Since(t + 1)'
<1>0. "error" \in Levels
  BY DEF Levels
<1>1. /\ quiet["error"] \in Int /\ lag \in Nat /\ Throttle \in Nat /\ Over \in Int
  BY QuietIsInt
<1>2. CASE QuietPasses
  <2>1. quiet'["error"] = (IF quiet["error"] > Over THEN quiet["error"] - 1 ELSE Over) /\ lag' = lag
    BY <1>0, <1>2 DEF QuietPasses
  <2>2. quiet["error"] >= Over
    BY <1>0 DEF TInv, TypeOK, QuietOK
  <2> QED BY <1>1, <2>1, <2>2 DEF Since
<1>3. CASE QuietReturns
  <2>1. quiet'["error"] = (IF quiet["error"] > Over THEN quiet["error"] + 1 ELSE Over) /\ lag' = lag + 1
    BY <1>0, <1>3 DEF QuietReturns
  <2>2. quiet["error"] >= Over
    BY <1>0 DEF TInv, TypeOK, QuietOK
  <2>3. quiet["error"] = Over => quiet'["error"] = Over
    BY <1>1, <2>1
  <2>4. \A t \in Nat : Since(t) => Since(t)'
    BY <1>1, <2>1, <2>2 DEF Since
  <2>5. ASSUME QuietPasses PROVE \A t \in Nat : Since(t) => Since(t + 1)'
    <3>1. lag' = lag
      BY <2>5 DEF QuietPasses
    <3> QED BY <1>1, <2>1, <3>1
  <2> QED BY <1>1, <2>1, <2>3, <2>4, <2>5
<1> QED BY <1>2, <1>3

LEMMA MoreLag == \A a, b, t, i \in Nat : b >= a /\ t + a > i => t + b > i
  OBVIOUS

\* ErrorsPass is inductive.
LEMMA ErrorsPassStep ==
  ASSUME TInv, ErrorsPass, [Next]_vars
  PROVE  ErrorsPass'
<1> USE DEF ErrorsPass, FailuresNotified, GoTo
<1>0. "error" \in Levels /\ "success" \in Levels /\ "info" \in Levels
  BY DEF Levels
<1>a. /\ quiet["error"] \in Int /\ lag \in Nat /\ Throttle \in Nat /\ Over \in Int /\ Over <= 0
       /\ spent \in Nat /\ Interval \in Nat
  BY QuietIsInt
<1>1. CASE Validate
  <2>1. notice'.level \in {"info", "none"} /\ quiet' = quiet
    BY <1>0, <1>1, SendsTyped DEF Validate
  <2>2. main = "validate" /\ main' = "startup"
    BY <1>1 DEF Validate
  <2> QED BY <2>1, <2>2
<1>2. CASE StartupDone
  <2>1. main = "startup" /\ main' \in {"check", "sleep"}
    BY <1>2 DEF StartupDone, BeginCheck
  <2>2. quiet'["error"] = quiet["error"]
    BY <1>2, <2>1, OthersKeepErrors DEF StartupDone
  <2> QED BY <2>1, <2>2 DEF Since
<1>3. CASE CheckOK
  <2>1. main = "check" /\ main' = "report" /\ status' = "healthy" /\ quiet' = quiet /\ lag' = lag
    BY <1>0, <1>3, SendsTyped DEF CheckOK, UpdateStatus
  <2> QED BY <1>a, <2>1 DEF Since
<1>4. CASE CheckFails
  <2>1. main = "check" /\ main' = "report"
    BY <1>4 DEF CheckFails
  <2>2. /\ ShouldNotify("error") => notice'.level = "error"
        /\ quiet' = quiet /\ lag' = lag
    BY <1>0, <1>4, SendsTyped DEF CheckFails
  <2>3. ~ShouldNotify("error") => Throttle + lag > Interval
    BY <1>a, <2>1 DEF ShouldNotify, Since
  <2>4. Since(0)'
    BY <1>a, <2>1, <2>2 DEF Since
  <2> QED BY <2>1, <2>2, <2>3, <2>4
<1>5. CASE CheckTimesOut
  <2>1. main = "check" /\ main' = "report"
    BY <1>5 DEF CheckTimesOut
  <2>2. notice'.level = "error" /\ quiet' = quiet /\ lag' = lag
    BY <1>0, <1>5, SendsTyped DEF CheckTimesOut
  <2>3. Since(0)'
    BY <1>a, <2>1, <2>2 DEF Since
  <2> QED BY <2>1, <2>2, <2>3
<1>6. CASE ReportDone
  <2>1. main = "report" /\ main' \in {"sleep", "ended"} /\ (main' = "sleep" => spent' = 0)
    BY <1>6 DEF ReportDone, Leave
  <2>2. Since(0)'
    <3>1. CASE notice.ok /\ notice.level = "error"
      <4>1. quiet' = [quiet EXCEPT !["error"] = Throttle] /\ lag' = 0
        BY <1>6, <3>1 DEF ReportDone, Sent, Notified
      <4>2. quiet'["error"] = Throttle
        BY <1>0, <4>1 DEF TInv, TypeOK, QuietOK
      <4> QED BY <1>a, <4>1, <4>2 DEF Since
    <3>2. CASE ~notice.ok
      BY <1>6, <2>1, <3>2 DEF ReportDone, Sent, Notified, Since
    <3>3. CASE notice.level # "error"
      BY <1>6, <2>1, <3>3, OthersKeepErrors DEF ReportDone, Since
    <3> QED BY <3>1, <3>2, <3>3
  <2> QED BY <2>1, <2>2 DEF Since
<1>7. CASE WakeUp
  <2>1. main = "sleep" /\ quiet' = quiet /\ lag' = lag
    BY <1>7 DEF WakeUp, reporting
  <2>2. CASE stop
    BY <1>7, <2>2 DEF WakeUp, Leave
  <2>3. CASE ~stop
    <3>1. Since(Interval)
      BY <1>7, <2>1, <2>3 DEF WakeUp
    <3>2. main' \in {"check", "sleep"} /\ spent' = 0
      BY <1>7, <2>3 DEF WakeUp, BeginCheck
    <3> QED BY <1>a, <2>1, <3>1, <3>2 DEF Since
  <2> QED BY <2>2, <2>3
<1>8. CASE ValidateUnauthorized \/ ValidateFails \/ CheckUnauthorized \/ WaitForShutdown \/ CancelAll
           \/ SignalWhileDead
  BY <1>8 DEF ValidateUnauthorized, ValidateFails, CheckUnauthorized, WaitForShutdown, CancelAll,
              SignalWhileDead, DeadSession, Leave
<1>9. CASE Tick
  <2>1. QuietPasses
    BY <1>9 DEF Tick
  <2>2. quiet["error"] = Over => quiet'["error"] = Over
    BY <2>1, ClockKeepsSince
  <2>3. \A t \in Nat : Since(t) => Since(t)'
    BY <2>1, ClockKeepsSince
  <2>4. \A t \in Nat : Since(t) => Since(t + 1)'
    BY <2>1, ClockKeepsSince
  <2>5. lag' = lag
    BY <2>1 DEF QuietPasses
  <2>6. main' = main /\ notice' = notice /\ status' = status
    BY <1>9 DEF Tick
  <2>7. main = "sleep" => spent' = spent + 1
    BY <1>9, DaemonAssumption DEF Tick, UpTo, TInv, TypeOK, MaxSpent
  <2>8. main = "sleep" => Since(spent)'
    <3>1. ASSUME main = "sleep", quiet["error"] + spent <= Throttle + lag
          PROVE  quiet'["error"] = Over' \/ quiet'["error"] + (spent + 1) <= Throttle + lag'
      BY <1>a, <2>4, <3>1 DEF Since
    <3> QED BY <1>a, <2>2, <2>7, <3>1 DEF Since, Over
  <2>9. (main = "check" => Since(Interval)') /\ (main = "report" => Since(0)')
    BY <1>a, <2>3
  <2>10. FailuresNotified'
    BY <2>5, <2>6
  <2> QED BY <2>2, <2>6, <2>8, <2>9, <2>10
<1>10. CASE ClockIsSet
  <2>1. main' = main /\ spent' = spent /\ status' = status /\ notice' = notice
    BY <1>10 DEF ClockIsSet, file
  <2>2. QuietPasses \/ QuietReturns
    BY <1>10 DEF ClockIsSet
  <2>3. quiet["error"] = Over => quiet'["error"] = Over
    BY <2>2, ClockKeepsSince
  <2>4. \A t \in Nat : Since(t) => Since(t)'
    BY <2>2, ClockKeepsSince
  <2>5. lag' >= lag /\ lag' \in Nat
    BY <2>2, ClockKeepsSince
  <2>6. (main = "check" => Since(Interval)') /\ (main = "report" => Since(0)')
    BY <1>a, <2>4
  <2>7. main = "sleep" => Since(spent)'
    <3>1. ASSUME main = "sleep", quiet["error"] + spent <= Throttle + lag
          PROVE  quiet'["error"] = Over' \/ quiet'["error"] + spent <= Throttle + lag'
      BY <1>a, <2>4, <3>1 DEF Since
    <3> QED BY <1>a, <2>1, <2>3, <3>1 DEF Since, Over
  <2>8. FailuresNotified'
    <3>1. ASSUME Throttle + lag > Interval PROVE Throttle + lag' > Interval
      BY <1>a, <2>5, <3>1, MoreLag
    <3> QED BY <2>1, <3>1
  <2> QED BY <2>1, <2>3, <2>6, <2>7, <2>8
<1>11. CASE HeartbeatStep \/ MainEndedFirst \/ Signal \/ SessionDies \/ CheckHangs \/ Ended
            \/ UNCHANGED vars
  <2>1. /\ main' = main /\ spent' = spent /\ status' = status /\ notice' = notice
        /\ quiet' = quiet /\ lag' = lag
    BY <1>11 DEF HeartbeatStep, Refresh, MainEndedFirst, Signal, SessionDies, CheckHangs, Ended,
                 vars, file, reporting
  <2> QED BY <2>1 DEF Since
<1> QED BY <1>1, <1>2, <1>3, <1>4, <1>5, <1>6, <1>7, <1>8, <1>9, <1>10, <1>11 DEF Next, MainStep, Shutdown

\* A failed check is kept quiet only by a throttle that, with the set-backs of the
\* clock, is longer than the interval (FailuresNotified in Daemon).
THEOREM NoFailureKeptQuiet == Spec => []FailuresNotified
<1>1. Init => ErrorsPass
  BY DEF Init, NeverNotified, ErrorsPass, FailuresNotified, Levels, NoNotice
<1>2. TInv /\ ErrorsPass /\ [Next]_vars => ErrorsPass'
  BY ErrorsPassStep
<1>3. ErrorsPass => FailuresNotified
  BY DEF ErrorsPass
<1> QED BY <1>1, <1>2, <1>3, TypesInvariant, PTL DEF Spec

-----------------------------------------------------------------------------
(* The probe and a daemon that works. *)

\* The ages of a daemon that nobody has told to stop: the timestamp is as old as
\* the wait for the notifications, or the heartbeat's.
Fresh ==
  ~stop =>
    /\ main \in {"startup", "report"} => age <= spent
    /\ main \in {"check", "report", "sleep"} => hb # Off
    /\ main \in {"check", "sleep"} => age <= NotifyTime + hb /\ age <= NotifyTime + Heartbeat

\* And the progress is as old as the last report, sleep and check together.
Progressing ==
  (~stop /\ ~hung /\ status \in {"healthy", "starting"}) =>
    /\ main \in {"startup", "report"} => progress <= spent
    /\ main = "sleep" => progress <= NotifyTime + spent
    /\ main = "check" => progress <= NotifyTime + Interval + spent

\* The ranges of the times.
LEMMA TimesAreInt ==
  ASSUME TInv
  PROVE  /\ spent \in Int /\ age \in Int /\ progress \in Int /\ hb \in Int
         /\ spent >= 0 /\ age >= 0 /\ progress >= 0
         /\ Interval \in Int /\ Timeout \in Int /\ Heartbeat \in Int /\ NotifyTime \in Int
         /\ Interval > 0 /\ Timeout > 0 /\ Heartbeat > 0 /\ NotifyTime >= 0
         /\ main \in {"startup", "report", "dead"} => spent <= NotifyTime
         /\ main = "check" => hb <= Heartbeat
         /\ main = "sleep" => spent <= Interval
         /\ main = "check" /\ ~hung => spent <= Timeout
BY DaemonAssumption DEF TInv, TypeOK, InTime, MaxSpent, MaxCheckAge, Off

\* The same after a step.
LEMMA NextTimesAreInt ==
  ASSUME TInv, [Next]_vars
  PROVE  spent' \in Int /\ age' \in Int /\ progress' \in Int /\ hb' \in Int /\ spent' >= 0 /\ hb' >= Off
BY StepTyped, DaemonAssumption DEF TInv, TypeOK, MaxSpent, MaxCheckAge, Off

\* One tick makes every age that is measured here one larger at most.
LEMMA TickAges ==
  ASSUME TInv, Tick
  PROVE  /\ main' = main /\ stop' = stop /\ hung' = hung /\ status' = status
         /\ age' <= age + 1 /\ progress' <= progress + 1
         /\ hb' = IF hb = Off THEN Off ELSE hb + 1
         /\ main \in {"startup", "report", "sleep"} => spent' = spent + 1
         /\ main = "check" /\ ~hung => spent' = spent + 1
         /\ main \in {"check", "sleep"} => hb < Heartbeat
<1>1. age' <= age + 1 /\ progress' <= progress + 1
  BY TimesAreInt DEF Tick, UpTo
<1>2. main \in {"startup", "report"} => spent < MaxSpent
  BY TimesAreInt, DaemonAssumption DEF Tick, TInv, TypeOK, MaxSpent
<1>3. main = "sleep" \/ (main = "check" /\ ~hung) => spent < MaxSpent
  BY TimesAreInt DEF Tick, MaxSpent
<1> QED BY <1>1, <1>2, <1>3 DEF Tick, UpTo

\* Fresh is inductive.
LEMMA FreshStep ==
  ASSUME TInv, Fresh, [Next]_vars
  PROVE  Fresh'
<1> USE DEF Fresh, GoTo
<1>0. spent' \in Int /\ age' \in Int /\ hb' \in Int
  BY NextTimesAreInt
<1>1. CASE Validate
  BY <1>1, TimesAreInt DEF Validate
<1>2. CASE ValidateUnauthorized \/ ValidateFails \/ CheckUnauthorized \/ WaitForShutdown \/ CancelAll
           \/ SignalWhileDead \/ Signal
  BY <1>2 DEF ValidateUnauthorized, ValidateFails, CheckUnauthorized, WaitForShutdown, CancelAll,
              SignalWhileDead, Signal, DeadSession, Leave
<1>3. CASE StartupDone
  <2>1. main = "startup" /\ main' \in {"check", "sleep"} /\ hb' = 0 /\ stop' = stop
    BY <1>3 DEF StartupDone, BeginCheck
  <2>2. age' = age \/ age' = 0
    BY <1>3 DEF StartupDone, BeginCheck, UpdateStatus, file
  <2>3. ~stop => age <= NotifyTime
    BY <2>1, TimesAreInt
  <2>4. ~stop => age' <= NotifyTime
    BY <2>2, <2>3, TimesAreInt
  <2>5. ~stop' => age' <= NotifyTime + hb' /\ age' <= NotifyTime + Heartbeat
    BY <1>0, <2>1, <2>4, TimesAreInt
  <2>6. hb' # Off
    BY <2>1 DEF Off
  <2> QED BY <2>1, <2>5, <2>6
<1>4. CASE CheckOK \/ CheckFails \/ CheckTimesOut
  <2>1. main = "check" /\ main' = "report" /\ hb' = hb /\ stop' = stop /\ age' = 0 /\ spent' = 0
    BY <1>4 DEF CheckOK, CheckFails, CheckTimesOut, UpdateStatus
  <2> QED BY <2>1
<1>5. CASE ReportDone
  <2>1. CASE stop
    BY <1>5, <2>1 DEF ReportDone
  <2>2. CASE ~stop
    <3>1. main = "report" /\ main' = "sleep" /\ hb' = hb /\ age' = age /\ stop' = stop
      BY <1>5, <2>2 DEF ReportDone, file
    <3>2. age <= NotifyTime /\ hb # Off
      BY <2>2, <3>1, TimesAreInt
    <3>3. hb >= 0
      BY <3>2 DEF TInv, TypeOK
    <3> QED BY <3>1, <3>2, <3>3, TimesAreInt
  <2> QED BY <2>1, <2>2
<1>6. CASE WakeUp
  <2>1. CASE stop
    BY <1>6, <2>1 DEF WakeUp
  <2>2. CASE ~stop
    <3>1. main = "sleep" /\ main' \in {"check", "sleep"} /\ hb' = hb /\ stop' = stop
      BY <1>6, <2>2 DEF WakeUp, BeginCheck
    <3>2. age' = age \/ age' = 0
      BY <1>6, <2>2 DEF WakeUp, BeginCheck, UpdateStatus, file
    <3>3. hb # Off /\ hb >= 0 /\ age <= NotifyTime + hb /\ age <= NotifyTime + Heartbeat
      BY <2>2, <3>1 DEF TInv, TypeOK
    <3>4. age' <= NotifyTime + hb /\ age' <= NotifyTime + Heartbeat
      BY <3>2, <3>3, TimesAreInt
    <3> QED BY <3>1, <3>3, <3>4
  <2> QED BY <2>1, <2>2
<1>7. CASE HeartbeatStep
  <2>1. CASE stop
    BY <1>7, <2>1 DEF HeartbeatStep
  <2>2. CASE ~stop
    BY <1>7, <2>2, TimesAreInt DEF HeartbeatStep, Refresh, Off
  <2> QED BY <2>1, <2>2
<1>8. CASE Tick
  <2>1. main \in {"startup", "report"} /\ ~stop => age' <= spent'
    <3> SUFFICES ASSUME main \in {"startup", "report"}, ~stop PROVE age' <= spent'
      OBVIOUS
    <3>1. age' <= age + 1 /\ spent' = spent + 1 /\ age <= spent
      BY <1>8, TickAges
    <3> QED BY <1>0, <3>1, TimesAreInt
  <2>2. main \in {"check", "report", "sleep"} /\ ~stop => hb' # Off
    <3> SUFFICES ASSUME main \in {"check", "report", "sleep"}, ~stop PROVE hb' # Off
      OBVIOUS
    <3>1. hb # Off /\ hb' = hb + 1
      BY <1>8, TickAges
    <3>2. hb >= 0
      BY <3>1 DEF TInv, TypeOK
    <3> QED BY <3>1, <3>2, TimesAreInt DEF Off
  <2>3. main \in {"check", "sleep"} /\ ~stop => age' <= NotifyTime + hb' /\ age' <= NotifyTime + Heartbeat
    <3> SUFFICES ASSUME main \in {"check", "sleep"}, ~stop
                 PROVE  age' <= NotifyTime + hb' /\ age' <= NotifyTime + Heartbeat
      OBVIOUS
    <3>1. hb' = hb + 1 /\ hb < Heartbeat /\ age' <= age + 1 /\ age <= NotifyTime + hb
      BY <1>8, TickAges
    <3> QED BY <1>0, <3>1, TimesAreInt
  <2> QED BY <1>8, <2>1, <2>2, <2>3, TickAges
<1>9. CASE MainEndedFirst \/ SessionDies \/ ClockIsSet \/ CheckHangs \/ Ended \/ UNCHANGED vars
  <2>1. main' = main /\ spent' = spent /\ hb' = hb /\ stop' = stop /\ age' = age
    BY <1>9 DEF MainEndedFirst, SessionDies, ClockIsSet, CheckHangs, Ended, vars, file
  <2> QED BY <2>1
<1> QED BY <1>1, <1>2, <1>3, <1>4, <1>5, <1>6, <1>7, <1>8, <1>9 DEF Next, MainStep, Shutdown

\* Progressing is inductive.
LEMMA ProgressStep ==
  ASSUME TInv, Progressing, [Next]_vars
  PROVE  Progressing'
<1> USE DEF Progressing, GoTo
<1>1. CASE Validate
  BY <1>1, TimesAreInt DEF Validate
<1>2. CASE ValidateUnauthorized \/ ValidateFails \/ CheckUnauthorized \/ WaitForShutdown \/ CancelAll
           \/ SignalWhileDead \/ Signal \/ CheckHangs
  BY <1>2 DEF ValidateUnauthorized, ValidateFails, CheckUnauthorized, WaitForShutdown, CancelAll,
              SignalWhileDead, Signal, CheckHangs, DeadSession, Leave
<1>3. CASE StartupDone
  <2>1. main = "startup" /\ main' \in {"check", "sleep"} /\ spent' = 0 /\ stop' = stop /\ hung' = hung
    BY <1>3 DEF StartupDone, BeginCheck
  <2>2. (status' = status /\ progress' = progress) \/ progress' = 0
    BY <1>3 DEF StartupDone, BeginCheck, UpdateStatus, file
  <2>3. (~stop /\ ~hung /\ status' \in {"healthy", "starting"}) => progress' <= NotifyTime
    BY <2>1, <2>2, TimesAreInt
  <2>4. progress' \in Int
    BY <2>2, TimesAreInt
  <2> QED BY <2>1, <2>3, <2>4, TimesAreInt
<1>4. CASE CheckOK \/ CheckFails \/ CheckTimesOut
  <2>1. main' = "report" /\ spent' = 0 /\ (status' = "error" \/ progress' = 0)
    BY <1>4 DEF CheckOK, CheckFails, CheckTimesOut, UpdateStatus
  <2> QED BY <2>1
<1>5. CASE ReportDone
  <2>1. CASE stop
    BY <1>5, <2>1 DEF ReportDone
  <2>2. CASE ~stop
    <3>1. /\ main = "report" /\ main' = "sleep" /\ spent' = 0
          /\ stop' = stop /\ hung' = hung /\ status' = status /\ progress' = progress
      BY <1>5, <2>2 DEF ReportDone, file
    <3>2. (~hung /\ status \in {"healthy", "starting"}) => progress <= NotifyTime
      BY <2>2, <3>1, TimesAreInt
    <3> QED BY <3>1, <3>2, TimesAreInt
  <2> QED BY <2>1, <2>2
<1>6. CASE WakeUp
  <2>1. CASE stop
    BY <1>6, <2>1 DEF WakeUp
  <2>2. CASE ~stop
    <3>1. /\ main = "sleep" /\ main' \in {"check", "sleep"} /\ spent' = 0 /\ spent = Interval
          /\ stop' = stop /\ hung' = hung
      BY <1>6, <2>2 DEF WakeUp, BeginCheck
    <3>2. \/ main' = "check" /\ status' = status /\ progress' = progress
          \/ main' = "sleep" /\ progress' = 0
      BY <1>6, <2>2 DEF WakeUp, BeginCheck, UpdateStatus, file
    <3>3. (~hung /\ status \in {"healthy", "starting"}) => progress <= NotifyTime + Interval
      BY <2>2, <3>1
    <3> QED BY <3>1, <3>2, <3>3, TimesAreInt
  <2> QED BY <2>1, <2>2
<1>7. CASE Tick
  <2>0. progress' <= progress + 1 /\ progress' \in Int /\ spent' \in Int
    BY <1>7, TickAges, NextTimesAreInt
  <2>1. main \in {"startup", "report"} => spent' = spent + 1
    BY <1>7, TickAges
  <2>2. main = "sleep" => spent' = spent + 1
    BY <1>7, TickAges
  <2>3. main = "check" /\ ~hung => spent' = spent + 1
    BY <1>7, TickAges
  <2> SUFFICES ASSUME ~stop, ~hung, status \in {"healthy", "starting"}
               PROVE  /\ main \in {"startup", "report"} => progress' <= spent'
                      /\ main = "sleep" => progress' <= NotifyTime + spent'
                      /\ main = "check" => progress' <= NotifyTime + Interval + spent'
    BY <1>7, TickAges
  <2>4. main \in {"startup", "report"} => progress' <= spent'
    BY <2>0, <2>1, TimesAreInt
  <2>5. main = "sleep" => progress' <= NotifyTime + spent'
    BY <2>0, <2>2, TimesAreInt
  <2>6. main = "check" => progress' <= NotifyTime + Interval + spent'
    BY <2>0, <2>3, TimesAreInt
  <2> QED BY <2>4, <2>5, <2>6
<1>8. CASE HeartbeatStep \/ MainEndedFirst \/ SessionDies \/ ClockIsSet \/ Ended \/ UNCHANGED vars
  <2>1. /\ main' = main /\ spent' = spent /\ hung' = hung /\ stop' = stop
        /\ status' = status /\ progress' = progress
    BY <1>8 DEF HeartbeatStep, Refresh, MainEndedFirst, SessionDies, ClockIsSet, Ended, vars, file
  <2> QED BY <2>1
<1> QED BY <1>1, <1>2, <1>3, <1>4, <1>5, <1>6, <1>7, <1>8 DEF Next, MainStep, Shutdown

\* The probe never fails a daemon that works, if the notifications take no longer
\* than a heartbeat and the probe allows for both (NoFalseAlarm in Daemon).
THEOREM ProbeIsRight ==
  ASSUME NotifyTime <= Heartbeat, Heartbeat + NotifyTime <= MaxAge
  PROVE  Spec => []NoFalseAlarm
<1>1. Init => Fresh /\ Progressing
  BY DEF Init, Fresh, Progressing
<1>2. TInv /\ (Fresh /\ Progressing) /\ [Next]_vars => (Fresh /\ Progressing)'
  BY FreshStep, ProgressStep
<1>3. TInv /\ Fresh /\ Progressing => NoFalseAlarm
  <2> SUFFICES ASSUME TInv, Fresh, Progressing,
                      main \in Working, status \in {"healthy", "starting"}, ~hung, ~stop
               PROVE  ProbeOK
    BY DEF NoFalseAlarm
  <2>1. age <= MaxAge
    <3>1. CASE main \in {"startup", "report"}
      BY <3>1, TimesAreInt, DaemonAssumption DEF Fresh
    <3>2. CASE main \in {"check", "sleep"}
      BY <3>2, TimesAreInt, DaemonAssumption DEF Fresh
    <3> QED BY <3>1, <3>2 DEF Working
  <2>2. progress <= MaxCheckAge
    <3>1. CASE main \in {"startup", "report"}
      BY <3>1, TimesAreInt DEF Progressing, MaxCheckAge
    <3>2. CASE main = "sleep"
      <4>1. spent <= Interval
        BY <3>2, TimesAreInt
      <4> QED BY <3>2, <4>1, TimesAreInt DEF Progressing, MaxCheckAge
    <3>3. CASE main = "check"
      <4>1. spent <= Timeout
        BY <3>3, TimesAreInt
      <4> QED BY <3>3, <4>1, TimesAreInt DEF Progressing, MaxCheckAge
    <3> QED BY <3>1, <3>2, <3>3 DEF Working
  <2> QED BY <2>1, <2>2 DEF ProbeOK
<1> QED BY <1>1, <1>2, <1>3, TypesInvariant, PTL DEF Spec
=============================================================================
