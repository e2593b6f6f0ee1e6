---------------------------- MODULE Notifications ----------------------------
(***************************************************************************)
(* Notifications (src/notifications/): the throttle of NotificationManager *)
(* and how long the channels take.  A last_notification is kept as the     *)
(* time for which its level has to keep quiet, by the local clock, which   *)
(* may be set.  What a receiver answers, and when, is up to it.            *)
(***************************************************************************)
EXTENDS Integers

CONSTANTS
  Throttle,    \* throttle_seconds
  Channels,    \* the configured notifiers: "discord", "webhook"
  PostTime,    \* bound: the time one request may take
  MaxRetries,  \* max_retries of the webhook
  BaseDelay,   \* base_delay of the webhook
  MaxBack      \* bound: how far the clock is set back after a notification

ASSUME NotificationsAssumption ==
  /\ Throttle \in Nat
  /\ Channels \subseteq {"discord", "webhook"}
  /\ PostTime \in Nat
  /\ MaxRetries \in Nat \ {0}
  /\ BaseDelay \in Nat
  /\ MaxBack \in Nat

VARIABLES
  quiet,  \* quiet[l]: the local time until level l may be notified again, negative after it
  lag     \* ghost: how far the clock was set back since the last error notification

Levels == {"info", "success", "error"}

\* Never notified, or so long ago that no set-back (MaxBack) can make it quiet again.
Over == -MaxBack

QuietOK == quiet \in [Levels -> Over..Throttle + MaxBack] /\ lag \in 0..MaxBack

NeverNotified == quiet = [l \in Levels |-> Over] /\ lag = 0

-----------------------------------------------------------------------------
(* A notification on its way: what becomes of it, and when. *)

\* One request; its answer is a success, or final, or worth another attempt.
Posts(ok) == {[ok |-> ok, time |-> t] : t \in 0..PostTime}

Then(first, pause, rest) ==
  {[ok |-> r.ok, time |-> p.time + pause + r.time] : p \in first, r \in rest}

\* The attempts of the webhook from the one with number a on.  A server error or
\* a network error is followed by a pause and the next attempt.
WebhookFrom[a \in 0..MaxRetries] ==
  IF a = MaxRetries THEN {[ok |-> FALSE, time |-> 0]}
  ELSE LET pause == IF a < MaxRetries - 1 THEN BaseDelay * 2 ^ a ELSE 0
       IN Posts(TRUE) \cup Posts(FALSE) \cup Then(Posts(FALSE), pause, WebhookFrom[a + 1])

\* A channel that is not configured.
Silence == {[ok |-> FALSE, time |-> 0]}

Discord == IF "discord" \in Channels THEN Posts(TRUE) \cup Posts(FALSE) ELSE Silence
Webhook == IF "webhook" \in Channels THEN WebhookFrom[0] ELSE Silence

\* All channels, one after the other: they block the event loop that gathers them.
Delivery == {[ok |-> d.ok \/ w.ok, time |-> d.time + w.time] : d \in Discord, w \in Webhook}

NoNotice == [level |-> "none", ok |-> FALSE, time |-> 0]

-----------------------------------------------------------------------------
(* The throttle. *)

\* Mutant: one throttle for all levels.
ShouldNotifyAny(level) == \A l \in Levels : quiet[l] <= 0

\* _should_notify
ShouldNotify(level) == quiet[level] <= 0

\* What notify will do: a forced notification passes the throttle.
Notices(level, force) ==
  IF force \/ ShouldNotify(level)
    THEN {[level |-> level, ok |-> d.ok, time |-> d.time] : d \in Delivery}
    ELSE {NoNotice}

\* All channels have been tried: one success starts the level's quiet time.
Notified(notice) ==
  /\ quiet' = IF notice.ok THEN [quiet EXCEPT ![notice.level] = Throttle] ELSE quiet
  /\ lag' = IF notice.ok /\ notice.level = "error" THEN 0 ELSE lag

\* The local clock moves on: time passes, or the clock is set forward.
QuietPasses ==
  /\ quiet' = [l \in Levels |-> IF quiet[l] > Over THEN quiet[l] - 1 ELSE Over]
  /\ UNCHANGED lag

\* The local clock is set back, and the quiet times grow by as much.
QuietReturns ==
  /\ lag < MaxBack
  /\ \A l \in Levels : quiet[l] < Throttle + MaxBack
  /\ quiet' = [l \in Levels |-> IF quiet[l] > Over THEN quiet[l] + 1 ELSE Over]
  /\ lag' = lag + 1
=============================================================================
