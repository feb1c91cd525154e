------------------------------ MODULE DeviceTimer ------------------------------
(***************************************************************************)
(* app/user/user_esp_platform_timer.c: the timers the cloud sets for the   *)
(* plug.  Only the earliest of them is armed, in steps of an hour because  *)
(* os_timer_arm takes no more; when it fires the waits are worked out      *)
(* again from a clock that is the server's timestamp plus the waits so far.*)
(*                                                                         *)
(* The parameter the armed timer keeps (struct wait_param) is a local      *)
(* variable of esp_platform_timer_action, which has returned: what the     *)
(* timer finds there may be anything (Clobber).                            *)
(***************************************************************************)
EXTENDS Integers, Sequences, FiniteSetsExt

CONSTANTS
  Lists,     \* the timer lists the server sends
  Hour,      \* 3600 s
  Week,      \* 7 * 24 * 3600 s
  Monday,    \* 1388937600, the Monday the weeks are counted from
  BigWait,   \* 0xFFFFFFF
  MaxTime    \* bound: the time looked at

\* A timer fires at a time ("f"), every at seconds ("l") or at a time of the week
\* ("w"); its action is one device_action knows, or not.
Timers == [kind : {"f", "l", "w"}, at : Nat \ {0}, known : BOOLEAN]

ASSUME DeviceTimerOK ==
  /\ Lists \subseteq Seq(Timers)
  /\ \A l \in Lists : \A i \in DOMAIN l : l[i].kind = "w" => l[i].at <= Week   \* seconds of a week
  /\ {Hour, Week, BigWait, MaxTime} \subseteq Nat \ {0}
  /\ Monday \in Nat /\ BigWait > MaxTime

VARIABLES
  now,        \* the time, in seconds since Monday
  list,       \* timer_splits
  timestamp,  \* the clock of the module
  minWait,    \* min_wait_second
  armed,      \* device_timer: which callback it calls and when
  frame,      \* the struct wait_param it was given
  since,      \* ghost: when the waits were last worked out
  lost,       \* ghost: has the frame been overwritten since the list it is for came?
  stale       \* ghost: is a timer of an earlier list still armed?

timerVars == <<now, list, timestamp, minWait, armed, frame, since, lost, stale>>

Off == [call |-> "none", at |-> 0]
NoFrame == [due |-> {}, known |-> TRUE, count |-> 0, backup |-> 0]

TimerInit ==
  /\ now = Monday /\ list = <<>> /\ timestamp = 0 /\ minWait = 0
  /\ armed = Off /\ frame = NoFrame /\ since = Monday
  /\ lost = FALSE /\ stale = FALSE

----------------------------------------------------------------------------
\* Mutant of Wait: a weekly timer of earlier in the week waits for less than a week.
WaitWeekless(t, ts) ==
  CASE t.kind = "f" -> t.at - ts
    [] t.kind = "l" -> t.at - (ts % t.at)
    [] t.kind = "w" -> Week - ((ts - Monday) % Week)

\* user_platform_timer_first_start: the wait of one timer at clock ts.
Wait(t, ts) ==
  CASE t.kind = "f" -> t.at - ts
    [] t.kind = "l" -> t.at - (ts % t.at)
    [] t.kind = "w" -> LET monday == (ts - Monday) % Week
                       IN  IF t.at > monday THEN t.at - monday ELSE Week - monday + t.at

\* esp_platform_find_min_time: timers whose time has passed (a wait below 0) are left out.
MinTime(n, ts) ==
  Min({BigWait} \cup {Wait(list'[i], ts) : i \in {j \in 1 .. n : Wait(list'[j], ts) >= 0}})

\* user_esp_platform_wait_time_overflow_check.
OverflowCheck(f) ==
  /\ armed' = IF f.backup >= Hour THEN [call |-> "check", at |-> now + Hour]
              ELSE [call |-> "act", at |-> now + f.backup]
  /\ frame' = [f EXCEPT !.backup = @ - Hour]

\* esp_platform_timer_action: the timers with the least wait, and how long that is.
FrameFor(n, ts) ==
  LET due == {i \in 1 .. n : Wait(list'[i], ts) = minWait'}
  IN  [due |-> due, known |-> \A i \in due : list'[i].known, count |-> n, backup |-> minWait']

\* user_platform_timer_first_start: the clock moves on, the waits are worked out and
\* the earliest is armed; if it is 0, device_timer is left as it is.
FirstStart(n, ts, before) ==
  /\ timestamp' = ts
  /\ minWait' = MinTime(n, ts)
  /\ since' = now
  /\ IF minWait' = 0 THEN armed' = before /\ UNCHANGED frame
     ELSE OverflowCheck(FrameFor(n, ts))

\* user_platform_timer_start: the server's time and its list replace the old ones; an
\* empty list disarms the timer.
TimersMsg(new) ==
  /\ list' = new
  /\ IF new = <<>>
     THEN /\ armed' = Off /\ timestamp' = now /\ minWait' = 0 /\ since' = now /\ stale' = FALSE
          /\ UNCHANGED frame
     ELSE /\ FirstStart(Len(new), now, armed)
          /\ stale' = (minWait' = 0 /\ armed # Off)
  /\ lost' = (stale' /\ lost)
  /\ UNCHANGED now

\* user_platform_timer_start, when the message names timers and holds no list of them: the
\* old list is gone, with or without a new time, and the timer armed for it is left alone.
TimersMsgNoList ==
  /\ list' = <<>> /\ minWait' = 0 /\ timestamp' \in {timestamp, now} /\ since' = now
  /\ stale' = (armed # Off)
  /\ UNCHANGED <<now, armed, frame, lost>>

\* An access through an entry timer_splits does not have: the module restarts.
Crash ==
  /\ list' = <<>> /\ timestamp' = 0 /\ minWait' = 0 /\ armed' = Off /\ frame' = NoFrame
  /\ since' = now /\ lost' = FALSE /\ stale' = FALSE
  /\ UNCHANGED now

\* user_esp_platform_device_action with a frame that says n timers.
Restarted(n) ==
  \/ n > Len(list) /\ Crash
  \/ /\ n <= Len(list) /\ UNCHANGED list
     /\ FirstStart(n, timestamp + minWait, Off)
     /\ UNCHANGED <<now, lost, stale>>

\* An action it does not know makes it return, and no timer is armed any more.
GivesUp == armed' = Off /\ UNCHANGED <<now, list, timestamp, minWait, frame, since, lost, stale>>

DeviceAction ==
  /\ armed = [call |-> "act", at |-> now]
  /\ IF lost THEN GivesUp \/ (\E n \in 0 .. Len(list) + 1 : Restarted(n))
     ELSE IF frame.known THEN Restarted(frame.count) ELSE GivesUp

\* device_timer calls user_esp_platform_wait_time_overflow_check.
CheckAgain ==
  /\ armed = [call |-> "check", at |-> now]
  /\ IF lost THEN \E b \in {0, 1, Hour} : OverflowCheck([frame EXCEPT !.backup = b])
     ELSE OverflowCheck(frame)
  /\ UNCHANGED <<now, list, timestamp, minWait, since, lost, stale>>

\* The stack of esp_platform_timer_action is used by somebody else.
Clobber ==
  /\ armed # Off /\ ~lost /\ lost' = TRUE
  /\ UNCHANGED <<now, list, timestamp, minWait, armed, frame, since, stale>>

\* Time goes on, up to the moment the armed timer fires.
Tick ==
  /\ now < Monday + MaxTime
  /\ armed = Off \/ armed.at > now
  /\ now' = now + 1
  /\ UNCHANGED <<list, timestamp, minWait, armed, frame, since, lost, stale>>

TimerNext ==
  \/ (\E new \in Lists : TimersMsg(new)) \/ TimersMsgNoList
  \/ DeviceAction \/ CheckAgain \/ Clobber \/ Tick

TimerSpec == TimerInit /\ [][TimerNext]_timerVars

----------------------------------------------------------------------------
\* When a timer is meant to fire, told without waits and clocks.
DueAt(t, s) ==
  CASE t.kind = "f" -> s = t.at
    [] t.kind = "l" -> s % t.at = 0
    [] t.kind = "w" -> (s - Monday) % Week = t.at % Week

\* When the action of the armed timer will run.
Deadline == IF armed.call = "act" THEN armed.at ELSE armed.at + frame.backup

\* The action runs at the first moment at which a timer of the list is due, whatever
\* number of hour-long steps leads there, and it is the action of the timers due then.
EarliestArmed ==
  /\ Deadline = timestamp + minWait
  /\ frame.due = {i \in DOMAIN list : DueAt(list[i], Deadline)}
  /\ \A i \in DOMAIN list, s \in since + 1 .. Deadline - 1 : ~DueAt(list[i], s)

\* Nothing stops such a list.
Periodic == list # <<>> /\ \A i \in DOMAIN list : list[i].kind # "f" /\ list[i].known

(* user_platform_timer_first_start, user_esp_platform_device_action: as long   *)
(* as the frame of the armed timer survives, no timer is early, late or        *)
(* missed, and periodic timers go on for ever.  What stops them is a timer for *)
(* a fixed time in the list (when it has fired it is due "in 0 seconds"), an   *)
(* action the plug does not know, or a lost frame.                            *)
TimersOnTime ==
  ~lost /\ ~stale =>
    /\ armed # Off /\ minWait # BigWait => EarliestArmed
    /\ Periodic => armed # Off /\ Deadline >= now
=============================================================================
