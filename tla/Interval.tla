------------------------------ MODULE Interval -------------------------------
(***************************************************************************)
(* The rotation timer: time_to_next_round_interval of time_utils.c and     *)
(* install_interval_rotate_handlers of sig.c.  clock counts microseconds,  *)
(* and a second, a millisecond and a day have as many of their parts as    *)
(* the constants say.  setitimer and its alarms are external.              *)
(***************************************************************************)
EXTENDS Integers

CONSTANTS
  Micros,       \* microseconds in a millisecond (1000)
  Millis,       \* milliseconds in a second (1000)
  DaySeconds,   \* seconds in a day (86400)
  MaxStart,     \* bound: gettimeofday is called before
  MaxDelay,     \* bound: time between gettimeofday and setitimer
  MaxClock      \* bound: the clock stops here

ASSUME IntervalAssumption ==
  Micros \in Nat \ {0} /\ Millis \in Nat \ {0} /\ DaySeconds \in Nat \ {0}

VARIABLES
  clock,
  now,          \* result of gettimeofday, or NoTime
  timer,        \* the time at which the alarm goes off, or NoTime
  installed,    \* time of setitimer, or NoTime
  alarm         \* time of the last alarm, or NoTime

timervars == <<clock, now, timer, installed, alarm>>

NoTime == -1

Second == Millis * Micros

TimerInit ==
  /\ clock = 0
  /\ now = NoTime /\ timer = NoTime /\ installed = NoTime /\ alarm = NoTime

SecondInDay(t) == (t \div Second) % DaySeconds

\* seconds to the start of the next interval of the day
SecondsToNext(t, interval) ==
  (SecondInDay(t) \div interval) * interval + interval - SecondInDay(t)

\* in milliseconds, times Micros; a whole second gives a whole second
MicrosToNextSecond(t) == (Millis - ((t \div Micros) % Millis)) * Micros

MutTimeToNext(t, interval) ==
  [tv_sec |-> SecondsToNext(t, interval), tv_usec |-> MicrosToNextSecond(t)]

\* time_to_next_round_interval: the test of now_millis is true after 1970
TimeToNext(t, interval) ==
  [tv_sec |-> SecondsToNext(t, interval) - 1, tv_usec |-> MicrosToNextSecond(t)]

GetTimeOfDay ==
  /\ now = NoTime
  /\ now' = clock
  /\ UNCHANGED <<clock, timer, installed, alarm>>

\* setitimer refuses tv_usec of a second or more and leaves the timer off;
\* the program goes on
SetTimer(interval) ==
  LET next == TimeToNext(now, interval)
  IN  /\ now # NoTime /\ installed = NoTime
      /\ installed' = clock
      /\ timer' = IF next.tv_usec < Second
                  THEN clock + next.tv_sec * Second + next.tv_usec ELSE NoTime
      /\ UNCHANGED <<clock, now, alarm>>

Tick ==
  /\ clock < MaxClock /\ clock # timer
  /\ now = NoTime => clock < MaxStart
  /\ now # NoTime /\ installed = NoTime => clock < now + MaxDelay
  /\ clock' = clock + 1
  /\ UNCHANGED <<now, timer, installed, alarm>>

\* SIGALRM; that it rotates the journals is modelled with the workers
Alarm(interval) ==
  /\ clock = timer
  /\ alarm' = clock
  /\ timer' = timer + interval * Second
  /\ UNCHANGED <<clock, now, installed>>

-----------------------------------------------------------------------------
(* Properties, for the interval in use *)

\* how late the alarms are: what gettimeofday has below a millisecond, and
\* the time between it and setitimer
Late == (now % Micros) + (installed - now)

(* "will attempt to rotate on round intervals starting at beginning of     *)
(* day": every alarm, not only the first, comes at a multiple of the       *)
(* interval within the day, late by less than a millisecond and the time   *)
(* between the two system calls, if the interval divides the day; and the  *)
(* first one comes within one interval.                                    *)
AlarmsOnRound(interval) ==
  /\ alarm # NoTime /\ DaySeconds % interval = 0 =>
       /\ (alarm - Late) % Second = 0
       /\ SecondInDay(alarm - Late) % interval = 0
  /\ timer # NoTime /\ alarm = NoTime =>
       timer - now <= interval * Second + (installed - now)

(* The timer is on unless the start falls on the first millisecond of a    *)
(* second: only then the program never rotates by itself.                  *)
OffOnlyAtExactSecond ==
  installed # NoTime /\ timer = NoTime => (now \div Micros) % Millis = 0

=============================================================================
