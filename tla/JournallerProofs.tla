--------------------------- MODULE JournallerProofs ---------------------------
(***************************************************************************)
(* Proofs about the program, its pid file, logs and timer, for any command *)
(* lines, faults and bounds, any unit of time and any interval:            *)
(*                                                                         *)
(*   PidCorrect           the pid file names the process that runs         *)
(*   StatusCorrect        what the exit status tells the caller            *)
(*   NotForgottenCorrect  no SIGUSR1 is forgotten, but for the exceptions  *)
(*   LogsCorrect          one reopening per SIGUSR1, no closed stream      *)
(*   RoundCorrect         the timer goes off on round intervals            *)
(*                                                                         *)
(* The stages of the start and who wrote the pid file (StageInv, PidInv),  *)
(* the types (LogType) and the writers and places of each model (ModeInv)  *)
(* carry the invariants of the logs: StreamInv, ServedInv and OnceInv.     *)
(***************************************************************************)
EXTENDS Journaller, TLAPS

-----------------------------------------------------------------------------
(* Division *)

LEMMA DivMod ==
  ASSUME NEW a \in Nat, NEW b \in Nat \ {0}
  PROVE  /\ a \div b \in Nat /\ a % b \in 0..(b - 1)
         /\ a = b * (a \div b) + (a % b)
<1>1. a % b \in 0..(b - 1)
  OBVIOUS
<1>2. a = b * (a \div b) + (a % b)
  BY SMTT(30)
<1>3. a \div b \in Int
  OBVIOUS
<1>4. a \div b \in Nat
  BY <1>1, <1>2, <1>3
<1>5. QED
  BY <1>1, <1>2, <1>4

LEMMA Grows ==
  ASSUME NEW b \in Nat \ {0}, NEW k \in Nat \ {0}
  PROVE  b * k >= b
  OBVIOUS

LEMMA Distrib ==
  ASSUME NEW b \in Int, NEW p \in Int, NEW q \in Int
  PROVE  b * (p + q) = b * p + b * q /\ b * (p - q) = b * p - b * q
  OBVIOUS

LEMMA Assoc ==
  ASSUME NEW b \in Int, NEW p \in Int, NEW q \in Int
  PROVE  b * (p * q) = (b * p) * q
  OBVIOUS

LEMMA DivUnique ==
  ASSUME NEW b \in Nat \ {0}, NEW q \in Nat, NEW r \in 0..(b - 1)
  PROVE  (b * q + r) \div b = q /\ (b * q + r) % b = r
<1> DEFINE a == b * q + r
<1>1. a \in Nat
  OBVIOUS
<1>2. PICK p \in Nat, s \in 0..(b - 1) : a \div b = p /\ a % b = s /\ a = b * p + s
  BY <1>1, DivMod
<1>3. b * (p - q) = r - s /\ b * (q - p) = s - r
  BY <1>2
<1>4. CASE p > q
  <2>1. p - q \in Nat \ {0}
    BY <1>4
  <2>2. b * (p - q) >= b
    BY <2>1, Grows
  <2>3. QED
    BY <1>3, <2>2
<1>5. CASE q > p
  <2>1. q - p \in Nat \ {0}
    BY <1>5
  <2>2. b * (q - p) >= b
    BY <2>1, Grows
  <2>3. QED
    BY <1>3, <2>2
<1>6. CASE p = q
  BY <1>2, <1>3, <1>6
<1>7. QED
  BY <1>4, <1>5, <1>6
LEMMA Divides ==
  ASSUME NEW a \in Nat, NEW b \in Nat \ {0}, a % b = 0
  PROVE  \E q \in Nat : a = b * q
<1>1. a \div b \in Nat /\ a = b * (a \div b) + (a % b)
  BY DivMod
<1>2. b * (a \div b) \in Nat
  BY <1>1
<1>3. a = b * (a \div b)
  BY <1>1, <1>2
<1>4. QED
  BY <1>1, <1>3

LEMMA ProductOrder ==
  ASSUME NEW b \in Nat, NEW p \in Nat, NEW q \in Nat, p <= q
  PROVE  b * p <= b * q
<1>1. q - p \in Nat /\ b * (q - p) \in Nat
  OBVIOUS
<1>2. b * (q - p) = b * q - b * p
  BY Distrib
<1>3. QED
  BY <1>1, <1>2

\* A number divided twice.
LEMMA DivTwice ==
  ASSUME NEW t \in Nat, NEW a \in Nat \ {0}, NEW b \in Nat \ {0}
  PROVE  t = (t % a) + a * ((t \div a) % b) + (b * a) * (t \div (b * a))
<1>1. PICK u \in Nat, r \in 0..(a - 1) :
        t \div a = u /\ t % a = r /\ t = a * u + r
  BY DivMod
<1>2. PICK v \in Nat, x \in 0..(b - 1) :
        u \div b = v /\ u % b = x /\ u = b * v + x
  BY DivMod
<1>3. a * x \in Nat /\ a * (b - 1) = a * b - a /\ a * x <= a * (b - 1)
  BY ProductOrder
<1>4. PICK y \in Nat : y = a * x + r
  BY <1>3
<1>5. y < b * a
  BY <1>3, <1>4
<1>6. PICK c \in Nat \ {0} : c = b * a
  OBVIOUS
<1>7. t = c * v + y
  <2>1. a * (b * v) = (a * b) * v /\ a * b = b * a
    BY Assoc
  <2>2. a * u = a * (b * v) + a * x
    BY <1>2, Distrib
  <2>3. QED
    BY <1>1, <1>4, <1>6, <2>1, <2>2
<1>8. t \div c = v
  BY <1>5, <1>6, <1>7, DivUnique
<1>9. t = r + a * x + c * v
  BY <1>4, <1>7
<1>10. QED
  BY <1>1, <1>2, <1>6, <1>8, <1>9

-----------------------------------------------------------------------------
(* The rotation timer *)

USE IntervalAssumption

\* What time_to_next_round_interval finds at t: n seconds and u microseconds, which
\* lead to the end k of an interval, late by the r that the milliseconds drop.
NextRound(t, interval, S) ==
  \E n \in 1..interval, u \in 1..S, k \in Nat, r \in 0..(Micros - 1) :
    /\ r = t % Micros
    /\ SecondsToNext(t, interval) = n /\ MicrosToNextSecond(t) = u
    /\ t + (n - 1) * S + u = r + S * k
    /\ u = S => (t \div Micros) % Millis = 0
    /\ DaySeconds % interval = 0 => \E m \in Nat : k = interval * m

\* time_to_next_round_interval: within the interval, and to its end.
LEMMA TimeToNextRound ==
  ASSUME NEW t \in Nat, NEW interval \in Nat \ {0},
         NEW S \in Nat \ {0}, S = Second
  PROVE  NextRound(t, interval, S)
<1>1. S = Second /\ S = Millis * Micros
  BY DEF Second
<1>2. PICK v \in Nat : v = t \div S
  BY <1>1, DivMod
<1>3. PICK w \in Nat, d \in 0..(DaySeconds - 1) :
        v \div DaySeconds = w /\ v % DaySeconds = d /\ v = DaySeconds * w + d
  BY DivMod
<1>4. SecondInDay(t) = d
  BY <1>1, <1>2, <1>3 DEF SecondInDay
<1>5. PICK e \in Nat, f \in 0..(interval - 1) :
        d \div interval = e /\ d % interval = f /\ d = interval * e + f
  BY DivMod
<1>6. PICK n \in 1..interval : n = e * interval + interval - d
  BY <1>5
<1>7. SecondsToNext(t, interval) = n
  BY <1>4, <1>5, <1>6 DEF SecondsToNext
<1>8. PICK x \in 0..(Millis - 1), r \in 0..(Micros - 1) :
        x = (t \div Micros) % Millis /\ r = t % Micros
  BY DivMod
<1>9. t = r + Micros * x + S * v
  <2>1. t = (t % Micros) + Micros * ((t \div Micros) % Millis)
              + (Millis * Micros) * (t \div (Millis * Micros))
    BY DivTwice
  <2>2. QED
    BY <1>1, <1>2, <1>8, <2>1
<1>10. PICK u \in Int : u = (Millis - x) * Micros
  OBVIOUS
<1>11. MicrosToNextSecond(t) = u
  BY <1>8, <1>10 DEF MicrosToNextSecond
<1>12. u = S - Micros * x
  <2>1. (Millis - x) * Micros = Micros * (Millis - x)
    OBVIOUS
  <2>2. Micros * (Millis - x) = Micros * Millis - Micros * x
    BY Distrib
  <2>3. Micros * Millis = Millis * Micros
    OBVIOUS
  <2>4. QED
    BY <1>1, <1>10, <2>1, <2>2, <2>3
<1>13. Micros * x \in Nat /\ (x # 0 => Micros * x >= Micros)
  BY Grows
<1>14. u \in 1..S /\ (u = S => x = 0)
  <2>1. Millis - x \in Nat \ {0} /\ Micros * (Millis - x) >= Micros
    BY Grows
  <2>2. u >= 1
    BY <1>10, <2>1
  <2>3. QED
    BY <1>12, <1>13, <2>2
<1>15. PICK k \in Nat : k = v + n
  OBVIOUS
<1>16. t + (n - 1) * S + u = r + S * k
  <2>1. S * k = S * v + S * n
    BY <1>15, Distrib
  <2>2. (n - 1) * S = S * n - S
    OBVIOUS
  <2>3. QED
    BY <1>9, <1>12, <2>1, <2>2
<1>17. ASSUME DaySeconds % interval = 0
       PROVE  \E m \in Nat : k = interval * m
  <2>1. PICK g \in Nat : DaySeconds = interval * g
    BY <1>17, Divides
  <2>2. k = DaySeconds * w + interval * e + interval
    BY <1>3, <1>5, <1>6, <1>15
  <2>3. DaySeconds * w = interval * (g * w) /\ g * w \in Nat
    BY <2>1, Assoc
  <2>4. interval * (g * w + (e + 1)) = interval * (g * w) + interval * (e + 1)
    BY <2>3, Distrib
  <2>5. k = interval * (g * w + (e + 1))
    BY <2>2, <2>3, <2>4
  <2>6. g * w + (e + 1) \in Nat
    BY <2>3
  <2>7. QED
    BY <2>5, <2>6
<1>18. QED
  BY <1>1, <1>7, <1>8, <1>11, <1>14, <1>15, <1>16, <1>17 DEF NextRound

\* A multiple of the interval is on a round interval of the day.
LEMMA MultipleIsRound ==
  ASSUME NEW interval \in Nat \ {0}, NEW m \in Nat, NEW t \in Nat,
         DaySeconds % interval = 0, t = Second * (interval * m)
  PROVE  t % Second = 0 /\ SecondInDay(t) % interval = 0
<1>1. PICK S \in Nat \ {0} : S = Second
  BY DEF Second
<1>2. PICK k \in Nat : k = interval * m
  OBVIOUS
<1>3. t \div S = k /\ t % S = 0
  BY <1>1, <1>2, DivUnique
<1>4. PICK h \in Nat, d \in 0..(DaySeconds - 1) :
        k \div DaySeconds = h /\ k % DaySeconds = d /\ k = DaySeconds * h + d
  <2>1. DaySeconds \in Nat \ {0}
    OBVIOUS
  <2>2. /\ k \div DaySeconds \in Nat /\ k % DaySeconds \in 0..(DaySeconds - 1)
        /\ k = DaySeconds * (k \div DaySeconds) + (k % DaySeconds)
    BY <1>2, <2>1, DivMod
  <2>3. QED
    BY <2>2
<1>5. PICK g \in Nat : DaySeconds = interval * g
  BY Divides
<1>6. d = interval * (m - g * h)
  <2>1. DaySeconds * h = interval * (g * h) /\ g * h \in Nat
    BY <1>5, Assoc
  <2>2. interval * (m - g * h) = interval * m - interval * (g * h)
    BY <2>1, Distrib
  <2>3. QED
    BY <1>2, <1>4, <2>1, <2>2
<1>7. m - g * h \in Nat
  <2>1. PICK p \in Int : p = m - g * h
    OBVIOUS
  <2>2. CASE p < 0
    <3>1. interval * (-p) >= interval
      BY <2>2, Grows
    <3>2. interval * p = -(interval * (-p))
      OBVIOUS
    <3>3. QED
      BY <1>6, <2>1, <3>1, <3>2
  <2>3. QED
    BY <2>1, <2>2
<1>8. d % interval = 0
  <2>1. PICK p \in Nat : p = m - g * h
    BY <1>7
  <2>2. d = interval * p + 0
    BY <1>6, <2>1
  <2>3. QED
    BY <2>2, DivUnique
<1>9. SecondInDay(t) = d
  BY <1>1, <1>3, <1>4 DEF SecondInDay
<1>10. QED
  BY <1>1, <1>3, <1>8, <1>9

LEMMA TimerMoves ==
  ASSUME [Next]_vars
  PROVE  /\ cmd' = cmd
         /\ \/ UNCHANGED timervars
            \/ /\ cmd.interval > 0
               /\ \/ GetTimeOfDay \/ SetTimer(cmd.interval)
                  \/ Tick \/ Alarm(cmd.interval)
<1>1. CASE \/ StartUp \/ DoFork \/ ForkFails \/ Detach \/ ReopenLog \/ WritePidFile
           \/ Install \/ NoModel \/ ModelFails \/ EndModel \/ DeletePidFile
           \/ Finish \/ OtherJournaller \/ Terminate
  BY <1>1 DEF StartUp, DoFork, ForkFails, Detach, ReopenLog, WritePidFile,
       Install, NoModel, ModelFails, EndModel, DeletePidFile, Finish,
       OtherJournaller, Terminate, startvars, timervars, logvars, modelvars
<1>2. CASE \/ MainReopen \/ MainOff \/ Wait \/ ChildExits \/ SupervisorReopen
           \/ Forward \/ Signal \/ OtherSignal \/ LogRotate
  BY <1>2 DEF MainReopen, MainOff, Wait, ChildExits, SupervisorReopen, Forward,
       Signal, OtherSignal, LogRotate, startvars, timervars
<1>3. ASSUME NEW w \in Writers, StartChild(w) \/ Worker(w)
      PROVE  cmd' = cmd /\ UNCHANGED timervars
  BY <1>3 DEF StartChild, Worker, StartThread, WorkerReopen, WorkerOff, ChildStep,
       SignalThread, EndThread, startvars, timervars
<1>4. CASE InstallTimer \/ Time
  BY <1>4 DEF InstallTimer, Time, startvars
<1>5. CASE UNCHANGED vars
  BY <1>5 DEF vars, startvars, timervars
<1>6. QED
  BY <1>1, <1>2, <1>3, <1>4, <1>5 DEF Next, Main

Interval == cmd.interval

\* Time t lies on the round interval that the timer was set for.
OnInterval(t) == \E m \in Nat : t = Late + Second * (Interval * m)

\* The alarms keep their distance from a round interval, the first one by
\* what is below a millisecond and passes until setitimer.
TimerInv ==
  /\ cmd \in CommandLines
  /\ clock \in Nat /\ now \in Nat \cup {NoTime} /\ installed \in Nat \cup {NoTime}
  /\ timer \in Nat \cup {NoTime} /\ alarm \in Nat \cup {NoTime}
  /\ now <= clock
  /\ now = NoTime => installed = NoTime
  /\ installed = NoTime => timer = NoTime /\ alarm = NoTime
  /\ installed # NoTime => Interval > 0 /\ now <= installed
  /\ timer = NoTime => alarm = NoTime
  /\ installed # NoTime /\ timer = NoTime => (now \div Micros) % Millis = 0
  /\ DaySeconds % Interval = 0 =>
       /\ timer # NoTime => OnInterval(timer)
       /\ alarm # NoTime => OnInterval(alarm)
  /\ timer # NoTime /\ alarm = NoTime =>
       timer - now <= Interval * Second + (installed - now)

LEMMA TimerStep ==
  ASSUME TimerInv, [Next]_vars
  PROVE  TimerInv'
<1> USE DEF NoTime
<1>1. cmd' = cmd /\ cmd \in CommandLines /\ Interval' = Interval
  BY TimerMoves DEF TimerInv, Interval
<1>2. Interval \in Int
  BY <1>1, JournallerAssumption DEF CommandLine, Interval
<1>3. PICK S \in Nat \ {0} : S = Second
  BY DEF Second
<1>4. CASE UNCHANGED timervars
  BY <1>1, <1>4 DEF timervars, TimerInv, OnInterval, Late
<1>5. CASE GetTimeOfDay
  BY <1>1, <1>5 DEF GetTimeOfDay, TimerInv
<1>6. CASE Tick
  <2>1. PICK c \in Nat : c = clock + 1 /\ clock' = c
    BY <1>6 DEF Tick, TimerInv
  <2>2. UNCHANGED <<now, timer, installed, alarm>>
    BY <1>6 DEF Tick
  <2>3. \A t : OnInterval(t)' = OnInterval(t')
    BY <1>1, <2>2 DEF OnInterval, Late
  <2>4. QED
    BY <1>1, <2>1, <2>2 DEF TimerInv, OnInterval, Late
<1>7. CASE SetTimer(Interval) /\ Interval > 0
  <2>0. Interval \in Nat \ {0}
    BY <1>2, <1>7
  <2>1. /\ now \in Nat /\ installed = NoTime /\ alarm = NoTime /\ timer = NoTime
        /\ clock \in Nat /\ now <= clock
        /\ installed' = clock /\ UNCHANGED <<clock, now, alarm>>
    BY <1>7 DEF SetTimer, TimerInv
  <2>2. PICK n \in 1..Interval, u \in 1..S, k \in Nat, r \in 0..(Micros - 1) :
           /\ r = now % Micros
           /\ SecondsToNext(now, Interval) = n /\ MicrosToNextSecond(now) = u
           /\ now + (n - 1) * S + u = r + S * k
           /\ u = S => (now \div Micros) % Millis = 0
           /\ DaySeconds % Interval = 0 => \E m \in Nat : k = Interval * m
    <3>1. NextRound(now, Interval, S)
      BY <1>3, <2>0, <2>1, TimeToNextRound
    <3>2. QED
      BY <3>1 DEF NextRound
  <2>3. timer' = IF u < S THEN clock + (n - 1) * S + u ELSE NoTime
    BY <1>3, <1>7, <2>2 DEF SetTimer, TimeToNext
  <2>4. (n - 1) * S \in Nat /\ (n - 1) * S <= Interval * S - S
    <3>1. S * n <= S * Interval
      BY <1>2, <1>7, ProductOrder
    <3>2. (n - 1) * S = S * n - S /\ S * Interval = Interval * S
      BY <1>2
    <3>3. S * n >= S
      BY Grows
    <3>4. QED
      BY <1>2, <3>1, <3>2, <3>3
  <2>5. CASE u = S
    BY <1>1, <1>7, <2>1, <2>2, <2>3, <2>5 DEF TimerInv
  <2>6. CASE u < S
    <3>1. PICK t \in Nat : t = clock + (n - 1) * S + u /\ timer' = t
      BY <2>1, <2>3, <2>4, <2>6
    <3>2. PICK late \in Nat : late = r + (clock - now) /\ Late' = late
      BY <2>1, <2>2 DEF Late
    <3>3. t = late + S * k
      BY <2>1, <2>2, <2>4, <3>1, <3>2
    <3>4. DaySeconds % Interval = 0 => OnInterval(timer)'
      BY <1>1, <1>3, <2>2, <3>1, <3>2, <3>3 DEF OnInterval
    <3>5. t - now <= Interval * S + (clock - now)
      BY <1>2, <2>1, <2>4, <2>6, <3>1
    <3>6. QED
      BY <1>1, <1>3, <1>7, <2>1, <3>1, <3>4, <3>5 DEF TimerInv
  <2>7. QED
    BY <2>5, <2>6
<1>8. CASE Alarm(Interval) /\ Interval > 0
  <2>1. /\ clock = timer /\ alarm' = timer /\ timer \in Nat /\ now \in Nat
        /\ installed \in Nat
        /\ UNCHANGED <<clock, now, installed>>
    BY <1>8 DEF Alarm, TimerInv
  <2>2. Interval * S \in Nat
    BY <1>2, <1>8
  <2>3. PICK t \in Nat : t = timer + Interval * S /\ timer' = t
    BY <1>3, <1>8, <2>1, <2>2 DEF Alarm
  <2>4. PICK late \in Int : late = Late /\ Late' = late
    <3>1. now % Micros \in Int
      BY <2>1, DivMod
    <3>2. QED
      BY <2>1, <3>1 DEF Late
  <2>5. ASSUME DaySeconds % Interval = 0
        PROVE  OnInterval(timer)' /\ OnInterval(alarm)'
    <3>1. PICK m \in Nat : timer = late + S * (Interval * m)
      BY <1>3, <2>1, <2>4, <2>5 DEF TimerInv, OnInterval
    <3>2. Interval * (m + 1) = Interval * m + Interval
      BY <1>2
    <3>3. S * (Interval * (m + 1)) = S * (Interval * m) + S * Interval
      BY <1>2, <3>2, Distrib
    <3>4. t = late + S * (Interval * (m + 1))
      BY <1>2, <2>1, <2>3, <3>1, <3>3
    <3>5. QED
      BY <1>1, <1>3, <2>1, <2>3, <2>4, <3>1, <3>4 DEF OnInterval
  <2>6. QED
    BY <1>1, <1>8, <2>1, <2>3, <2>5 DEF TimerInv
<1>9. QED
  BY <1>4, <1>5, <1>6, <1>7, <1>8, TimerMoves DEF Interval

LEMMA TimerStarts == Init => TimerInv
<1> SUFFICES ASSUME Init PROVE TimerInv
  OBVIOUS
<1>1. /\ cmd \in CommandLines /\ clock = 0
      /\ now = -1 /\ timer = -1 /\ installed = -1 /\ alarm = -1
  BY DEF Init, TimerInit, NoTime
<1>2. QED
  BY <1>1 DEF TimerInv, NoTime

LEMMA TimerMeans ==
  ASSUME TimerInv
  PROVE  TimerRound
<1> USE DEF NoTime
<1>1. OffOnlyAtExactSecond
  BY DEF TimerInv, OffOnlyAtExactSecond
<1>2. ASSUME cmd.interval > 0
      PROVE  AlarmsOnRound(cmd.interval)
  <2>1. Interval \in Nat \ {0}
    BY <1>2, JournallerAssumption DEF TimerInv, CommandLine, Interval
  <2>2. ASSUME alarm # NoTime, DaySeconds % Interval = 0
        PROVE  (alarm - Late) % Second = 0 /\ SecondInDay(alarm - Late) % Interval = 0
    <3>1. now \in Nat /\ installed \in Nat /\ alarm \in Nat
      BY <2>2 DEF TimerInv
    <3>2. PICK late \in Int : late = Late
      <4>1. now % Micros \in Int
        BY <3>1, DivMod
      <4>2. QED
        BY <3>1, <4>1 DEF Late
    <3>3. PICK m \in Nat : alarm = late + Second * (Interval * m)
      BY <2>2, <3>2 DEF TimerInv, OnInterval
    <3>4. PICK t \in Nat : t = Second * (Interval * m)
      BY <2>1 DEF Second
    <3>5. alarm - Late = t
      BY <3>1, <3>2, <3>3, <3>4
    <3>6. QED
      BY <2>1, <2>2, <3>4, <3>5, MultipleIsRound
  <2>3. timer # NoTime /\ alarm = NoTime =>
          timer - now <= Interval * Second + (installed - now)
    BY DEF TimerInv
  <2>4. QED
    BY <2>2, <2>3 DEF AlarmsOnRound, Interval
<1>3. QED
  BY <1>1, <1>2 DEF TimerRound, AlarmOnRound

-----------------------------------------------------------------------------
(* The stages of the program *)

HIDE IntervalAssumption

\* What the steps do to the stage, the exit status and the pid file.
LEMMA StageMoves ==
  ASSUME [Next]_vars
  PROVE  /\ cmd' = cmd
         /\ \/ UNCHANGED <<jpc, pid, status, pidvars>>
            \/ StartUp \/ DoFork
            \/ ReopenLog \/ WritePidFile \/ DeletePidFile \/ Finish \/ OtherJournaller
            \/ /\ UNCHANGED <<pid, status, pidvars>>
               /\ \/ jpc = "setsid" /\ Goto("fork_again")
                  \/ jpc = "fds" /\ Goto("log")
                  \/ jpc = "model" /\ Goto("unlink")
            \/ /\ jpc \notin {"unlink", "end", "ended", "gone"} /\ ExitWith(Failure)
               /\ UNCHANGED <<pid, pidvars>>
<1>1. CASE \/ StartUp \/ DoFork \/ ReopenLog \/ WritePidFile
           \/ DeletePidFile \/ Finish \/ OtherJournaller
  BY <1>1 DEF StartUp, DoFork, ReopenLog, WritePidFile, DeletePidFile, Finish,
              OtherJournaller, startvars
<1>2. CASE \/ ForkFails \/ Detach \/ Install \/ NoModel \/ ModelFails \/ EndModel
           \/ Terminate
  BY <1>2 DEF ForkFails, Detach, Install, NoModel, ModelFails, EndModel, Terminate,
              InModel, startvars
<1>3. CASE \/ MainReopen \/ MainOff \/ Wait \/ ChildExits \/ SupervisorReopen
           \/ Forward \/ Signal \/ OtherSignal \/ LogRotate
           \/ InstallTimer \/ Time
  BY <1>3 DEF MainReopen, MainOff, Wait, ChildExits, SupervisorReopen, Forward,
       Signal, OtherSignal, LogRotate, InstallTimer, Time, InModel, startvars
<1>4. ASSUME NEW w \in Writers, StartChild(w) \/ Worker(w)
      PROVE  UNCHANGED <<cmd, jpc, pid, status, pidvars>>
  BY <1>4 DEF StartChild, Worker, StartThread, WorkerReopen, WorkerOff, ChildStep,
       SignalThread, EndThread, startvars
<1>5. CASE UNCHANGED vars
  BY <1>5 DEF vars, startvars
<1>6. QED
  BY <1>1, <1>2, <1>3, <1>4, <1>5 DEF Next, Main

\* The process that runs the model.
LastPid == IF cmd.nodaemonize THEN 0 ELSE 2

\* Which process is at which stage, and what its caller knows.
StageInv ==
  /\ cmd \in CommandLines
  /\ jpc \in {"options", "fork", "setsid", "fork_again", "fds", "log", "pid",
              "model", "unlink", "end", "ended", "gone"}
  /\ pid \in {0, 1, 2}
  /\ jpc = "options" => pid = 0
  /\ jpc = "fork" => pid = 0 /\ ~cmd.nodaemonize
  /\ jpc \in {"setsid", "fork_again"} => pid = 1 /\ ~cmd.nodaemonize
  /\ jpc = "fds" => pid = 2 /\ ~cmd.nodaemonize
  /\ jpc \in {"log", "pid", "model", "unlink", "end", "ended"} => pid = LastPid
  /\ status \in {Success, Failure, Unknown}
  /\ status = Failure => jpc = "gone" /\ (~cmd.nodaemonize => last_pidfile # "self")
  /\ pid = 0 /\ jpc \notin {"ended", "gone"} => status = Unknown
  /\ pid # 0 => status # Unknown
  /\ status = Success /\ jpc = "gone" => pid # 0 \/ cmd.info # "none"

\* The pid file: who wrote it last, and what it holds then.
PidInv ==
  /\ pidfile \in {NoPid, Other, 0, 1, 2}
  /\ last_pidfile \in {"nobody", "self", "other"}
  /\ jpc \in {"options", "fork", "setsid", "fork_again", "fds", "log", "pid"}
       => last_pidfile # "self"
  /\ last_pidfile = "nobody" => pidfile = NoPid /\ other # "runs"
  /\ last_pidfile = "other" => pidfile \in {NoPid, Other}
  /\ ~cmd.pid_file => last_pidfile = "nobody"
  /\ jpc \in {"model", "unlink"} /\ last_pidfile = "self" => pidfile = pid
  /\ jpc \in {"end", "ended"} /\ "unlink" \notin StartFaults
       => pidfile \in {NoPid, Other}
  /\ other = "runs" /\ pidfile = NoPid => jpc \in {"end", "ended"}

LEMMA StageStarts == Init => StageInv /\ PidInv
  BY DEF Init, StageInv, PidInv, Unknown, Success, Failure, NoPid

LEMMA StageStep ==
  ASSUME StageInv, PidInv, [Next]_vars
  PROVE  StageInv' /\ PidInv'
<1> USE DEF Goto, NoPid, Other, Success, Failure, Unknown, pidvars, LastPid
<1>0. cmd' = cmd
  BY StageMoves
<1>1. CASE UNCHANGED <<jpc, pid, status, pidvars>>
  <2>1. StageInv'
    BY <1>0, <1>1 DEF StageInv
  <2>2. PidInv'
    BY <1>0, <1>1 DEF PidInv
  <2>3. QED
    BY <2>1, <2>2
<1>2. CASE StartUp
  <2>1. /\ jpc = "options" /\ pid = 0 /\ UNCHANGED <<pid, pidvars>>
        /\ \/ ProcessOptions = Unknown /\ jpc' = "log" /\ status' = status
              /\ cmd.nodaemonize
           \/ ProcessOptions = Unknown /\ jpc' = "fork" /\ status' = status
              /\ ~cmd.nodaemonize
           \/ ProcessOptions # Unknown /\ jpc' = "gone" /\ status' = ProcessOptions
    BY <1>2 DEF StartUp, ExitWith, StageInv
  <2>2. /\ ProcessOptions \in {Success, Failure, Unknown}
        /\ ProcessOptions = Success => cmd.info # "none"
    BY DEF ProcessOptions, VersionAsked, ArgsAsked
  <2>3. QED
    BY <1>0, <2>1, <2>2 DEF StageInv, PidInv
<1>3. CASE DoFork
  <2>0. UNCHANGED pidvars
    BY <1>3 DEF DoFork
  <2>1. /\ pid' = pid + 1
        /\ status' = IF pid = 0 THEN 0 ELSE status
        /\ jpc' = IF jpc = "fork" THEN "setsid" ELSE "fds"
    BY <1>3 DEF DoFork
  <2>2. PidInv'
    BY <1>0, <1>3, <2>0 DEF DoFork, PidInv
  <2>3. CASE jpc = "fork"
    <3>1. pid = 0 /\ ~cmd.nodaemonize /\ last_pidfile # "self"
      BY <2>3 DEF StageInv, PidInv
    <3>2. pid' = 0 + 1 /\ status' = 0 /\ jpc' = "setsid"
      BY <2>1, <2>3, <3>1, Zenon
    <3>3. pid' = 1
      <4>1. 0 + 1 = 1
        OBVIOUS
      <4>2. QED
        BY <3>2, <4>1, Zenon
    <3>4. QED
      BY <1>0, <2>0, <2>2, <3>1, <3>2, <3>3 DEF StageInv
  <2>4. CASE jpc = "fork_again"
    <3>1. pid = 1 /\ ~cmd.nodaemonize /\ 1 # 0
      BY <2>4 DEF StageInv
    <3>2. pid' = 1 + 1 /\ status' = status /\ jpc' = "fds"
      <4>1. jpc # "fork" /\ pid # 0
        BY <2>4, <3>1
      <4>2. QED
        BY <2>1, <3>1, <4>1, Zenon
    <3>3. pid' = 2
      <4>1. 1 + 1 = 2
        OBVIOUS
      <4>2. QED
        BY <3>2, <4>1, Zenon
    <3>4. status = 0
      BY <2>4, <3>1 DEF StageInv
    <3>5. QED
      BY <1>0, <2>0, <2>2, <3>1, <3>2, <3>3, <3>4 DEF StageInv
  <2>5. QED
    BY <1>3, <2>3, <2>4 DEF DoFork
<1>4. CASE ReopenLog
  BY <1>0, <1>4 DEF ReopenLog, StageInv, PidInv
<1>5. CASE WritePidFile
  <2>1. StageInv'
    BY <1>0, <1>5 DEF WritePidFile, StageInv, PidInv
  <2>2. PidInv'
    BY <1>0, <1>5 DEF WritePidFile, StageInv, PidInv
  <2>3. QED
    BY <2>1, <2>2
<1>6. CASE DeletePidFile
  <2>1. StageInv'
    BY <1>0, <1>6 DEF DeletePidFile, StageInv, PidInv
  <2>2. PidInv'
    BY <1>0, <1>6 DEF DeletePidFile, StageInv, PidInv
  <2>3. QED
    BY <2>1, <2>2
<1>7. CASE Finish
  <2>1. StageInv'
    BY <1>0, <1>7 DEF Finish, StageInv, PidInv
  <2>2. PidInv'
    BY <1>0, <1>7 DEF Finish, StageInv, PidInv
  <2>3. QED
    BY <2>1, <2>2
<1>8. CASE OtherJournaller
  <2>1. UNCHANGED <<jpc, pid, status>> /\ last_pidfile' = "other" /\ cmd.pid_file
    BY <1>8 DEF OtherJournaller, startvars
  <2>2. StageInv'
    BY <1>0, <2>1 DEF StageInv
  <2>3. \/ other' = "runs" /\ pidfile' = Other
        \/ other' = "ended" /\ pidfile' = NoPid
    BY <1>8 DEF OtherJournaller
  <2>4. PidInv'
    BY <1>0, <2>1, <2>3 DEF PidInv
  <2>5. QED
    BY <2>2, <2>4
<1>9. CASE /\ UNCHANGED <<pid, status, pidvars>>
           /\ \/ jpc = "setsid" /\ Goto("fork_again")
              \/ jpc = "fds" /\ Goto("log")
              \/ jpc = "model" /\ Goto("unlink")
  <2>1. StageInv'
    BY <1>0, <1>9 DEF StageInv
  <2>2. PidInv'
    BY <1>0, <1>9 DEF PidInv
  <2>3. QED
    BY <2>1, <2>2
<1>10. CASE /\ jpc \notin {"unlink", "end", "ended", "gone"} /\ ExitWith(Failure)
            /\ UNCHANGED <<pid, pidvars>>
  <2>1. /\ jpc' = "gone" /\ status' = IF pid = 0 THEN 1 ELSE status
        /\ UNCHANGED pid /\ UNCHANGED pidvars
    BY <1>10 DEF ExitWith
  <2>2. PidInv'
    BY <1>0, <1>10, <2>1 DEF PidInv
  <2>3. CASE pid = 0
    <3>1. ~cmd.nodaemonize => last_pidfile # "self"
      BY <1>10, <2>3 DEF StageInv, PidInv
    <3>2. QED
      BY <1>0, <2>1, <2>2, <2>3, <3>1 DEF StageInv
  <2>4. CASE pid # 0
    <3>1. status = 0
      BY <1>10, <2>4 DEF StageInv
    <3>2. QED
      BY <1>0, <2>1, <2>2, <2>4, <3>1 DEF StageInv
  <2>5. QED
    BY <2>3, <2>4
<1>11. QED
  BY <1>1, <1>2, <1>3, <1>4, <1>5, <1>6, <1>7, <1>8, <1>9, <1>10, StageMoves

LEMMA StageHolds == Spec => [](StageInv /\ PidInv)
  BY StageStarts, StageStep, PTL DEF Spec

-----------------------------------------------------------------------------
(* Types of the logs and the models *)

WriterState == {"off", "fork", "boot", "loop", "off_switch", "dead", "end"}

LogType ==
  /\ cmd \in CommandLine
  /\ gbl_done \in BOOLEAN /\ pending \in BOOLEAN
  /\ wpc \in [Writers -> WriterState]
  /\ mpc \in {"boot", "check", "start", "wait", "eintr", "loop", "off_switch"}
  /\ stream \in [Writers -> Writers] /\ open \subseteq Writers
  /\ file \in [Writers -> NoLog..MaxRenames] /\ missed \subseteq Writers
  /\ switch \in [Writers -> BOOLEAN]
  /\ renames \in 0..MaxRenames /\ asked \in Nat /\ asked <= renames
  /\ fails \in Nat /\ usr1 \in 0..MaxUsr1
  /\ reopened \in [Writers -> Nat]

\* Before the model runs.
Before ==
  \/ jpc \in {"options", "fork", "setsid", "fork_again", "fds", "log", "pid"}
  \/ jpc = "model" /\ mpc = "boot"

\* The log has been reopened after the options, and not yet closed.
Lit == jpc \in {"pid", "model", "unlink", "end"}

\* The log is still the stdout of the program.
Early == jpc \in {"options", "fork", "setsid", "fork_again", "fds", "log"}

Quiet ==
  /\ UNCHANGED <<modelvars, logvars>>
  /\ Early' => Early
  /\ jpc' = "model" => jpc \in {"pid", "model"}
  /\ Before' => Before
  /\ Lit' => Lit

\* The steps that change a log, a switch or where a writer is.
LEMMA LogMoves ==
  ASSUME [Next]_vars
  PROVE  /\ cmd' = cmd
         /\ \/ Quiet
            \/ StartUp \/ ReopenLog \/ Finish
            \/ Install \/ MainReopen \/ MainOff \/ Wait \/ SupervisorReopen \/ Forward
            \/ Signal \/ OtherSignal \/ LogRotate \/ Terminate
            \/ SignalThread
            \/ \E w \in Writers : \/ StartChild(w) \/ StartThread(w) \/ WorkerReopen(w)
                                  \/ WorkerOff(w) \/ ChildStep(w) \/ EndThread(w)
<1>0. cmd' = cmd
  BY StageMoves
<1>1. CASE \/ DoFork \/ ForkFails \/ Detach \/ WritePidFile
  <2>1. UNCHANGED <<modelvars, logvars>>
    BY <1>1 DEF DoFork, ForkFails, Detach, WritePidFile
  <2>2. /\ jpc \in {"fork", "fork_again", "setsid", "fds", "pid"}
        /\ jpc' \in {"setsid", "fds", "gone", "fork_again", "log", "model"}
        /\ jpc' = "model" <=> jpc = "pid"
    BY <1>1 DEF DoFork, ForkFails, Detach, WritePidFile, ExitWith, Goto
  <2>3. QED
    BY <1>0, <2>1, <2>2 DEF Quiet, Early, Before, Lit
<1>2. CASE \/ NoModel \/ ModelFails \/ ChildExits \/ EndModel \/ DeletePidFile
  BY <1>0, <1>2 DEF NoModel, ModelFails, ChildExits, EndModel, DeletePidFile,
                    Quiet, InModel, Early, Before, Lit, ExitWith, Goto, modelvars
<1>3. CASE InstallTimer \/ Time \/ OtherJournaller
  BY <1>0, <1>3 DEF InstallTimer, Time, OtherJournaller,
                    Quiet, InModel, Early, Before, Lit, startvars, modelvars
<1>4. CASE UNCHANGED vars
  BY <1>0, <1>4 DEF vars, Quiet, InModel, Early, Before, Lit, startvars, modelvars
<1>5. QED
  BY <1>0, <1>1, <1>2, <1>3, <1>4 DEF Next, Main, Worker

\* What reopening a log does.
LEMMA GetLogType ==
  ASSUME LogType, NEW w \in Writers, NEW given \in BOOLEAN, NEW stdout \in Writers,
         GetLog(w, given, stdout)
  PROVE  /\ stream' \in [Writers -> Writers] /\ open' \subseteq Writers
         /\ file' \in [Writers -> NoLog..MaxRenames]
         /\ fails' \in Nat
<1>1. stream[w] \in Writers /\ renames \in NoLog..MaxRenames /\ NoLog \in NoLog..MaxRenames
  BY LogFilesAssumption DEF LogType, NoLog
<1>2. fails + 1 \in Nat
  BY DEF LogType
<1>3. QED
  BY <1>1, <1>2 DEF GetLog, ToPath, CannotOpen, LogType

LEMMA ReopenType ==
  ASSUME LogType, NEW w \in Writers, NEW given \in BOOLEAN, NEW stdout \in Writers,
         Reopen(w, given, stdout)
  PROVE  /\ stream' \in [Writers -> Writers] /\ open' \subseteq Writers
         /\ file' \in [Writers -> NoLog..MaxRenames] /\ missed' \subseteq Writers
         /\ fails' \in Nat /\ reopened' \in [Writers -> Nat]
         /\ UNCHANGED <<renames, usr1, asked>>
<1>1. reopened' \in [Writers -> Nat]
  BY DEF Reopen, LogType
<1>2. QED
  BY <1>1, GetLogType DEF Reopen, LogType

LEMMA NewLogType ==
  ASSUME LogType, NEW w \in Writers, NEW given \in BOOLEAN, NewLog(w, given)
  PROVE  /\ stream' \in [Writers -> Writers] /\ open' \subseteq Writers
         /\ file' \in [Writers -> NoLog..MaxRenames]
         /\ fails' \in Nat
<1>1. "main" \in Writers /\ renames \in NoLog..MaxRenames
  BY LogFilesAssumption DEF LogType, NoLog, Writers
<1>2. fails + 1 \in Nat
  BY DEF LogType
<1>3. QED
  BY <1>1, <1>2 DEF NewLog, ToPath, CannotOpen, LogType

LEMMA LogTypeStep ==
  ASSUME LogType, [Next]_vars
  PROVE  LogType'
<1>0. /\ cmd' = cmd /\ cmd \in CommandLine /\ cmd.log_file \in BOOLEAN
      /\ \A w \in Writers : Stdout(w) \in Writers
  BY LogMoves DEF LogType, CommandLine, Stdout, Writers
<1>1. CASE Quiet
  BY <1>0, <1>1 DEF Quiet, modelvars, logvars, streams, LogType
<1>2. CASE StartUp \/ Finish \/ Install
  BY <1>0, <1>2 DEF StartUp, Finish, Install, CloseLog, modelvars, logvars, streams, LogType
<1>3. CASE ReopenLog
  <2>1. "main" \in Writers
    BY DEF Writers
  <2>2. GetLog("main", cmd.log_file, "main")
        /\ UNCHANGED <<modelvars, renames, switch, usr1, asked, missed, reopened>>
    BY <1>3 DEF ReopenLog
  <2>3. QED
    BY <1>0, <2>1, <2>2, GetLogType DEF modelvars, LogType
<1>4. ASSUME NEW w \in Writers, Reopen(w, cmd.log_file, Stdout(w))
             \/ Reopen(w, cmd.log_file, "main"),
             gbl_done' \in BOOLEAN, pending' \in BOOLEAN,
             wpc' \in [Writers -> WriterState],
             mpc' \in {"boot", "check", "start", "wait", "eintr", "loop", "off_switch"},
             switch' \in [Writers -> BOOLEAN]
      PROVE  LogType'
  <2>1. Stdout(w) \in Writers /\ "main" \in Writers
    BY <1>0 DEF Writers
  <2>2. QED
    BY <1>0, <1>4, <2>1, ReopenType DEF LogType
<1>5. CASE MainReopen \/ (SupervisorReopen /\ switch["main"]) \/ SignalThread
  <2>1. {"main", "signal"} \subseteq Writers
    BY DEF Writers
  <2>2. \E w \in {"main", "signal"} : Reopen(w, cmd.log_file, "main")
    BY <1>5 DEF MainReopen, SupervisorReopen, SignalThread
  <2>3. /\ gbl_done' \in BOOLEAN /\ pending' \in BOOLEAN /\ UNCHANGED wpc
        /\ mpc' \in {"boot", "check", "start", "wait", "eintr", "loop", "off_switch"}
        /\ switch' \in [Writers -> BOOLEAN]
    BY <1>5 DEF MainReopen, SupervisorReopen, SignalThread, LogType
  <2>4. QED
    BY <1>4, <2>1, <2>2, <2>3 DEF LogType
<1>6. CASE SupervisorReopen /\ ~switch["main"]
  BY <1>0, <1>6 DEF SupervisorReopen, streams, LogType
<1>7. CASE MainOff \/ Wait \/ Forward \/ OtherSignal \/ Terminate
  <2>1. /\ UNCHANGED <<renames, streams, fails, usr1, asked, reopened>>
        /\ gbl_done' \in BOOLEAN /\ UNCHANGED pending
        /\ mpc' \in {"boot", "check", "start", "wait", "eintr", "loop", "off_switch"}
    BY <1>7 DEF MainOff, SwitchOff, Wait, Forward, OtherSignal, Terminate, logvars, modelvars,
                LogType
  <2>2. wpc' \in [Writers -> WriterState]
    BY <1>7 DEF MainOff, Wait, Forward, OtherSignal, Terminate, modelvars,
                LogType, WriterState
  <2>3. switch' \in [Writers -> BOOLEAN]
    BY <1>7 DEF MainOff, SwitchOff, Wait, Forward, OtherSignal, Terminate, logvars, LogType
  <2>4. missed' \subseteq Writers
    BY <1>7 DEF MainOff, SwitchOff, Wait, Forward, OtherSignal, Terminate, logvars, LogType,
                Children, Writers
  <2>5. QED
    BY <1>0, <2>1, <2>2, <2>3, <2>4 DEF streams, LogType
<1>8. CASE Signal
  <2>1. /\ UNCHANGED <<renames, streams, fails, reopened, gbl_done, wpc>>
        /\ pending' \in BOOLEAN /\ asked' = renames
    BY <1>8 DEF Signal, Usr1, LogType
  <2>2. mpc' \in {"boot", "check", "start", "wait", "eintr", "loop", "off_switch"}
    BY <1>8 DEF Signal, LogType
  <2>3. switch' \in [Writers -> BOOLEAN] /\ missed' \subseteq Writers
    <3>1. \/ switch' = switch
          \/ switch' = [switch EXCEPT !["main"] = @ \/ Type # "thread"]
      BY <1>8 DEF Signal
    <3>2. missed' = missed \/ missed' = missed \cup {"main", "enq", "deq"}
      BY <1>8 DEF Signal
    <3>3. switch' \in [Writers -> BOOLEAN]
      BY <3>1 DEF LogType
    <3> QED
      BY <3>2, <3>3 DEF LogType, Writers
  <2>4. usr1' \in 0..MaxUsr1
    BY <1>8, LogFilesAssumption DEF Signal, Usr1, LogType
  <2>5. QED
    BY <1>0, <2>1, <2>2, <2>3, <2>4 DEF streams, LogType
<1>13. CASE LogRotate
  <2>1. PICK r \in 0..MaxRenames : renames' = r /\ asked <= r
    BY <1>13, LogFilesAssumption DEF LogRotate, Rename, LogType
  <2>2. UNCHANGED <<modelvars, streams, switch, fails, usr1, asked, missed, reopened>>
    BY <1>13 DEF LogRotate, Rename
  <2>3. QED
    BY <1>0, <2>1, <2>2 DEF streams, modelvars, LogType
<1>9. ASSUME NEW w \in Writers, StartChild(w) \/ ChildStep(w) \/ EndThread(w) \/ WorkerOff(w)
      PROVE  LogType'
  <2>1. /\ UNCHANGED <<gbl_done, pending, mpc, renames, fails, usr1, asked, reopened>>
    BY <1>9 DEF StartChild, ChildStep, EndThread, WorkerOff, logvars
  <2>2. wpc' \in [Writers -> WriterState] /\ open' \subseteq Writers
    BY <1>9 DEF StartChild, ChildStep, EndThread, WorkerOff, LogType, WriterState, CloseLog,
                logvars, streams
  <2>3. switch' \in [Writers -> BOOLEAN] /\ missed' \subseteq Writers
    BY <1>9 DEF StartChild, ChildStep, EndThread, WorkerOff, SwitchOff, logvars, LogType
  <2>4. stream' \in [Writers -> Writers]
    BY <1>9 DEF StartChild, ChildStep, EndThread, WorkerOff, CloseLog, logvars, streams,
                LogType
  <2>5. file' \in [Writers -> NoLog..MaxRenames]
    <3>1. NoLog \in NoLog..MaxRenames /\ "main" \in Writers
      BY LogFilesAssumption DEF NoLog, Writers
    <3>2. QED
      BY <1>9, <3>1 DEF StartChild, ChildStep, EndThread, WorkerOff, CloseLog, logvars, streams,
                LogType
  <2>6. QED
    BY <1>0, <2>1, <2>2, <2>3, <2>4, <2>5 DEF LogType
<1>10. ASSUME NEW w \in Writers, StartThread(w)
       PROVE  LogType'
  <2>1. /\ NewLog(w, cmd.log_file)
        /\ wpc' = [wpc EXCEPT ![w] = "loop"]
        /\ UNCHANGED <<gbl_done, pending, mpc, renames, switch, usr1, asked, missed, reopened>>
    BY <1>10 DEF StartThread
  <2>2. QED
    BY <1>0, <2>1, NewLogType DEF LogType, WriterState
<1>11. ASSUME NEW w \in Writers, WorkerReopen(w)
       PROVE  LogType'
  <2>1. /\ Reopen(w, cmd.log_file, Stdout(w))
        /\ wpc' = [wpc EXCEPT ![w] = "off_switch"]
        /\ UNCHANGED <<gbl_done, pending, mpc, switch>>
    BY <1>11 DEF WorkerReopen
  <2>2. wpc' \in [Writers -> WriterState]
    BY <2>1 DEF LogType, WriterState
  <2>3. QED
    BY <1>4, <2>1, <2>2 DEF LogType
<1>12. QED
  BY <1>1, <1>2, <1>3, <1>5, <1>6, <1>7, <1>8, <1>13, <1>9, <1>10, <1>11, LogMoves

-----------------------------------------------------------------------------
(* The models *)

\* Which writers and which places in the models there are, by type of model.
ModeInv ==
  /\ mpc # "boot" => Type \in {"thread", "process", "serial"}
  /\ mpc \in {"check", "start", "wait", "eintr"} => Type = "process"
  /\ mpc = "loop" => Type # "process"
  /\ mpc = "off_switch" => Type # "serial"
  /\ Before => /\ mpc = "boot" /\ ~pending /\ usr1 = 0 /\ asked = 0 /\ missed = {}
               /\ \A w \in Writers : wpc[w] = "off" /\ ~switch[w]
  /\ pending => Type = "thread"
  /\ wpc["main"] = "off"
  /\ Type # "thread" => wpc["signal"] = "off"
  /\ Type = "serial" => \A w \in Writers : wpc[w] = "off"
  /\ Type # "process" => \A w \in Writers : wpc[w] \notin {"fork", "boot", "dead"}
  /\ Type = "process" => \A w \in Writers : wpc[w] # "end"

LEMMA ModeStep ==
  ASSUME LogType, ModeInv, [Next]_vars
  PROVE  ModeInv'
<1> USE DEF Type, Children, Writers
<1>0. cmd' = cmd
  BY LogMoves
<1>1. CASE Quiet
  BY <1>0, <1>1 DEF Quiet, Before, modelvars, logvars, ModeInv
<1>2. ASSUME UNCHANGED <<modelvars, switch, usr1, asked, missed>>, Before' => Before
      PROVE  ModeInv'
  BY <1>0, <1>2 DEF modelvars, Before, ModeInv
<1>3. CASE StartUp
  BY <1>2, <1>3 DEF StartUp, Before
<1>4. CASE ReopenLog
  BY <1>2, <1>4 DEF ReopenLog, Before
<1>5. CASE Finish
  BY <1>2, <1>5 DEF Finish, Goto, Before
<1>6. CASE Install
  BY <1>0, <1>6 DEF Install, startvars, logvars, Before, ModeInv
<1>7. ASSUME InModel, ~Before', UNCHANGED wpc, pending' => Type = "thread",
             \/ mpc' = mpc
             \/ mpc' \in {"check", "start", "wait", "eintr"} /\ Type = "process"
             \/ mpc' = "loop" /\ Type # "process" /\ mpc # "boot"
             \/ mpc' = "off_switch" /\ Type # "serial" /\ mpc # "boot"
      PROVE  ModeInv'
  BY <1>0, <1>7 DEF InModel, ModeInv
<1>8. InModel => ~Before
  BY DEF InModel, Before
<1>9. CASE MainReopen \/ MainOff \/ Wait \/ SupervisorReopen \/ OtherSignal \/ SignalThread
  <2>1. InModel /\ UNCHANGED wpc /\ ~Before' /\ (pending' => pending)
    BY <1>9 DEF MainReopen, MainOff, Wait, SupervisorReopen, OtherSignal, SignalThread,
                InModel, Before, startvars
  <2>2. \/ mpc' = mpc
        \/ mpc' \in {"check", "start", "wait", "eintr"} /\ Type = "process"
        \/ mpc' = "loop" /\ Type # "process" /\ mpc # "boot"
        \/ mpc' = "off_switch" /\ Type # "serial" /\ mpc # "boot"
    BY <1>9 DEF MainReopen, MainOff, Wait, SupervisorReopen, OtherSignal, SignalThread, ModeInv,
                InModel
  <2>3. QED
    BY <1>7, <2>1, <2>2 DEF ModeInv
<1>10. CASE Signal \/ Terminate
  <2>1. CASE InModel
    <3>1. /\ UNCHANGED <<jpc, wpc>>
          /\ mpc' = mpc \/ (mpc = "wait" /\ mpc' = "eintr")
      BY <1>10, <2>1 DEF Signal, Terminate
    <3>2. ~Before'
      BY <2>1, <3>1 DEF InModel, Before
    <3>3. pending' => pending \/ Type = "thread"
      BY <1>10, <2>1, Zenon DEF Signal, Terminate
    <3>4. QED
      BY <1>7, <2>1, <3>1, <3>2, <3>3 DEF ModeInv
  <2>2. CASE ~InModel
    <3>1. /\ ~Before' /\ UNCHANGED <<mpc, pending, wpc>>
      BY <1>10, <2>2 DEF Signal, Terminate, ExitWith, Goto, Before
    <3>2. QED
      BY <1>0, <3>1 DEF ModeInv
  <2>3. QED
    BY <2>1, <2>2
<1>11. CASE LogRotate
  BY <1>2, <1>11 DEF LogRotate, Rename, startvars, modelvars, Before
<1>12. ASSUME InModel, ~Before', UNCHANGED <<mpc, pending>>, NEW w \in Writers, w # "main",
              \/ wpc'[w] \in {"fork", "boot", "loop", "dead", "off_switch"}
                 /\ Type = "process" /\ w \in Children
              \/ wpc'[w] \in {"loop", "off_switch", "end"} /\ Type = "thread",
              \A v \in Writers \ {w} : wpc'[v] = wpc[v]
       PROVE  ModeInv'
  BY <1>0, <1>12 DEF InModel, ModeInv
<1>13. ASSUME NEW w \in Writers,
              \/ StartChild(w) \/ StartThread(w) \/ WorkerReopen(w)
              \/ WorkerOff(w) \/ ChildStep(w) \/ EndThread(w)
       PROVE  ModeInv'
  <2>1. InModel /\ ~Before' /\ UNCHANGED <<mpc, pending>>
    BY <1>13 DEF StartChild, StartThread, WorkerReopen, WorkerOff, ChildStep, EndThread,
                 InModel, Before, startvars
  <2>2. /\ \A v \in Writers \ {w} : wpc'[v] = wpc[v]
        /\ wpc'[w] \in WriterState
    BY <1>13 DEF StartChild, StartThread, WorkerReopen, WorkerOff, ChildStep, EndThread,
                 LogType, WriterState
  <2>3. w # "main"
    BY <1>13 DEF StartChild, StartThread, WorkerReopen, WorkerOff, ChildStep, EndThread, ModeInv
  <2>4. \/ /\ Type = "process" /\ w \in Children
           /\ wpc'[w] \in {"fork", "boot", "loop", "dead", "off_switch"}
        \/ wpc'[w] \in {"loop", "off_switch", "end"} /\ Type = "thread"
    <3>1. wpc[w] # "off" => Type \in {"thread", "process"} /\ (Type = "process" => w # "signal")
      BY <2>1 DEF ModeInv, InModel
    <3>2. QED
      BY <1>13, <2>3, <3>1 DEF StartChild, StartThread, WorkerReopen, WorkerOff, ChildStep,
                        EndThread, LogType
  <2>5. QED
    BY <1>12, <2>1, <2>2, <2>3, <2>4
<1>14. CASE Forward
  <2>1. /\ InModel /\ ~Before' /\ mpc' = "check" /\ Type = "process" /\ UNCHANGED pending
        /\ \A v \in Writers : wpc'[v] = wpc[v] \/ (wpc'[v] = "dead" /\ v \in Children)
    BY <1>14 DEF Forward, InModel, Before, startvars
  <2>2. QED
    BY <1>0, <2>1 DEF ModeInv
<1>15. QED
  BY <1>1, <1>3, <1>4, <1>5, <1>6, <1>9, <1>10, <1>11, <1>13, <1>14, LogMoves

-----------------------------------------------------------------------------
(* The streams *)

Alive(w) == wpc[w] \in {"fork", "boot", "loop", "off_switch"}

\* With a log file each writer has a stream of its own, which is open.
StreamInv ==
  cmd.log_file /\ fails = 0 =>
    /\ Early => stream["main"] = "main"
    /\ Lit => stream["main"] = "main" /\ "main" \in open /\ file["main"] >= 0
    /\ InModel => \A w \in Writers : Alive(w) => stream[w] = w /\ w \in open

\* Reopening a log opens the path again, unless that fails.
LEMMA ReopenOwn ==
  ASSUME LogType, cmd.log_file, fails' = 0, NEW w \in Writers, NEW stdout \in Writers,
         GetLog(w, cmd.log_file, stdout)
  PROVE  /\ stream' = stream /\ fails = 0
         /\ file' = [file EXCEPT ![stream[w]] = renames]
         /\ open' = open \cup {stream[w]}
<1>1. fails' # fails + 1
  BY DEF LogType
<1>2. QED
  BY <1>1 DEF GetLog, ToPath, CannotOpen

LEMMA StreamStep ==
  ASSUME LogType, ModeInv, StreamInv, [Next]_vars
  PROVE  StreamInv'
<1> SUFFICES ASSUME cmd.log_file, fails' = 0, cmd' = cmd
             PROVE  StreamInv'
  BY LogMoves DEF StreamInv
<1> DEFINE Own(w) == stream[w] = w /\ w \in open
<1>0. {"main", "signal", "enq", "deq"} = Writers /\ renames \in Nat
  BY DEF Writers, LogType
<1>1. CASE Quiet
  <2>1. fails = 0 /\ UNCHANGED <<stream, file, open, wpc, mpc>>
    BY <1>1 DEF Quiet, logvars, streams, modelvars
  <2>2. (Early' => Early) /\ (Lit' => Lit) /\ (Before => mpc = "boot")
    BY <1>1, <2>1 DEF Quiet, ModeInv
  <2>3. InModel' => InModel
    BY <1>1, <2>1, <2>2 DEF Quiet, InModel, Before
  <2>4. QED
    BY <2>1, <2>2, <2>3 DEF StreamInv, Alive
<1>2. CASE StartUp
  <2>1. /\ jpc = "options" /\ jpc' \in {"gone", "fork", "log"} /\ fails = 0
        /\ UNCHANGED stream
    BY <1>2 DEF StartUp, ExitWith, Goto, CloseLog, streams
  <2>2. QED
    BY <2>1 DEF StreamInv, Early, Lit, InModel
<1>3. CASE ReopenLog
  <2>1. jpc = "log" /\ jpc' = "pid" /\ GetLog("main", cmd.log_file, "main")
    BY <1>3 DEF ReopenLog, Goto
  <2>2. /\ stream' = stream /\ fails = 0
        /\ file' = [file EXCEPT ![stream["main"]] = renames]
        /\ open' = open \cup {stream["main"]}
    BY <1>0, <2>1, ReopenOwn
  <2>3. QED
    BY <1>0, <2>1, <2>2 DEF StreamInv, Early, Lit, InModel, LogType
<1>4. CASE Finish
  BY <1>4 DEF Finish, Goto, StreamInv, Early, Lit, InModel
<1>5. CASE Install
  <2>1. /\ jpc = "model" /\ jpc' = "model" /\ fails = 0
        /\ UNCHANGED <<stream, file, open, wpc>> /\ Before
    BY <1>5 DEF Install, startvars, logvars, streams, Before
  <2>2. QED
    BY <2>1 DEF StreamInv, Early, Lit, InModel, Alive, ModeInv
<1>6. ASSUME InModel, jpc' = jpc, fails = 0, stream' = stream, open \subseteq open',
             file'["main"] >= 0, \A w \in Writers : Alive(w)' => Alive(w)
      PROVE  StreamInv'
  BY <1>6 DEF InModel, StreamInv, Early, Lit
<1>7. ASSUME InModel, NEW w \in Writers, NEW stdout \in Writers,
             Reopen(w, cmd.log_file, stdout), w = "main" \/ Alive(w), jpc' = jpc,
             \A v \in Writers : Alive(v)' => Alive(v)
      PROVE  StreamInv'
  <2>1. /\ stream' = stream /\ fails = 0
        /\ file' = [file EXCEPT ![stream[w]] = renames]
        /\ open' = open \cup {stream[w]}
    BY <1>7, ReopenOwn DEF Reopen
  <2>2. file["main"] >= 0
    BY <1>7, <2>1 DEF StreamInv, InModel, Lit
  <2>3. file'["main"] >= 0
    BY <1>0, <2>1, <2>2 DEF LogType
  <2>4. QED
    BY <1>6, <1>7, <2>1, <2>3
<1>8. CASE MainReopen \/ SupervisorReopen \/ SignalThread
  <2>1. InModel /\ jpc' = jpc /\ UNCHANGED wpc
    BY <1>8 DEF MainReopen, SupervisorReopen, SignalThread, startvars
  <2>2. \A v \in Writers : Alive(v)' => Alive(v)
    BY <2>1 DEF Alive
  <2>3. CASE \/ Reopen("main", cmd.log_file, "main")
             \/ Reopen("signal", cmd.log_file, "main") /\ wpc["signal"] = "loop"
    BY <1>0, <1>7, <2>1, <2>2, <2>3 DEF Alive
  <2>4. CASE UNCHANGED <<streams, fails>>
    <3>1. fails = 0 /\ UNCHANGED <<stream, file, open>>
      BY <2>4 DEF streams
    <3>2. QED
      BY <1>6, <2>1, <2>2, <3>1 DEF StreamInv, InModel, Lit
  <2>5. QED
    BY <1>8, <2>3, <2>4 DEF MainReopen, SupervisorReopen, SignalThread
<1>9. CASE MainOff \/ Wait \/ Forward \/ OtherSignal
  <2>1. InModel /\ jpc' = jpc /\ fails = 0 /\ UNCHANGED <<stream, file, open>>
    BY <1>9 DEF MainOff, Wait, Forward, OtherSignal, startvars, logvars, streams
  <2>2. \A v \in Writers : Alive(v)' => Alive(v)
    BY <1>9 DEF MainOff, Wait, Forward, OtherSignal, Alive
  <2>3. QED
    BY <1>6, <2>1, <2>2 DEF StreamInv, InModel, Lit
<1>10. CASE Signal \/ Terminate \/ LogRotate
  <2>1. /\ fails = 0 /\ UNCHANGED <<stream, file, open, wpc>>
    BY <1>10 DEF Signal, Terminate, LogRotate, Usr1, Rename, logvars, streams, modelvars
  <2>2. jpc' = jpc \/ jpc' = "gone"
    BY <1>10 DEF Signal, Terminate, LogRotate, ExitWith, Goto, startvars
  <2>3. InModel' => InModel
    BY <1>10, <2>2 DEF Signal, Terminate, LogRotate, modelvars, InModel
  <2>4. QED
    BY <2>1, <2>2, <2>3 DEF StreamInv, Early, Lit, Alive
<1>11. ASSUME NEW w \in Writers, ChildStep(w) \/ WorkerOff(w) \/ WorkerReopen(w)
       PROVE  StreamInv'
  <2>1. /\ InModel /\ jpc' = jpc /\ Alive(w)
        /\ \A v \in Writers : Alive(v)' => Alive(v)
    BY <1>11 DEF ChildStep, WorkerOff, WorkerReopen, startvars, Alive, LogType
  <2>2. CASE WorkerReopen(w)
    <3>1. Stdout(w) \in Writers
      BY <1>0 DEF Stdout
    <3>2. QED
      BY <1>7, <2>1, <2>2, <3>1 DEF WorkerReopen
  <2>3. CASE UNCHANGED <<streams, fails>>
    <3>1. fails = 0 /\ UNCHANGED <<stream, file, open>>
      BY <2>3 DEF streams
    <3>2. QED
      BY <1>6, <2>1, <3>1 DEF StreamInv, InModel, Lit
  <2>4. QED
    BY <1>11, <2>2, <2>3 DEF ChildStep, WorkerOff, logvars, streams
<1>12. ASSUME NEW w \in Writers, StartChild(w) \/ StartThread(w)
       PROVE  StreamInv'
  <2>1. /\ InModel /\ jpc' = jpc /\ fails = 0 /\ w # "main"
        /\ stream' = [stream EXCEPT ![w] = w] /\ open' = open \cup {w}
        /\ \E n : file' = [file EXCEPT ![w] = n]
        /\ \A v \in Writers \ {w} : wpc'[v] = wpc[v]
    <3>1. CASE StartChild(w)
      BY <3>1 DEF StartChild, startvars, Children, LogType
    <3>2. CASE StartThread(w)
      <4>1. fails' # fails + 1
        BY DEF LogType
      <4>2. QED
        BY <3>2, <4>1 DEF StartThread, NewLog, ToPath, CannotOpen, startvars, LogType
    <3>3. QED
      BY <1>12, <3>1, <3>2
  <2>2. file'["main"] = file["main"] /\ stream'["main"] = stream["main"]
    BY <1>0, <2>1 DEF LogType
  <2>3. \A v \in Writers : Alive(v)' => stream'[v] = v /\ v \in open'
    <3>1. ASSUME NEW v \in Writers, Alive(v)', v # w
          PROVE  stream'[v] = v /\ v \in open'
      BY <2>1, <3>1 DEF StreamInv, Alive, LogType
    <3>2. stream'[w] = w /\ w \in open'
      BY <2>1 DEF LogType
    <3>3. QED
      BY <3>1, <3>2
  <2>4. QED
    BY <2>1, <2>2, <2>3 DEF StreamInv, InModel, Lit
<1>13. ASSUME NEW w \in Writers, EndThread(w)
       PROVE  StreamInv'
  <2>1. /\ InModel /\ jpc' = jpc /\ fails = 0 /\ w # "main" /\ wpc[w] = "loop"
        /\ stream' = stream /\ open' = open \ {stream[w]} /\ file' = file
        /\ \A v \in Writers : Alive(v)' => Alive(v) /\ v # w
    BY <1>13 DEF EndThread, CloseLog, startvars, Alive, LogType
  <2>2. stream[w] = w
    BY <2>1 DEF StreamInv, Alive
  <2>3. QED
    BY <1>0, <2>1, <2>2 DEF StreamInv, InModel, Lit
<1>14. QED
  BY <1>1, <1>2, <1>3, <1>4, <1>5, <1>8, <1>9, <1>10, <1>11, <1>12, <1>13, LogMoves

-----------------------------------------------------------------------------
(* Signals are served *)

\* The reopening of w is before it: in its switch, or it opens the path when
\* it starts.
Excused(w) == switch[w] \/ (w # "main" /\ wpc[w] \in {"off", "dead", "end"})

\* Where the reopening of a writer that is behind is to come from; and how
\* the supervisor, which is in wait or just after it, has the signal.
ServedInv ==
  InModel /\ cmd.log_file /\ fails = 0 =>
    /\ \A w \in Writers :
         Behind(w) => \/ pending \/ Excused(w)
                      \/ Type = "process" /\ mpc \in {"eintr", "off_switch"}
    /\ Type = "process" =>
         /\ mpc \in {"check", "start", "wait"} /\ switch["main"] => "main" \in missed
         /\ mpc = "off_switch" => ~Behind("main")
         /\ mpc = "eintr" /\ ~switch["main"] => \A w \in Writers : Behind(w) => Excused(w)

\* A model that runs was already running, or has just been entered; and a
\* failure of the log is for ever.
LEMMA ModelStays ==
  ASSUME LogType, ModeInv, [Next]_vars, InModel', fails' = 0
  PROVE  fails = 0 /\ jpc = "model" /\ (InModel \/ Install)
<1>1. fails + 1 # 0
  BY DEF LogType
<1>2. CASE Quiet
  <2>1. mpc' # "boot" /\ mpc' = mpc /\ fails' = fails /\ jpc \in {"pid", "model"}
    BY <1>2 DEF Quiet, InModel, logvars, modelvars
  <2>2. jpc = "model" /\ mpc # "boot"
    BY <2>1 DEF ModeInv, Before
  <2>3. QED
    BY <2>1, <2>2 DEF InModel
<1>3. CASE StartUp \/ ReopenLog \/ Finish
  BY <1>3 DEF StartUp, ReopenLog, Finish, ExitWith, Goto, InModel
<1>4. CASE \/ Install \/ MainReopen \/ MainOff \/ Wait \/ SupervisorReopen \/ Forward
           \/ OtherSignal \/ SignalThread
  BY <1>1, <1>4 DEF Install, MainReopen, MainOff, Wait, SupervisorReopen, Forward,
                    OtherSignal, SignalThread, InModel, logvars, Reopen, GetLog, ToPath, CannotOpen
<1>5. CASE Signal \/ LogRotate \/ Terminate
  BY <1>5 DEF Signal, LogRotate, Terminate, ExitWith, Goto, Usr1, Rename, InModel, logvars,
              startvars, modelvars
<1>6. ASSUME NEW w \in Writers, \/ StartChild(w) \/ StartThread(w) \/ WorkerReopen(w)
                                \/ WorkerOff(w) \/ ChildStep(w) \/ EndThread(w)
      PROVE  fails = 0 /\ InModel
  BY <1>1, <1>6 DEF StartChild, StartThread, WorkerReopen, WorkerOff, ChildStep, EndThread,
                    logvars, Reopen, GetLog, NewLog, ToPath, CannotOpen
<1>7. QED
  BY <1>2, <1>3, <1>4, <1>5, <1>6, LogMoves DEF InModel, Install

\* A reopening puts the writer on the file at the path and nobody else.
LEMMA ReopenServes ==
  ASSUME LogType, StreamInv, InModel, cmd.log_file, fails' = 0, NEW stdout \in Writers,
         NEW w \in Writers, w = "main" \/ Alive(w), Reopen(w, cmd.log_file, stdout)
  PROVE  /\ ~Behind(w)'
         /\ \A v \in Writers \ {w} :
              v = "main" \/ Alive(v) => (Behind(v)' => Behind(v))
<1>1. /\ stream' = stream /\ fails = 0 /\ asked' = asked
      /\ file' = [file EXCEPT ![stream[w]] = renames] /\ missed' = missed \ {w}
  BY ReopenOwn DEF Reopen
<1>2. \A v \in Writers : v = "main" \/ Alive(v) => stream[v] = v
  BY <1>1 DEF StreamInv, InModel, Lit
<1>3. file'[w] = renames /\ \A v \in Writers \ {w} : file'[v] = file[v]
  BY <1>1, <1>2 DEF LogType
<1>4. ~(renames < asked)
  BY DEF LogType
<1>5. stream'[w] = w
  BY <1>1, <1>2
<1>6. ~Behind(w)'
  BY <1>1, <1>3, <1>4, <1>5 DEF Behind
<1>7. ASSUME NEW v \in Writers \ {w}, v = "main" \/ Alive(v), Behind(v)'
      PROVE  Behind(v)
  <2>1. stream[v] = v /\ stream'[v] = v /\ file'[v] = file[v]
    BY <1>1, <1>2, <1>3, <1>7
  <2>2. QED
    BY <1>1, <1>7, <2>1 DEF Behind
<1>8. QED
  BY <1>6, <1>7

LEMMA ServedStep ==
  ASSUME LogType, ModeInv, StreamInv, ServedInv, [Next]_vars
  PROVE  ServedInv'
<1> SUFFICES ASSUME cmd.log_file, fails' = 0, fails = 0, cmd' = cmd, jpc = "model", InModel',
                    InModel \/ Install
             PROVE  ServedInv'
  BY LogMoves, ModelStays DEF ServedInv
<1>0. {"main", "signal", "enq", "deq"} = Writers
  BY DEF Writers
<1>1. CASE Install
  <2>1. /\ UNCHANGED <<wpc, pending, stream, file, asked, missed, switch>>
        /\ mpc' = IF Type = "process" THEN "check" ELSE "loop"
        /\ Before /\ Lit
    BY <1>1 DEF Install, Before, Lit, logvars, streams
  <2>2. file["main"] >= 0 /\ stream["main"] = "main" /\ asked = 0 /\ ~switch["main"]
        /\ \A w \in Writers : wpc[w] = "off"
    BY <1>0, <2>1 DEF StreamInv, ModeInv
  <2>3. ~Behind("main")'
    BY <1>0, <2>1, <2>2 DEF Behind, LogType, NoLog
  <2>4. \A w \in Writers : Behind(w)' => Excused(w)'
    BY <2>1, <2>2, <2>3 DEF Excused
  <2>5. QED
    BY <2>1, <2>2, <2>4 DEF ServedInv
<1> SUFFICES ASSUME InModel
             PROVE  ServedInv'
  BY <1>1
<1>own. \A v \in Writers : v = "main" \/ Alive(v) => stream[v] = v
  BY DEF StreamInv, InModel, Lit
<1>alive. \A v \in Writers : v = "main" \/ Alive(v) \/ Excused(v)
  BY DEF LogType, WriterState, Alive, Excused
<1>2. CASE Quiet
  BY <1>2 DEF Quiet, modelvars, logvars, streams, ServedInv, Behind, Excused, Type
\* what the steps of the writers keep
<1>3. ASSUME mpc' = mpc, pending' = pending, switch'["main"] = switch["main"],
             "main" \in missed => "main" \in missed', Behind("main")' => Behind("main"),
             \A v \in Writers : Behind(v)' => Excused(v)' \/ (Behind(v) /\ ~Excused(v))
      PROVE  ServedInv'
  BY <1>3 DEF ServedInv, Type
\* and a step that leaves everything but the place of the main process
<1>4. ASSUME UNCHANGED <<stream, file, asked, wpc, pending, switch, missed>>
      PROVE  \A v \in Writers : (Behind(v)' <=> Behind(v)) /\ (Excused(v)' <=> Excused(v))
  BY <1>4 DEF Behind, Excused
<1>5. CASE MainReopen
  <2>1. /\ Type # "process" /\ UNCHANGED <<wpc, pending, switch>>
        /\ Reopen("main", cmd.log_file, "main")
    BY <1>5 DEF MainReopen
  <2>2. /\ ~Behind("main")'
        /\ \A v \in Writers \ {"main"} : Alive(v) => (Behind(v)' => Behind(v))
    BY <1>0, <2>1, ReopenServes
  <2>3. \A v \in Writers : Excused(v)' <=> Excused(v)
    BY <2>1 DEF Excused
  <2>4. QED
    BY <1>alive, <2>1, <2>2, <2>3 DEF ServedInv, Type
<1>6. CASE MainOff
  <2>1. /\ Type # "process" /\ UNCHANGED <<wpc, pending, stream, file, asked>>
        /\ SwitchOff("main")
    BY <1>6 DEF MainOff, streams
  <2>2. /\ ~Behind("main")'
        /\ \A v \in Writers : Behind(v)' => Behind(v)
    BY <1>0, <2>1 DEF Behind, SwitchOff
  <2>3. \A v \in Writers \ {"main"} : Excused(v)' <=> Excused(v)
    BY <2>1 DEF Excused, SwitchOff, LogType
  <2>4. QED
    BY <2>1, <2>2, <2>3 DEF ServedInv, Type
<1>7. CASE Wait
  <2>1. /\ Type = "process" /\ UNCHANGED <<stream, file, asked, wpc, pending, switch, missed>>
        /\ mpc \in {"check", "start", "wait"} /\ mpc' \in {"check", "start", "wait"}
    BY <1>7 DEF Wait, logvars, streams
  <2>2. QED
    BY <1>4, <2>1 DEF ServedInv, Type
<1>8. CASE SupervisorReopen /\ switch["main"]
  <2>1. /\ Type = "process" /\ Reopen("main", cmd.log_file, "main") /\ mpc' = "off_switch"
    BY <1>8 DEF SupervisorReopen, ModeInv
  <2>2. ~Behind("main")'
    BY <1>0, <2>1, ReopenServes
  <2>3. QED
    BY <2>1, <2>2 DEF ServedInv, Type
<1>9. CASE SupervisorReopen /\ ~switch["main"]
  <2>1. /\ Type = "process" /\ UNCHANGED <<stream, file, asked, wpc, pending, switch, missed>>
        /\ mpc = "eintr" /\ mpc' = "check"
    BY <1>9 DEF SupervisorReopen, ModeInv, streams
  <2>2. QED
    BY <1>4, <1>9, <2>1 DEF ServedInv, Type
<1>10. CASE Forward
  <2>1. /\ Type = "process" /\ mpc = "off_switch" /\ mpc' = "check"
        /\ UNCHANGED <<stream, file, asked, pending>>
    BY <1>10 DEF Forward, streams
  <2>2. /\ switch' = [v \in Writers |->
                        IF v \in Children THEN switch[v] \/ wpc[v] \in {"loop", "off_switch"}
                        ELSE FALSE]
        /\ wpc' = [v \in Writers |-> IF v \in Children /\ wpc[v] = "boot" THEN "dead"
                                     ELSE wpc[v]]
        /\ missed' = missed \cup {v \in Children : wpc[v] = "fork"}
    BY <1>10 DEF Forward
  <2>3. ~switch'["main"] /\ \A v \in Writers : Behind(v)' => Behind(v)
    BY <1>0, <2>1, <2>2 DEF Behind, Children
  <2>4. ~Behind("main")
    BY <2>1 DEF ServedInv
  <2>5. ASSUME NEW v \in Children, Behind(v)'
        PROVE  Excused(v)'
    <3>1. v \in Writers /\ v # "main" /\ wpc[v] # "fork" /\ wpc[v] # "end"
      BY <2>1, <2>2, <2>5 DEF Behind, Children, Writers, ModeInv
    <3>2. wpc[v] \in {"off", "boot", "loop", "off_switch", "dead"}
      BY <3>1 DEF LogType, WriterState
    <3>3. QED
      BY <2>2, <2>5, <3>1, <3>2 DEF Excused
  <2>6. Excused("signal")'
    BY <1>0, <2>1, <2>2 DEF Excused, ModeInv, Children
  <2>7. QED
    BY <1>0, <2>1, <2>3, <2>4, <2>5, <2>6 DEF ServedInv, Type, Children
<1>11. CASE Signal
  <2>1. /\ UNCHANGED wpc /\ pending' = (pending \/ Type = "thread")
        /\ switch' = [switch EXCEPT !["main"] = @ \/ Type # "thread"]
        /\ mpc' = IF mpc = "wait" THEN "eintr" ELSE mpc
        /\ missed' = IF Type = "process" /\ mpc # "wait"
                     THEN missed \cup {"main", "enq", "deq"} ELSE missed
    BY <1>11 DEF Signal
  <2>2. CASE Type = "thread"
    BY <2>1, <2>2 DEF ServedInv, Type
  <2>3. CASE Type = "serial"
    <3>1. \A v \in Writers : Excused(v)'
      BY <1>0, <2>1, <2>3 DEF Excused, ModeInv, LogType
    <3>2. QED
      BY <2>3, <3>1 DEF ServedInv, Type
  <2>4. CASE Type = "process"
    <3>1. switch'["main"]
      BY <1>0, <2>1, <2>4 DEF LogType
    <3>2. CASE mpc = "wait"
      BY <2>1, <2>4, <3>1, <3>2 DEF ServedInv, Type
    <3>3. CASE mpc # "wait"
      <4>1. {"main", "enq", "deq"} \subseteq missed' /\ Excused("signal")'
        BY <1>0, <2>1, <2>4, <3>3 DEF Excused, ModeInv
      <4>2. \A v \in Writers : Behind(v)' => Excused(v)'
        BY <1>0, <4>1 DEF Behind
      <4>3. ~Behind("main")'
        BY <4>1 DEF Behind
      <4>4. QED
        BY <3>1, <4>1, <4>2, <4>3 DEF ServedInv, Type
    <3>4. QED
      BY <3>2, <3>3
  <2>5. QED
    BY <2>2, <2>3, <2>4 DEF ModeInv, InModel
<1>12. CASE OtherSignal \/ Terminate
  <2>1. /\ UNCHANGED <<stream, file, asked, wpc, pending, switch, missed>>
        /\ mpc' = mpc \/ (mpc = "wait" /\ mpc' = "eintr")
    BY <1>12 DEF OtherSignal, Terminate, logvars, streams
  <2>2. mpc = "wait" => Type = "process" /\ ~pending
    BY DEF ModeInv
  <2>3. \A v \in Writers : (Behind(v)' <=> Behind(v)) /\ (Excused(v)' <=> Excused(v))
    BY <1>4, <2>1
  <2>4. CASE mpc' = mpc
    BY <1>3, <2>1, <2>3, <2>4, <1>0 DEF ServedInv
  <2>5. CASE mpc = "wait" /\ mpc' = "eintr"
    BY <2>1, <2>2, <2>3, <2>5 DEF ServedInv, Type
  <2>6. QED
    BY <2>1, <2>4, <2>5
<1>13. CASE LogRotate
  <2>1. /\ UNCHANGED <<stream, file, asked, wpc, pending, switch, missed, mpc>>
    BY <1>13 DEF LogRotate, Rename, modelvars, streams
  <2>2. \A v \in Writers : (Behind(v)' <=> Behind(v)) /\ (Excused(v)' <=> Excused(v))
    BY <1>4, <2>1
  <2>3. QED
    BY <1>0, <1>3, <2>1, <2>2
<1>14. CASE SignalThread
  <2>1. /\ UNCHANGED wpc /\ Reopen("signal", cmd.log_file, "main") /\ wpc["signal"] = "loop"
        /\ switch' = [w \in Writers |-> w # "signal"]
    BY <1>14 DEF SignalThread
  <2>2. Type # "process"
    BY <2>1 DEF ModeInv
  <2>3. ~Behind("signal")'
    BY <1>0, <2>1, ReopenServes DEF Alive
  <2>4. \A v \in Writers : Behind(v)' => Excused(v)'
    BY <2>1, <2>3 DEF Excused
  <2>5. QED
    BY <2>2, <2>4 DEF ServedInv, Type
<1>15. ASSUME NEW w \in Writers, WorkerReopen(w)
       PROVE  ServedInv'
  <2>1. /\ w \in {"enq", "deq"} /\ wpc[w] = "loop" /\ Reopen(w, cmd.log_file, Stdout(w))
        /\ wpc' = [wpc EXCEPT ![w] = "off_switch"] /\ UNCHANGED <<pending, mpc, switch>>
    BY <1>15 DEF WorkerReopen
  <2>2. Stdout(w) \in Writers /\ Alive(w)
    BY <1>0, <2>1 DEF Stdout, Alive
  <2>3. /\ ~Behind(w)'
        /\ \A v \in Writers \ {w} :
             v = "main" \/ Alive(v) => (Behind(v)' => Behind(v))
    BY <2>1, <2>2, ReopenServes
  <2>4. \A v \in Writers \ {w} : Excused(v)' <=> Excused(v)
    BY <2>1 DEF Excused, LogType
  <2>5. missed' = missed \ {w}
    BY <2>1 DEF Reopen
  <2>6. QED
    BY <1>0, <1>3, <1>alive, <2>1, <2>3, <2>4, <2>5
<1>16. ASSUME NEW w \in Writers, WorkerOff(w) \/ ChildStep(w) \/ EndThread(w)
       PROVE  ServedInv'
  <2>1. /\ UNCHANGED <<pending, mpc, stream, file, asked>> /\ w # "main"
        /\ missed \subseteq missed'
        /\ \A v \in Writers \ {w} : switch'[v] = switch[v] /\ wpc'[v] = wpc[v]
    BY <1>16 DEF WorkerOff, ChildStep, EndThread, CloseLog, SwitchOff, logvars, streams,
                 LogType, ModeInv
  <2>2. \A v \in Writers : Behind(v)' => Behind(v)
    BY <2>1 DEF Behind
  <2>3. Behind(w)' => Excused(w)' \/ ~Excused(w)
    <3>1. CASE WorkerOff(w)
      BY <2>1, <3>1 DEF WorkerOff, SwitchOff, Behind
    <3>2. CASE ChildStep(w)
      BY <3>2 DEF ChildStep, Excused, logvars
    <3>3. CASE EndThread(w)
      BY <2>1, <3>3 DEF EndThread, Excused, LogType
    <3>4. QED
      BY <1>16, <3>1, <3>2, <3>3
  <2>4. \A v \in Writers \ {w} : Excused(v)' <=> Excused(v)
    BY <2>1 DEF Excused
  <2>5. QED
    BY <1>0, <1>3, <2>1, <2>2, <2>3, <2>4
<1>17. ASSUME NEW w \in Writers, StartThread(w)
       PROVE  ServedInv'
  <2>1. /\ UNCHANGED <<pending, mpc, asked, switch, missed>> /\ w # "main"
        /\ stream' = [stream EXCEPT ![w] = w] /\ file' = [file EXCEPT ![w] = renames]
        /\ wpc' = [wpc EXCEPT ![w] = "loop"]
    <3>1. fails' # fails + 1
      BY DEF LogType
    <3>2. QED
      BY <1>17, <3>1 DEF StartThread, NewLog, ToPath, CannotOpen
  <2>2. stream'[w] = w /\ file'[w] = renames /\ ~(renames < asked)
    BY <2>1 DEF LogType
  <2>3. ~Behind(w)'
    BY <2>1, <2>2 DEF Behind
  <2>4. ASSUME NEW v \in Writers \ {w}, v = "main" \/ Alive(v), Behind(v)'
        PROVE  Behind(v)
    <3>1. stream[v] = v /\ stream'[v] = v /\ file'[v] = file[v]
      BY <1>own, <2>1, <2>4 DEF LogType
    <3>2. QED
      BY <2>1, <2>4, <3>1 DEF Behind
  <2>5. \A v \in Writers \ {w} : Excused(v)' <=> Excused(v)
    BY <2>1 DEF Excused, LogType
  <2>6. QED
    BY <1>0, <1>3, <1>alive, <2>1, <2>3, <2>4, <2>5
<1>18. ASSUME NEW w \in Writers, StartChild(w)
       PROVE  ServedInv'
  <2>1. /\ Type = "process" /\ mpc = "start" /\ w \in Children
        /\ UNCHANGED <<pending, mpc, asked>>
        /\ wpc' = [wpc EXCEPT ![w] = "fork"] /\ stream' = [stream EXCEPT ![w] = w]
        /\ file' = [file EXCEPT ![w] = IF cmd.nodaemonize THEN file["main"] ELSE NoLog]
        /\ switch' = [switch EXCEPT ![w] = FALSE]
        /\ missed' = IF cmd.nodaemonize /\ "main" \notin missed THEN missed \ {w}
                     ELSE missed \cup {w}
    BY <1>18 DEF StartChild
  <2>2. w # "main" /\ stream'[w] = w
    BY <2>1 DEF Children, LogType
  <2>3. ~Behind(w)'
    <3>1. SUFFICES ASSUME Behind(w)' PROVE FALSE
      OBVIOUS
    <3>2. cmd.nodaemonize /\ "main" \notin missed
      BY <2>1, <3>1 DEF Behind
    <3>3. file'[w] = file["main"] /\ stream["main"] = "main"
      BY <1>0, <1>own, <2>1, <3>2 DEF LogType
    <3>4. Behind("main")
      BY <2>1, <2>2, <3>1, <3>2, <3>3 DEF Behind
    <3>5. switch["main"]
      BY <1>0, <2>1, <3>4 DEF ServedInv, Excused, ModeInv
    <3>6. QED
      BY <2>1, <3>2, <3>5 DEF ServedInv
  <2>4. ASSUME NEW v \in Writers \ {w}, v = "main" \/ Alive(v), Behind(v)'
        PROVE  Behind(v)
    <3>1. stream[v] = v /\ stream'[v] = v /\ file'[v] = file[v] /\ (v \in missed => v \in missed')
      BY <1>own, <2>1, <2>4 DEF LogType
    <3>2. QED
      BY <2>1, <2>4, <3>1 DEF Behind
  <2>5. \A v \in Writers \ {w} : Excused(v)' <=> Excused(v)
    BY <2>1 DEF Excused, LogType
  <2>6. switch'["main"] = switch["main"] /\ ("main" \in missed => "main" \in missed')
    BY <1>0, <2>1, <2>2 DEF LogType
  <2>7. QED
    BY <1>0, <1>3, <1>alive, <2>1, <2>2, <2>3, <2>4, <2>5, <2>6
<1>19. CASE StartUp \/ ReopenLog \/ Finish
  BY <1>19 DEF StartUp, ReopenLog, Finish
<1>20. QED
  BY <1>1, <1>2, <1>5, <1>6, <1>7, <1>8, <1>9, <1>10, <1>11, <1>12, <1>13, <1>14, <1>15,
     <1>16, <1>17, <1>18, <1>19, LogMoves

-----------------------------------------------------------------------------
(* Once per signal *)

One(b) == IF b THEN 1 ELSE 0

\* A reopening of w that its switch will cause.
Raised(w) == switch[w] /\ (IF w = "main" THEN mpc ELSE wpc[w]) # "off_switch"

\* A signal that has not reached the switch of w.
Coming(w) ==
  \/ Type = "thread" /\ pending
  \/ Type = "process" /\ w \in Children /\ (switch["main"] \/ mpc = "off_switch")

\* The reopenings of a log, with those still to come, are no more than the
\* signals.
OnceInv ==
  Type # "serial" =>
    /\ ~switch["signal"]
    /\ \A w \in Writers : reopened[w] + One(Raised(w)) + One(Coming(w)) <= usr1

\* The ways in which a step moves a signal on.
LEMMA Credit ==
  ASSUME NEW c \in Nat, NEW u \in Nat, NEW c1 \in Nat, NEW u1 \in Nat,
         NEW R \in BOOLEAN, NEW C \in BOOLEAN, NEW R1 \in BOOLEAN, NEW C1 \in BOOLEAN,
         c + One(R) + One(C) <= u,
         \/ c1 = c /\ u1 = u /\ (R1 => R) /\ (C1 => C)
         \/ c1 = c /\ u1 = u /\ C /\ ~C1
         \/ c1 = c /\ u1 = u + 1 /\ ((R1 => R) \/ (C1 => C))
         \/ c1 <= c + 1 /\ u1 = u /\ R /\ ~R1 /\ (C1 => C)
         \/ c1 <= c + 1 /\ u1 = u /\ C /\ ~C1 /\ (R1 => R)
  PROVE  c1 + One(R1) + One(C1) <= u1
<1>1. CASE R /\ C
  BY <1>1 DEF One
<1>2. CASE R /\ ~C
  BY <1>2 DEF One
<1>3. CASE ~R /\ C
  BY <1>3 DEF One
<1>4. CASE ~R /\ ~C
  BY <1>4 DEF One
<1>5. QED
  BY <1>1, <1>2, <1>3, <1>4

LEMMA OnceStep ==
  ASSUME LogType, LogType', ModeInv, OnceInv, [Next]_vars
  PROVE  OnceInv'
<1> SUFFICES ASSUME Type # "serial", cmd' = cmd
             PROVE  OnceInv'
  BY LogMoves DEF OnceInv, Type
<1> DEFINE Moves(w) ==
             \/ /\ reopened'[w] = reopened[w] /\ usr1' = usr1
                /\ (Raised(w)' => Raised(w)) /\ (Coming(w)' => Coming(w))
             \/ reopened'[w] = reopened[w] /\ usr1' = usr1 /\ Coming(w) /\ ~Coming(w)'
             \/ /\ reopened'[w] = reopened[w] /\ usr1' = usr1 + 1
                /\ (Raised(w)' => Raised(w)) \/ (Coming(w)' => Coming(w))
             \/ /\ reopened'[w] <= reopened[w] + 1 /\ usr1' = usr1
                /\ Raised(w) /\ ~Raised(w)' /\ (Coming(w)' => Coming(w))
             \/ /\ reopened'[w] <= reopened[w] + 1 /\ usr1' = usr1
                /\ Coming(w) /\ ~Coming(w)' /\ (Raised(w)' => Raised(w))
<1>0. {"main", "signal", "enq", "deq"} = Writers /\ Children = {"enq", "deq"} /\ Type' = Type
  BY DEF Writers, Children, Type
<1>paid. ASSUME ~switch'["signal"], \A w \in Writers : Moves(w)
         PROVE  OnceInv'
  <2>1. ASSUME NEW w \in Writers
        PROVE  reopened'[w] + One(Raised(w)') + One(Coming(w)') <= usr1'
    <3>1. /\ reopened[w] \in Nat /\ reopened'[w] \in Nat /\ usr1 \in Nat /\ usr1' \in Nat
      BY LogFilesAssumption DEF LogType
    <3>2. /\ Raised(w) \in BOOLEAN /\ Raised(w)' \in BOOLEAN
          /\ Coming(w) \in BOOLEAN /\ Coming(w)' \in BOOLEAN
      BY DEF LogType, Raised, Coming
    <3>3. reopened[w] + One(Raised(w)) + One(Coming(w)) <= usr1
      BY DEF OnceInv
    <3>4. Moves(w)
      BY <1>paid
    <3>5. QED
      BY <3>1, <3>2, <3>3, <3>4, Credit
  <2>2. QED
    BY <1>paid, <2>1 DEF OnceInv, One
<1> HIDE DEF Moves
<1>same. ~switch["signal"]
  BY DEF OnceInv
<1>still. ASSUME UNCHANGED <<reopened, usr1, pending>>, ~switch'["signal"],
                 switch'["main"] = switch["main"], (mpc' = "off_switch" <=> mpc = "off_switch"),
                 \A w \in Writers : Raised(w)' => Raised(w)
          PROVE  OnceInv'
  <2>1. \A w \in Writers : Coming(w)' => Coming(w)
    BY <1>0, <1>still DEF Coming
  <2>2. QED
    BY <1>paid, <1>still, <2>1 DEF Moves
<1>1. CASE Quiet \/ StartUp \/ ReopenLog \/ Finish \/ Install \/ Wait \/ OtherSignal \/ LogRotate
  <2>1. /\ UNCHANGED <<reopened, usr1, pending, switch, wpc>>
        /\ mpc' = "off_switch" <=> mpc = "off_switch"
    BY <1>1 DEF Quiet, StartUp, ReopenLog, Finish, Install, Wait, OtherSignal, LogRotate, Rename,
                modelvars, logvars
  <2>2. \A w \in Writers : Raised(w)' => Raised(w)
    BY <2>1 DEF Raised
  <2>3. QED
    BY <1>same, <1>still, <2>1, <2>2
<1>2. CASE Terminate \/ (SupervisorReopen /\ ~switch["main"])
  <2>1. /\ UNCHANGED <<reopened, usr1, pending, switch, wpc>>
        /\ mpc' = "off_switch" <=> mpc = "off_switch"
    BY <1>2 DEF Terminate, SupervisorReopen, logvars
  <2>2. \A w \in Writers : Raised(w)' => Raised(w)
    BY <2>1 DEF Raised
  <2>3. QED
    BY <1>same, <1>still, <2>1, <2>2
<1>3. CASE MainOff
  <2>1. /\ UNCHANGED <<reopened, usr1, pending, wpc>> /\ mpc = "off_switch" /\ mpc' = "loop"
        /\ switch' = [switch EXCEPT !["main"] = FALSE] /\ Type = "thread"
    BY <1>3 DEF MainOff, SwitchOff, ModeInv
  <2>2. /\ ~switch'["main"] /\ \A w \in Writers \ {"main"} : switch'[w] = switch[w]
    BY <1>0, <2>1 DEF LogType
  <2>3. \A w \in Writers : Raised(w)' => Raised(w)
    BY <2>1, <2>2 DEF Raised
  <2>4. \A w \in Writers : Coming(w)' => Coming(w)
    BY <1>0, <2>1 DEF Coming
  <2>5. QED
    BY <1>0, <1>same, <1>paid, <2>1, <2>2, <2>3, <2>4 DEF Moves
<1>4. CASE Signal
  <2>1. UNCHANGED <<reopened, wpc>> /\ usr1' = usr1 + 1
    BY <1>4 DEF Signal, Usr1
  <2>2. CASE ~InModel
    <3>1. UNCHANGED <<pending, mpc, switch>>
      BY <1>4, <2>2 DEF Signal
    <3>2. \A w \in Writers : Raised(w)' => Raised(w)
      BY <2>1, <3>1 DEF Raised
    <3>3. QED
      BY <1>paid, <1>same, <2>1, <3>1, <3>2 DEF Moves
  <2>3. CASE InModel
    <3>1. /\ switch' = [switch EXCEPT !["main"] = @ \/ Type # "thread"]
          /\ mpc' = IF mpc = "wait" THEN "eintr" ELSE mpc
          /\ pending' = (pending \/ Type = "thread")
      BY <1>4, <2>3 DEF Signal
    <3>2. /\ \A w \in Writers \ {"main"} : switch'[w] = switch[w]
          /\ Type = "thread" => switch'["main"] = switch["main"]
      BY <1>0, <3>1 DEF LogType
    <3>3. \A w \in Writers : (Raised(w)' => Raised(w)) \/ (w = "main" /\ Type # "thread")
      BY <2>1, <3>1, <3>2 DEF Raised
    <3>4. Type # "thread" => (Coming("main")' => Coming("main"))
      BY <1>0 DEF Coming
    <3>5. QED
      BY <1>0, <1>paid, <1>same, <2>1, <3>2, <3>3, <3>4 DEF Moves
  <2>4. QED
    BY <2>2, <2>3
<1>5. ASSUME NEW n \in Nat, NEW m, m = (IF n > MaxUsr1 THEN n ELSE n + 1)
      PROVE  m <= n + 1
  BY <1>5, LogFilesAssumption
<1>6. ASSUME NEW w \in Writers, NEW given, NEW stdout, Reopen(w, given, stdout)
      PROVE  /\ usr1' = usr1 /\ reopened'[w] <= reopened[w] + 1
             /\ \A v \in Writers \ {w} : reopened'[v] = reopened[v]
  <2>1. /\ reopened' = [reopened EXCEPT ![w] = IF @ > MaxUsr1 THEN @ ELSE @ + 1]
        /\ usr1' = usr1
    BY <1>6 DEF Reopen
  <2>2. reopened'[w] = (IF reopened[w] > MaxUsr1 THEN reopened[w] ELSE reopened[w] + 1)
        /\ \A v \in Writers \ {w} : reopened'[v] = reopened[v]
    BY <2>1 DEF LogType
  <2>3. reopened[w] \in Nat
    BY DEF LogType
  <2>4. reopened'[w] <= reopened[w] + 1
    BY <1>5, <2>2, <2>3
  <2>5. QED
    BY <2>1, <2>2, <2>4
<1>7. CASE MainReopen \/ (SupervisorReopen /\ switch["main"])
  <2>1. /\ switch["main"] /\ mpc # "off_switch" /\ mpc' = "off_switch"
        /\ UNCHANGED <<pending, switch, wpc>> /\ Reopen("main", cmd.log_file, "main")
    BY <1>7 DEF MainReopen, SupervisorReopen
  <2>2. /\ usr1' = usr1 /\ reopened'["main"] <= reopened["main"] + 1
        /\ \A v \in Writers \ {"main"} : reopened'[v] = reopened[v]
    BY <1>0, <1>6, <2>1
  <2>3. /\ Raised("main") /\ ~Raised("main")'
        /\ \A v \in Writers \ {"main"} : Raised(v)' => Raised(v)
    BY <1>0, <2>1 DEF Raised
  <2>4. \A v \in Writers : Coming(v)' => Coming(v)
    BY <1>0, <2>1 DEF Coming
  <2>5. QED
    BY <1>0, <1>paid, <1>same, <2>1, <2>2, <2>3, <2>4 DEF Moves
<1>8. CASE SignalThread
  <2>1. /\ pending /\ ~pending' /\ UNCHANGED <<wpc, mpc>> /\ Type = "thread"
        /\ switch' = [v \in Writers |-> v # "signal"]
        /\ Reopen("signal", cmd.log_file, "main")
    BY <1>8 DEF SignalThread, ModeInv
  <2>2. /\ usr1' = usr1 /\ reopened'["signal"] <= reopened["signal"] + 1
        /\ \A v \in Writers \ {"signal"} : reopened'[v] = reopened[v]
    BY <1>0, <1>6, <2>1
  <2>3. ~switch'["signal"] /\ ~Raised("signal")'
    BY <1>0, <2>1 DEF Raised
  <2>4. \A v \in Writers : Coming(v) /\ ~Coming(v)'
    BY <1>0, <2>1 DEF Coming
  <2>5. QED
    BY <1>0, <1>paid, <2>2, <2>3, <2>4 DEF Moves
<1>9. ASSUME NEW w \in Writers, WorkerReopen(w)
      PROVE  OnceInv'
  <2>1. /\ w \in Children /\ wpc[w] = "loop" /\ switch[w] /\ Reopen(w, cmd.log_file, Stdout(w))
        /\ wpc' = [wpc EXCEPT ![w] = "off_switch"] /\ UNCHANGED <<pending, mpc, switch>>
    BY <1>0, <1>9 DEF WorkerReopen
  <2>2. /\ usr1' = usr1 /\ reopened'[w] <= reopened[w] + 1
        /\ \A v \in Writers \ {w} : reopened'[v] = reopened[v]
    BY <1>6, <2>1
  <2>3. /\ Raised(w) /\ ~Raised(w)'
        /\ \A v \in Writers \ {w} : Raised(v)' => Raised(v)
    BY <1>0, <2>1 DEF Raised, LogType
  <2>4. \A v \in Writers : Coming(v)' => Coming(v)
    BY <1>0, <2>1 DEF Coming
  <2>5. QED
    BY <1>paid, <1>same, <2>1, <2>2, <2>3, <2>4 DEF Moves
<1>10. CASE Forward
  <2>1. /\ Type = "process" /\ mpc = "off_switch" /\ mpc' = "check"
        /\ UNCHANGED <<reopened, usr1, pending>>
        /\ switch' = [v \in Writers |->
                        IF v \in Children THEN switch[v] \/ wpc[v] \in {"loop", "off_switch"}
                        ELSE FALSE]
    BY <1>10 DEF Forward
  <2>2. ~switch'["main"] /\ ~switch'["signal"]
    BY <1>0, <2>1
  <2>3. \A v \in Children : Coming(v) /\ ~Coming(v)'
    BY <1>0, <2>1, <2>2 DEF Coming, ModeInv
  <2>4. \A v \in Writers \ Children : ~Raised(v)' /\ ~Coming(v)'
    BY <1>0, <2>1, <2>2 DEF Raised, Coming
  <2>5. QED
    BY <1>0, <1>paid, <2>1, <2>2, <2>3, <2>4 DEF Moves
<1>11. ASSUME NEW w \in Writers, \/ StartChild(w) \/ StartThread(w)
                                 \/ WorkerOff(w) \/ ChildStep(w) \/ EndThread(w)
       PROVE  OnceInv'
  <2>1. /\ UNCHANGED <<reopened, usr1, pending, mpc>> /\ w # "main"
        /\ wpc[w] = "off_switch" => ~switch'[w]
        /\ switch'[w] => switch[w]
        /\ \A v \in Writers \ {w} : switch'[v] = switch[v] /\ wpc'[v] = wpc[v]
    BY <1>11 DEF StartChild, StartThread, WorkerOff, ChildStep, EndThread, SwitchOff, Children,
                 logvars, LogType, ModeInv
  <2>2. \A v \in Writers : Raised(v)' => Raised(v)
    BY <2>1 DEF Raised
  <2>3. ~switch'["signal"] /\ switch'["main"] = switch["main"]
    BY <1>0, <1>same, <2>1
  <2>4. QED
    BY <1>still, <2>1, <2>2, <2>3
<1>12. QED
  BY <1>1, <1>2, <1>3, <1>4, <1>7, <1>8, <1>9, <1>10, <1>11, LogMoves

-----------------------------------------------------------------------------
(* The theorems *)

LEMMA LogStarts ==
  Init => LogType /\ ModeInv /\ StreamInv /\ ServedInv /\ OnceInv
<1> SUFFICES ASSUME Init
             PROVE  LogType /\ ModeInv /\ StreamInv /\ ServedInv /\ OnceInv
  OBVIOUS
<1>0. {"main", "signal", "enq", "deq"} = Writers
  BY DEF Writers
<1>1. /\ cmd \in CommandLines /\ jpc = "options" /\ gbl_done = FALSE /\ pending = FALSE
      /\ wpc = [w \in Writers |-> "off"] /\ mpc = "boot"
      /\ renames = 0 /\ fails = 0 /\ usr1 = 0 /\ asked = 0
      /\ stream = [w \in Writers |-> "main"] /\ file = [w \in Writers |-> NoLog]
      /\ open = {"main"} /\ switch = [w \in Writers |-> FALSE]
      /\ missed = {} /\ reopened = [w \in Writers |-> 0]
  BY DEF Init, LogInit
<1>2. LogType
  <2>1. cmd \in CommandLine
    BY <1>1, JournallerAssumption
  <2>2. NoLog \in NoLog..MaxRenames /\ 0 \in 0..MaxRenames /\ 0 \in 0..MaxUsr1
    BY LogFilesAssumption DEF NoLog
  <2>3. /\ renames \in 0..MaxRenames /\ usr1 \in 0..MaxUsr1
        /\ asked \in Nat /\ asked <= renames /\ fails \in Nat
    BY <1>1, <2>2
  <2>4. /\ stream \in [Writers -> Writers] /\ open \subseteq Writers
        /\ file \in [Writers -> NoLog..MaxRenames]
    BY <1>0, <1>1, <2>2
  <2>5. /\ wpc \in [Writers -> WriterState] /\ switch \in [Writers -> BOOLEAN]
        /\ reopened \in [Writers -> Nat] /\ missed \subseteq Writers
    BY <1>1 DEF WriterState
  <2>6. QED
    BY <1>1, <2>1, <2>3, <2>4, <2>5 DEF LogType
<1>3. ModeInv
  BY <1>0, <1>1 DEF ModeInv
<1>4. StreamInv /\ ServedInv
  BY <1>0, <1>1 DEF StreamInv, ServedInv, InModel, Lit
<1>5. OnceInv
  <2>1. \A w \in Writers : ~Raised(w) /\ ~Coming(w) /\ reopened[w] = 0
    BY <1>0, <1>1 DEF Raised, Coming
  <2>2. \A w \in Writers : One(Raised(w)) = 0 /\ One(Coming(w)) = 0
    BY <2>1 DEF One
  <2>3. QED
    BY <1>0, <1>1, <2>1, <2>2 DEF OnceInv
<1>6. QED
  BY <1>2, <1>3, <1>4, <1>5

LEMMA LogHolds == Spec => [](LogType /\ ModeInv /\ StreamInv)
<1>1. LogType /\ ModeInv /\ StreamInv /\ [Next]_vars
        => LogType' /\ ModeInv' /\ StreamInv'
  BY LogTypeStep, ModeStep, StreamStep
<1>2. QED
  BY <1>1, LogStarts, PTL DEF Spec

LEMMA TimerHolds == Spec => []TimerInv
  BY TimerStarts, TimerStep, PTL DEF Spec

\* While a model runs the pid file names the process that runs it, whatever
\* other journallers do with the file; and a normal end leaves none.
THEOREM PidCorrect == Spec => []PidFileCorrect
<1>1. StageInv /\ PidInv /\ LogType /\ TimerInv => TypeOK
  BY DEF StageInv, PidInv, LogType, TimerInv, TypeOK, WriterState
<1>2. StageInv /\ PidInv => PidFileNames /\ PidFileLeft
  BY DEF StageInv, PidInv, LastPid, PidFileNames, PidFileLeft
<1>3. StageInv /\ PidInv /\ LogType /\ TimerInv => PidFileCorrect
  BY <1>1, <1>2 DEF PidFileCorrect
<1>4. QED
  BY <1>3, StageHolds, LogHolds, TimerHolds, PTL

\* The exit status that the caller sees means what it seems to.
THEOREM StatusCorrect == Spec => []StatusMeans
<1>1. StageInv => StatusMeans
  BY DEF StageInv, StatusMeans
<1>2. QED
  BY <1>1, StageHolds, PTL

\* A writer that logs to a file renamed before a SIGUSR1 will reopen its
\* log, in each model, with the exceptions that the history missed names.
THEOREM NotForgottenCorrect == Spec => []LogNotForgotten
<1>1. LogType /\ ModeInv /\ StreamInv /\ ServedInv /\ [Next]_vars => ServedInv'
  BY ServedStep
<1>2. ServedInv => LogNotForgotten
  <2> SUFFICES ASSUME ServedInv, InModel, cmd.log_file, NEW w \in Writers, Behind(w)
               PROVE  \/ pending \/ switch[w]
                      \/ mpc \in {"eintr", "off_switch"} /\ Type = "process"
                      \/ w # "main" /\ wpc[w] \in {"off", "dead", "end"}
    BY DEF LogNotForgotten
  <2>1. fails = 0
    BY DEF Behind
  <2>2. QED
    BY <2>1 DEF ServedInv, Excused
<1>3. QED
  BY <1>1, <1>2, LogStarts, LogHolds, PTL DEF Spec

\* A log is reopened at most once per SIGUSR1, in the models that put their
\* switches off; and nobody writes to a stream that was closed.
THEOREM LogsCorrect == Spec => []LogsSound
<1>1. LogType /\ LogType' /\ ModeInv /\ OnceInv /\ [Next]_vars => OnceInv'
  BY OnceStep
<1>2. LogType /\ StreamInv /\ OnceInv => LogsSound
  <2> SUFFICES ASSUME LogType, StreamInv, OnceInv
               PROVE  LogsSound
    OBVIOUS
  <2>1. OncePerSignal
    <3> SUFFICES ASSUME Type # "serial", NEW w \in Writers
                 PROVE  reopened[w] <= usr1
      BY DEF OncePerSignal
    <3>1. reopened[w] + One(Raised(w)) + One(Coming(w)) <= usr1
      BY DEF OnceInv
    <3>2. reopened[w] \in Nat /\ usr1 \in Nat
      BY LogFilesAssumption DEF LogType
    <3>3. One(Raised(w)) \in {0, 1} /\ One(Coming(w)) \in {0, 1}
      BY DEF One
    <3>4. QED
      BY <3>1, <3>2, <3>3
  <2>2. NoClosedStream
    BY DEF NoClosedStream, StreamInv, Lit, Alive
  <2>3. QED
    BY <2>1, <2>2 DEF LogsSound
<1>3. QED
  BY <1>1, <1>2, LogStarts, LogHolds, PTL DEF Spec

\* Every alarm comes on a round interval of the day, late by less than a
\* millisecond and the time between the two system calls.
THEOREM RoundCorrect == Spec => []TimerRound
  BY TimerHolds, TimerMeans, PTL

=============================================================================
