------------------------------- MODULE Alarms -------------------------------
(***************************************************************************)
(* The HAL's tick counter and alarms: alt_tick.c, alt_alarm_start.c and    *)
(* the system clock driver altera_avalon_timer_sc.c.  The counter is a     *)
(* word that wraps; a flag keeps an alarm set for after the wrap from      *)
(* running before it.  alt_tick runs in the timer's interrupt handler with *)
(* interrupts disabled, and the others disable them, so each is one step.  *)
(***************************************************************************)
EXTENDS Integers

CONSTANTS
  Alarms,           \* the alt_alarm structures of the drivers
  Wrap,             \* values of an alt_u32, 2^32
  MaxInterval       \* the longest interval asked for, in ticks

\* With an interval of Wrap - 1 ticks, time would be the present tick: the
\* flag would not be set and the callback would run at the next one.
ASSUME AlarmAssumption ==
  /\ Wrap \in Nat /\ MaxInterval \in Nat
  /\ 0 < MaxInterval /\ MaxInterval + 1 < Wrap

VARIABLES
  tick_rate,        \* _alt_tick_rate is set: there is a system clock
  nticks,           \* _alt_nticks
  list,             \* alt_alarm_list
  time, rollover,   \* of each alarm
  fired             \* the alarms whose callback ran at the last tick

vars == <<tick_rate, nticks, list, time, rollover, fired>>

Ticks     == 0 .. (Wrap - 1)
Intervals == 0 .. MaxInterval
Word(n)   == n % Wrap

Init ==
  /\ tick_rate = FALSE
  /\ nticks = 0
  /\ list = {}
  /\ time = [a \in Alarms |-> 0]
  /\ rollover = [a \in Alarms |-> FALSE]
  /\ fired = {}

\* The timer is started and its interrupt enabled.
alt_avalon_timer_sc_init ==
  /\ ~tick_rate
  /\ tick_rate' = TRUE
  /\ UNCHANGED <<nticks, list, time, rollover, fired>>

\* Without a clock the call fails and changes nothing; nothing keeps a caller
\* from registering an alarm twice, so the callers do not.
alt_alarm_start(a, n) ==
  /\ tick_rate
  /\ a \notin list
  /\ list' = list \cup {a}
  /\ time' = [time EXCEPT ![a] = Word(n + nticks + 1)]
  /\ rollover' = [rollover EXCEPT ![a] = time'[a] < nticks]
  /\ UNCHANGED <<tick_rate, nticks, fired>>

alt_alarm_stop(a) ==
  /\ a \in list
  /\ list' = list \ {a}
  /\ UNCHANGED <<tick_rate, nticks, time, rollover, fired>>

\* The flag is cleared when the counter itself rolls over.
Waits(a) == rollover[a] /\ nticks' # 0

Due(a) == a \in list /\ time[a] <= nticks' /\ ~Waits(a)

\* Mutant: the flag is looked at only when the alarm is started.
RescheduledWithoutFlag(answer) ==
  /\ time' = [a \in Alarms |-> IF Due(a) /\ answer[a] # 0 THEN Word(time[a] + answer[a]) ELSE time[a]]
  /\ rollover' = [a \in Alarms |-> a \in list /\ Waits(a)]

\* The next run is counted from the time the callback was due.
Rescheduled(answer) ==
  /\ time' = [a \in Alarms |-> IF Due(a) /\ answer[a] # 0 THEN Word(time[a] + answer[a]) ELSE time[a]]
  /\ rollover' = [a \in Alarms |->
       IF a \notin list THEN rollover[a]
       ELSE IF Due(a) /\ answer[a] # 0 THEN time'[a] < nticks' ELSE Waits(a)]

\* Each callback returns its next interval; 0 takes the alarm off the list.
alt_tick ==
  /\ tick_rate
  /\ nticks' = Word(nticks + 1)
  /\ \E answer \in [Alarms -> Intervals] :
       /\ Rescheduled(answer)
       /\ list' = {a \in list : Due(a) => answer[a] # 0}
  /\ fired' = {a \in Alarms : Due(a)}
  /\ UNCHANGED tick_rate

Next ==
  \/ alt_avalon_timer_sc_init
  \/ alt_tick
  \/ \E a \in Alarms : alt_alarm_stop(a) \/ \E n \in Intervals : alt_alarm_start(a, n)

Spec == Init /\ [][Next]_vars

(***************************************************************************)
(* Properties.                                                             *)
(***************************************************************************)
\* What the three comparisons of alt_tick.c and alt_alarm_start.c amount to.
Left == [a \in Alarms |->
  IF a \notin list THEN 0 ELSE IF rollover[a] THEN time[a] + Wrap - nticks ELSE time[a] - nticks]

Promise == INSTANCE Countdown WITH left <- Left

\* Callbacks run at the tick they were asked for, across the wrap of the tick
\* counter, however alarms are started, rescheduled and stopped: the alarms
\* implement Countdown.
AlarmsCountDown == Promise!CountdownSpec

(***************************************************************************)
(* The inductive invariant behind it.                                      *)
(***************************************************************************)
TypeOK ==
  /\ tick_rate \in BOOLEAN
  /\ nticks \in Ticks
  /\ list \subseteq Alarms
  /\ time \in [Alarms -> Ticks]
  /\ rollover \in [Alarms -> BOOLEAN]
  /\ fired \subseteq Alarms

\* A registered alarm is ahead of the counter by no more than an interval, on
\* the side of the wrap that its flag says.
Ahead ==
  \A a \in list :
    IF rollover[a] THEN time[a] < nticks /\ time[a] + Wrap - nticks \in 1 .. (MaxInterval + 1)
    ELSE time[a] - nticks \in 1 .. (MaxInterval + 1)

IndInv == TypeOK /\ Ahead
=============================================================================
