----------------------------- MODULE Countdown -----------------------------
(***************************************************************************)
(* What the HAL's alarms promise: a callback runs at the tick it was asked *)
(* for, neither earlier nor later nor twice, and the interval it returns   *)
(* is the distance to its next run, wherever the tick counter stands.      *)
(***************************************************************************)
EXTENDS Integers

CONSTANTS
  Alarms,
  MaxInterval       \* the longest interval asked for, in ticks

VARIABLES
  left,             \* ticks until the callback runs, 0 when it will not
  fired             \* the alarms whose callback ran at the last tick

countdownVars == <<left, fired>>

Intervals == 0 .. MaxInterval

CountdownInit ==
  /\ left = [a \in Alarms |-> 0]
  /\ fired = {}

\* alt_alarm_start: after the tick in progress and the interval.
Set(a, n) ==
  /\ left[a] = 0
  /\ left' = [left EXCEPT ![a] = n + 1]
  /\ UNCHANGED fired

Cancel(a) ==
  /\ left[a] > 0
  /\ left' = [left EXCEPT ![a] = 0]
  /\ UNCHANGED fired

\* Each callback that runs returns its next interval, 0 for none.
Count ==
  \E answer \in [Alarms -> Intervals] :
    /\ fired' = {a \in Alarms : left[a] = 1}
    /\ left' = [a \in Alarms |->
         IF left[a] = 0 THEN 0 ELSE IF left[a] = 1 THEN answer[a] ELSE left[a] - 1]

CountdownNext ==
  \/ \E a \in Alarms : Cancel(a) \/ \E n \in Intervals : Set(a, n)
  \/ Count

CountdownSpec == CountdownInit /\ [][CountdownNext]_countdownVars
=============================================================================
