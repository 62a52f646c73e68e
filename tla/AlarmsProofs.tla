---------------------------- MODULE AlarmsProofs ----------------------------
(***************************************************************************)
(* The alarms keep the promise of Countdown for any number of alarms, any  *)
(* width of the tick counter and any interval shorter than its wrap.  The  *)
(* argument is the invariant Ahead: the flag tells on which side of the    *)
(* wrap an alarm's time lies, so the distance to it is one subtraction.    *)
(***************************************************************************)
EXTENDS Alarms, TLAPS

USE AlarmAssumption

\* alt_u32 addition of two words wraps at most once.
LEMMA WordOfSum ==
  ASSUME NEW n \in Nat, n < 2 * Wrap
  PROVE  Word(n) = IF n < Wrap THEN n ELSE n - Wrap
<1>1. CASE n < Wrap
  BY <1>1 DEF Word
<1>2. CASE n >= Wrap
  BY <1>2 DEF Word
<1> QED BY <1>1, <1>2

LEMMA NextTick ==
  ASSUME NEW n \in Ticks
  PROVE  Word(n + 1) = IF n + 1 = Wrap THEN 0 ELSE n + 1
BY WordOfSum DEF Ticks

\* What a tick does to one alarm: it is due exactly when one tick is left.
LEMMA DueInTime ==
  ASSUME TypeOK, Ahead, nticks' = Word(nticks + 1), NEW a \in list
  PROVE  /\ Due(a) <=> Left[a] = 1
         /\ Due(a) => time[a] = nticks'
         /\ ~Due(a) => IF Waits(a) THEN time[a] < nticks' /\ time[a] + Wrap - nticks' = Left[a] - 1
                       ELSE time[a] - nticks' = Left[a] - 1
<1>1. /\ a \in Alarms /\ nticks \in Ticks /\ time[a] \in Ticks /\ rollover[a] \in BOOLEAN
      /\ Wrap \in Nat /\ MaxInterval \in Nat /\ MaxInterval + 1 < Wrap
  BY DEF TypeOK
<1>2. nticks' = IF nticks + 1 = Wrap THEN 0 ELSE nticks + 1
  BY <1>1, NextTick
<1>3. Left[a] = IF rollover[a] THEN time[a] + Wrap - nticks ELSE time[a] - nticks
  BY <1>1 DEF Left
<1>4. IF rollover[a] THEN time[a] < nticks /\ time[a] + Wrap - nticks \in 1 .. (MaxInterval + 1)
      ELSE time[a] - nticks \in 1 .. (MaxInterval + 1)
  BY DEF Ahead
<1> QED BY <1>1, <1>2, <1>3, <1>4 DEF Due, Waits, Ticks

\* The distance to an alarm set n ticks after a time that is the present one.
LEMMA SetAhead ==
  ASSUME NEW now \in Ticks, NEW n \in Intervals, NEW k \in {n, n + 1}, k > 0
  PROVE  /\ Word(now + k) \in Ticks
         /\ IF Word(now + k) < now THEN Word(now + k) + Wrap - now = k
            ELSE Word(now + k) - now = k
<1>1. /\ now \in 0 .. (Wrap - 1) /\ k \in 1 .. (MaxInterval + 1)
      /\ Wrap \in Nat /\ MaxInterval \in Nat /\ MaxInterval + 1 < Wrap
  BY DEF Ticks, Intervals
<1>2. Word(now + k) = IF now + k < Wrap THEN now + k ELSE now + k - Wrap
  BY <1>1, WordOfSum
<1> QED BY <1>1, <1>2 DEF Ticks

LEMMA StartKeepsInv ==
  ASSUME IndInv, NEW a \in Alarms, NEW n \in Intervals, alt_alarm_start(a, n)
  PROVE  IndInv' /\ Left' = [Left EXCEPT ![a] = n + 1] /\ Left[a] = 0
<1> USE DEF IndInv, alt_alarm_start
<1> DEFINE t == Word(nticks + (n + 1))
<1>1. nticks \in Ticks /\ n \in Nat /\ nticks \in Nat
  BY DEF TypeOK, Ticks, Intervals
<1>2. /\ t \in Ticks
      /\ IF t < nticks THEN t + Wrap - nticks = n + 1 ELSE t - nticks = n + 1
  BY <1>1, SetAhead
<1>3. n + nticks + 1 = nticks + (n + 1)
  BY <1>1
<1>4. /\ list' = list \cup {a} /\ nticks' = nticks
      /\ time' = [time EXCEPT ![a] = t]
      /\ rollover' = [rollover EXCEPT ![a] = t < nticks]
  <2>1. time' = [time EXCEPT ![a] = t]
    BY <1>3
  <2>2. time'[a] = t
    BY <2>1 DEF TypeOK
  <2> QED BY <2>1, <2>2
<1> HIDE DEF t
<1>5. TypeOK'
  BY <1>2, <1>4 DEF TypeOK
<1>6. Ahead'
  <2> SUFFICES ASSUME NEW b \in list'
               PROVE  IF rollover'[b] THEN time'[b] < nticks' /\ time'[b] + Wrap - nticks' \in 1 .. (MaxInterval + 1)
                      ELSE time'[b] - nticks' \in 1 .. (MaxInterval + 1)
    BY DEF Ahead
  <2>1. CASE b = a
    <3>1. time'[b] = t /\ rollover'[b] = (t < nticks)
      BY <2>1, <1>4 DEF TypeOK
    <3>2. n + 1 \in 1 .. (MaxInterval + 1)
      BY DEF Intervals
    <3> QED BY <3>1, <3>2, <1>2, <1>4
  <2>2. CASE b # a
    <3>1. b \in list /\ time'[b] = time[b] /\ rollover'[b] = rollover[b]
      BY <2>2, <1>4 DEF TypeOK
    <3> QED BY <3>1, <1>4 DEF Ahead
  <2> QED BY <2>1, <2>2
<1>7. Left' = [Left EXCEPT ![a] = n + 1]
  <2> SUFFICES ASSUME NEW b \in Alarms
               PROVE  Left'[b] = IF b = a THEN n + 1 ELSE Left[b]
    BY DEF Left
  <2>1. CASE b = a
    <3>1. time'[b] = t /\ rollover'[b] = (t < nticks) /\ b \in list'
      BY <2>1, <1>4 DEF TypeOK
    <3> QED BY <3>1, <2>1, <1>2, <1>4 DEF Left
  <2>2. CASE b # a
    <3>1. (b \in list' <=> b \in list) /\ time'[b] = time[b] /\ rollover'[b] = rollover[b]
      BY <2>2, <1>4 DEF TypeOK
    <3> QED BY <3>1, <2>2, <1>4 DEF Left
  <2> QED BY <2>1, <2>2
<1>8. Left[a] = 0
  BY DEF Left
<1> QED BY <1>5, <1>6, <1>7, <1>8

LEMMA StopKeepsInv ==
  ASSUME IndInv, NEW a \in Alarms, alt_alarm_stop(a)
  PROVE  IndInv' /\ Left' = [Left EXCEPT ![a] = 0] /\ Left[a] > 0
<1> USE DEF IndInv, alt_alarm_stop
<1>1. IndInv'
  BY DEF TypeOK, Ahead
<1>2. Left' = [Left EXCEPT ![a] = 0]
  BY DEF Left
<1>3. Left[a] > 0
  BY DEF Left, Ahead, TypeOK, Ticks
<1> QED BY <1>1, <1>2, <1>3

LEMMA TickKeepsInv ==
  ASSUME IndInv, NEW answer \in [Alarms -> Intervals],
         nticks' = Word(nticks + 1), Rescheduled(answer),
         list' = {a \in list : Due(a) => answer[a] # 0},
         fired' = {a \in Alarms : Due(a)}, tick_rate' = tick_rate
  PROVE  /\ IndInv'
         /\ fired' = {a \in Alarms : Left[a] = 1}
         /\ Left' = [a \in Alarms |->
              IF Left[a] = 0 THEN 0 ELSE IF Left[a] = 1 THEN answer[a] ELSE Left[a] - 1]
<1>1. /\ nticks \in Ticks /\ list \subseteq Alarms /\ time \in [Alarms -> Ticks]
      /\ rollover \in [Alarms -> BOOLEAN] /\ fired \subseteq Alarms /\ tick_rate \in BOOLEAN
      /\ Ahead /\ TypeOK
  BY DEF IndInv, TypeOK
<1>2. nticks' \in Ticks
  BY <1>1, NextTick DEF Ticks
<1>3. ASSUME NEW a \in list
      PROVE  /\ Due(a) <=> Left[a] = 1
             /\ Left[a] \in 1 .. (MaxInterval + 1)
             /\ Due(a) /\ answer[a] # 0 =>
                  /\ time'[a] = Word(nticks' + answer[a])
                  /\ rollover'[a] = (time'[a] < nticks')
             /\ ~Due(a) => time'[a] = time[a] /\ rollover'[a] = Waits(a)
             /\ ~Due(a) => IF Waits(a) THEN time[a] < nticks' /\ time[a] + Wrap - nticks' = Left[a] - 1
                           ELSE time[a] - nticks' = Left[a] - 1
  <2>1. a \in Alarms
    BY <1>1
  <2>2. Left[a] \in 1 .. (MaxInterval + 1)
    BY <1>1, <2>1 DEF Left, Ahead
  <2>3. time'[a] = IF Due(a) /\ answer[a] # 0 THEN Word(time[a] + answer[a]) ELSE time[a]
    BY <2>1 DEF Rescheduled
  <2>4. rollover'[a] = IF Due(a) /\ answer[a] # 0 THEN time'[a] < nticks' ELSE Waits(a)
    BY <2>1 DEF Rescheduled
  <2> QED BY <1>1, <2>2, <2>3, <2>4, DueInTime
<1>4. ASSUME NEW a \in list'
      PROVE  /\ time'[a] \in Ticks
             /\ rollover'[a] \in BOOLEAN
             /\ (IF Left[a] = 1 THEN answer[a] ELSE Left[a] - 1) \in 1 .. (MaxInterval + 1)
             /\ IF rollover'[a] THEN time'[a] < nticks' /\ time'[a] + Wrap - nticks' =
                                       (IF Left[a] = 1 THEN answer[a] ELSE Left[a] - 1)
                ELSE time'[a] - nticks' = (IF Left[a] = 1 THEN answer[a] ELSE Left[a] - 1)
  <2>1. a \in list /\ a \in Alarms /\ (Due(a) => answer[a] # 0) /\ answer[a] \in Intervals
    BY <1>1
  <2>2. CASE Due(a)
    <3>1. Left[a] = 1 /\ answer[a] > 0 /\ answer[a] \in 1 .. (MaxInterval + 1)
      BY <2>1, <2>2, <1>3 DEF Intervals
    <3>2. /\ Word(nticks' + answer[a]) \in Ticks
          /\ IF Word(nticks' + answer[a]) < nticks' THEN Word(nticks' + answer[a]) + Wrap - nticks' = answer[a]
             ELSE Word(nticks' + answer[a]) - nticks' = answer[a]
      BY <1>2, <2>1, <3>1, SetAhead
    <3>3. time'[a] = Word(nticks' + answer[a]) /\ rollover'[a] = (time'[a] < nticks')
      BY <2>1, <2>2, <1>3
    <3>4. rollover'[a] \in BOOLEAN /\ time'[a] \in Ticks
      BY <3>2, <3>3
    <3>5. CASE time'[a] < nticks'
      <4>1. rollover'[a] = TRUE
        BY <3>3, <3>5, Zenon
      <4>2. time'[a] < nticks' /\ time'[a] + Wrap - nticks' = answer[a]
        BY <3>2, <3>3, <3>5
      <4> QED BY <4>1, <4>2, <3>1, <3>4
    <3>6. CASE ~(time'[a] < nticks')
      <4>1. ~rollover'[a]
        BY <3>3, <3>6, Zenon
      <4>2. time'[a] - nticks' = answer[a]
        BY <3>2, <3>3, <3>6
      <4> QED BY <4>1, <4>2, <3>1, <3>4
    <3> QED BY <3>5, <3>6
  <2>3. CASE ~Due(a)
    <3>1. Left[a] # 1 /\ Left[a] \in 1 .. (MaxInterval + 1)
      BY <2>1, <2>3, <1>3
    <3>2. Left[a] - 1 \in 1 .. (MaxInterval + 1)
      BY <3>1
    <3>3. Waits(a) \in BOOLEAN /\ time[a] \in Ticks
      BY <1>1, <2>1 DEF Waits
    <3> QED BY <2>1, <2>3, <1>3, <3>1, <3>2, <3>3
  <2> QED BY <2>2, <2>3
<1>5. IndInv'
  <2>1. time' \in [Alarms -> Ticks]
    <3>1. ASSUME NEW a \in Alarms
          PROVE  (IF Due(a) /\ answer[a] # 0 THEN Word(time[a] + answer[a]) ELSE time[a]) \in Ticks
      <4>1. time[a] \in Ticks /\ answer[a] \in Intervals
        BY <1>1
      <4>2. Word(time[a] + answer[a]) \in Ticks
        BY <4>1 DEF Word, Ticks, Intervals
      <4> QED BY <4>1, <4>2
    <3> QED BY <3>1 DEF Rescheduled
  <2>2. rollover' \in [Alarms -> BOOLEAN]
    <3>1. ASSUME NEW a \in Alarms
          PROVE  (IF a \notin list THEN rollover[a]
                  ELSE IF Due(a) /\ answer[a] # 0 THEN time'[a] < nticks' ELSE Waits(a)) \in BOOLEAN
      <4>1. rollover[a] \in BOOLEAN /\ Waits(a) \in BOOLEAN /\ (time'[a] < nticks') \in BOOLEAN
        BY <1>1 DEF Waits
      <4> QED BY <4>1, Zenon
    <3> QED BY <3>1 DEF Rescheduled
  <2>3. TypeOK'
    BY <1>1, <1>2, <2>1, <2>2 DEF TypeOK
  <2>4. Ahead'
    BY <1>4 DEF Ahead
  <2> QED BY <2>3, <2>4 DEF IndInv
<1>6. ASSUME NEW a \in Alarms, a \notin list
      PROVE  Left[a] = 0 /\ ~Due(a) /\ a \notin list'
  <2>1. Left[a] = 0
    BY <1>6 DEF Left
  <2>2. ~Due(a)
    BY <1>6 DEF Due
  <2> QED BY <1>6, <2>1, <2>2
<1>7. fired' = {a \in Alarms : Left[a] = 1}
  <2>1. ASSUME NEW a \in Alarms PROVE Due(a) <=> Left[a] = 1
    <3>1. CASE a \in list  BY <3>1, <1>3
    <3>2. CASE a \notin list  BY <3>2, <1>6
    <3> QED BY <3>1, <3>2
  <2> QED BY <2>1
<1>8. ASSUME NEW a \in Alarms
      PROVE  Left'[a] = IF Left[a] = 0 THEN 0 ELSE IF Left[a] = 1 THEN answer[a] ELSE Left[a] - 1
  <2>1. CASE a \notin list
    BY <2>1, <1>6 DEF Left
  <2>2. CASE a \in list'
    <3>1. a \in list /\ Left[a] # 0
      BY <2>2, <1>3
    <3>2. Left'[a] = IF rollover'[a] THEN time'[a] + Wrap - nticks' ELSE time'[a] - nticks'
      BY <2>2 DEF Left
    <3> QED BY <2>2, <3>1, <3>2, <1>4
  <2>3. CASE a \in list /\ a \notin list'
    <3>1. Due(a) /\ answer[a] = 0
      BY <2>3
    <3> QED BY <2>3, <3>1, <1>3 DEF Left
  <2> QED BY <2>1, <2>2, <2>3
<1>9. Left' = [a \in Alarms |-> Left'[a]]
  BY DEF Left
<1> QED BY <1>5, <1>7, <1>8, <1>9

LEMMA StepPromised ==
  ASSUME IndInv, [Next]_vars
  PROVE  IndInv' /\ [Promise!CountdownNext]_(Promise!countdownVars)
<1> USE DEF Promise!CountdownNext, Promise!countdownVars
<1>1. CASE alt_avalon_timer_sc_init
  BY <1>1 DEF alt_avalon_timer_sc_init, IndInv, TypeOK, Ahead, Left
<1>2. CASE alt_tick
  <2>1. PICK answer \in [Alarms -> Intervals] :
          Rescheduled(answer) /\ list' = {a \in list : Due(a) => answer[a] # 0}
    BY <1>2 DEF alt_tick
  <2>2. nticks' = Word(nticks + 1) /\ fired' = {a \in Alarms : Due(a)} /\ tick_rate' = tick_rate
    BY <1>2 DEF alt_tick
  <2>3. /\ IndInv'
        /\ fired' = {a \in Alarms : Left[a] = 1}
        /\ Left' = [a \in Alarms |->
             IF Left[a] = 0 THEN 0 ELSE IF Left[a] = 1 THEN answer[a] ELSE Left[a] - 1]
    BY <2>1, <2>2, TickKeepsInv
  <2>4. Promise!Count
    BY <2>3 DEF Promise!Count, Promise!Intervals, Intervals
  <2> QED BY <2>3, <2>4
<1>3. ASSUME NEW a \in Alarms, alt_alarm_stop(a)
      PROVE  IndInv' /\ Promise!CountdownNext
  <2>1. IndInv' /\ Left' = [Left EXCEPT ![a] = 0] /\ Left[a] > 0 /\ fired' = fired
    BY <1>3, StopKeepsInv DEF alt_alarm_stop
  <2>2. Promise!Cancel(a)
    BY <2>1 DEF Promise!Cancel
  <2> QED BY <2>1, <2>2
<1>4. ASSUME NEW a \in Alarms, NEW n \in Intervals, alt_alarm_start(a, n)
      PROVE  IndInv' /\ Promise!CountdownNext
  <2>1. IndInv' /\ Left' = [Left EXCEPT ![a] = n + 1] /\ Left[a] = 0 /\ fired' = fired
    BY <1>4, StartKeepsInv DEF alt_alarm_start
  <2>2. Promise!Set(a, n)
    BY <2>1 DEF Promise!Set
  <2> QED BY <2>1, <2>2 DEF Promise!Intervals, Intervals
<1>5. CASE UNCHANGED vars
  BY <1>5 DEF vars, IndInv, TypeOK, Ahead, Left
<1> QED BY <1>1, <1>2, <1>3, <1>4, <1>5 DEF Next

LEMMA InitInv == Init => IndInv
<1> SUFFICES ASSUME Init PROVE IndInv
  OBVIOUS
<1>1. 0 \in Ticks
  BY DEF Ticks
<1>2. tick_rate \in BOOLEAN /\ time \in [Alarms -> Ticks] /\ rollover \in [Alarms -> BOOLEAN]
  BY <1>1 DEF Init
<1> QED BY <1>1, <1>2 DEF Init, IndInv, TypeOK, Ahead

\* The flag and the time of a registered alarm always place it ahead of the
\* tick counter, by at most an interval and a tick: no alarm is passed over.
THEOREM AlarmsAhead == Spec => []IndInv
<1>1. IndInv /\ [Next]_vars => IndInv'
  BY StepPromised
<1> QED BY <1>1, InitInv, PTL DEF Spec

\* The alarms implement Countdown, whatever the width of the tick counter.
THEOREM AlarmsKeepPromise == Spec => AlarmsCountDown
<1>1. Init => Promise!CountdownInit
  BY DEF Init, Promise!CountdownInit, Left
<1>2. IndInv /\ [Next]_vars => [Promise!CountdownNext]_(Promise!countdownVars)
  BY StepPromised
<1> QED BY <1>1, <1>2, AlarmsAhead, PTL DEF Spec, AlarmsCountDown, Promise!CountdownSpec
=============================================================================
