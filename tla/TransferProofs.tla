--------------------------- MODULE TransferProofs ---------------------------
(***************************************************************************)
(* Proofs about Transfer for any limits, timeout, wrap of the clock, length*)
(* of answers and number of reports.                                       *)
(***************************************************************************)
EXTENDS Transfer, TLAPS

USE WrapAssumption DEF HRSLT

LEMMA Limits ==
  /\ USB_XFER_TIMEOUT \in Nat \ {0} /\ USB_NAK_LIMIT \in Nat \ {0}
  /\ USB_RETRY_LIMIT \in Nat \ {0} /\ AnswerPackets \in Nat \ {0}
  /\ PollPackets \in Nat \ {0} /\ MaxReports \in Nat /\ ChipTime \in Nat
BY TransferAssumption, ChipAssumption

USE Limits

Chip == [running : BOOLEAN, done : BOOLEAN, hrsl : HRSLT, rcvdav : BOOLEAN,
         fifo : Packet, toggle : {0, 1}]

IndInv == TypeOK /\ ChipInv

(***************************************************************************)
(* The deadline is computed once for all attempts, of which the two        *)
(* counters allow USB_NAK_LIMIT + USB_RETRY_LIMIT - 1.                     *)
(***************************************************************************)
LEMMA SpentType ==
  ASSUME TypeOK
  PROVE  /\ Spent \in Nat /\ (nak_count + retry_count) * ChipTime \in Nat
         /\ Spent < USB_XFER_TIMEOUT
<1> DEFINE k == nak_count + retry_count
           m == USB_NAK_LIMIT + USB_RETRY_LIMIT - 2
<1>1. k \in Nat /\ m \in Nat /\ k <= m /\ elapsed \in Nat /\ elapsed <= ChipTime
  BY DEF TypeOK
<1>2. (m + 1) * ChipTime < USB_XFER_TIMEOUT
  <2>1. m + 1 = USB_NAK_LIMIT + USB_RETRY_LIMIT - 1
    OBVIOUS
  <2> QED
    BY <2>1, ChipAssumption
<1>3. Spent = k * ChipTime + elapsed
  BY DEF Spent
<1> HIDE DEF k, m
<1>4. k * ChipTime \in Nat /\ k * ChipTime <= m * ChipTime /\ m * ChipTime \in Nat
  <2>1. PICK d \in Nat : m = k + d
    BY <1>1
  <2>2. m * ChipTime = k * ChipTime + d * ChipTime
    BY <1>1, <2>1
  <2>3. k * ChipTime \in Nat /\ d * ChipTime \in Nat
    BY <1>1, <2>1
  <2> QED
    BY <2>2, <2>3
<1>5. (m + 1) * ChipTime = m * ChipTime + ChipTime
  BY <1>1
<1> QED
  BY <1>1, <1>2, <1>3, <1>4, <1>5 DEF k

\* So an attempt that the chip works at is always within it.
LEMMA InTime == ASSUME IndInv, Attempting PROVE now < timeout
<1>1. Spent \in Nat /\ Spent < USB_XFER_TIMEOUT /\ now + USB_XFER_TIMEOUT <= timeout + Spent
  BY SpentType DEF IndInv, ChipInv
<1>2. now \in Nat /\ timeout \in Nat
  BY DEF IndInv, TypeOK
<1> QED
  BY <1>1, <1>2

(***************************************************************************)
(* What the operators the actions are built from do to the chip.           *)
(***************************************************************************)
LEMMA ChipTypes ==
  ASSUME chip \in Chip
  PROVE  /\ Cleared \in Chip /\ Emptied \in Chip
         /\ [Cleared EXCEPT !.running = TRUE] \in Chip
         /\ \A t \in {0, 1} : [Cleared EXCEPT !.toggle = t] \in Chip /\ [chip EXCEPT !.toggle = t] \in Chip
         /\ \A h \in HRSLT : Done(h) \in Chip
BY DEF Chip, Cleared, Emptied, Done, Packet, NoPacket

\* A packet is launched: the chip runs, with a deadline ahead.
LEMMA DispatchFacts ==
  ASSUME TypeOK, NEW t \in {"SETUP", "IN", "OUTHS", "INHS"}, NEW c \in Chip,
         ~c.done, ~c.rcvdav, Dispatch(t, c), UNCHANGED now
  PROVE  /\ chip' \in Chip /\ ChipInv'
         /\ timeout' \in 0 .. Wrap + USB_XFER_TIMEOUT
         /\ token' = t /\ rcode' = rcode /\ nak_count' = 0 /\ retry_count' = 0
         /\ elapsed' = 0
<1>1. /\ chip' = [c EXCEPT !.running = TRUE] /\ token' = t /\ rcode' = rcode
      /\ timeout' = now + USB_XFER_TIMEOUT /\ now' = now /\ nak_count' = 0 /\ retry_count' = 0
      /\ elapsed' = 0
  BY DEF Dispatch, Deadline
<1>2. chip' \in Chip /\ chip'.running /\ ~chip'.done /\ ~chip'.rcvdav
  BY <1>1 DEF Chip
<1>3. now' + USB_XFER_TIMEOUT <= timeout' + Spent' /\ timeout' \in 0 .. Wrap + USB_XFER_TIMEOUT
  <2>1. now \in 0 .. Wrap - 1
    BY DEF TypeOK
  <2>2. Spent' = 0
    BY <1>1 DEF Spent
  <2> QED
    BY <1>1, <2>1, <2>2
<1> QED
  BY <1>1, <1>2, <1>3 DEF ChipInv, Attempting

\* A call returns with a chip that has nothing to do.
LEMMA ReturnFacts ==
  ASSUME TypeOK, NEW r, NEW c \in Chip, ~c.running, ~c.done, ~c.rcvdav, Return(r, c)
  PROVE  /\ chip' \in Chip /\ ChipInv'
         /\ timeout' \in 0 .. Wrap + USB_XFER_TIMEOUT
         /\ token' = "none" /\ rcode' = r /\ nak_count' = 0 /\ retry_count' = 0
         /\ elapsed' = 0
BY DEF Return, ChipInv, Attempting

\* The chip ends a transfer, without a packet.
LEMMA DoneFacts ==
  ASSUME IndInv, NEW h \in HRSLT, chip.running, token # "none", chip' = Done(h), HostUnchanged
  PROVE  chip' \in Chip /\ ChipInv'
<1>1. chip' \in Chip /\ ~chip'.running /\ chip'.done /\ chip'.rcvdav = chip.rcvdav
  BY DEF IndInv, TypeOK, Chip, Done
<1>2. ~chip.rcvdav /\ now + USB_XFER_TIMEOUT <= timeout + Spent
  BY DEF IndInv, ChipInv, Attempting
<1>3. UNCHANGED <<token, now, timeout, Spent>>
  BY DEF HostUnchanged, callVars, Spent
<1> QED
  BY <1>1, <1>2, <1>3 DEF ChipInv, Attempting

\* Between a launch and its result the chip holds no packet.
LEMMA ReadyFacts ==
  ASSUME IndInv, Ready
  PROVE  /\ chip \in Chip /\ Cleared \in Chip /\ Emptied \in Chip
         /\ ~Cleared.running /\ ~Cleared.done /\ Cleared.rcvdav = chip.rcvdav
         /\ Cleared.toggle = chip.toggle
         /\ ~Emptied.running /\ ~Emptied.done /\ ~Emptied.rcvdav /\ Emptied.toggle = chip.toggle
         /\ chip.rcvdav => chip.hrsl = "hrSUCCESS" /\ token = "IN"
<1>1. chip \in Chip /\ ~chip.running
  BY DEF IndInv, TypeOK, Chip, ChipInv, Ready
<1>2. Cleared \in Chip /\ Emptied \in Chip
  BY <1>1, ChipTypes
<1>3. /\ ~Cleared.running /\ ~Cleared.done /\ Cleared.rcvdav = chip.rcvdav
      /\ Cleared.toggle = chip.toggle
  BY <1>1 DEF Cleared, Chip
<1>4. ~Emptied.running /\ ~Emptied.done /\ ~Emptied.rcvdav /\ Emptied.toggle = chip.toggle
  BY <1>1 DEF Emptied, Cleared, Chip
<1> QED
  BY <1>1, <1>2, <1>3, <1>4 DEF IndInv, ChipInv

\* After USB_init no request is under way and every toggle is at its start.
THEOREM InitInd == Init => IndInv
<1> SUFFICES ASSUME Init PROVE IndInv
  OBVIOUS
<1>1. TypeOK
  BY DEF Init, TypeOK, HRSLT, Packet, NoPacket
<1>2. ChipInv
  BY DEF Init, ChipInv, Attempting
<1> QED
  BY <1>1, <1>2 DEF IndInv

(***************************************************************************)
(* The program's steps.                                                    *)
(***************************************************************************)
LEMMA CtrlReqStep == ASSUME IndInv, CtrlReq PROVE IndInv'
<1>1. chip \in Chip /\ ~chip.done /\ ~chip.rcvdav /\ TypeOK
  BY DEF IndInv, TypeOK, Chip, ChipInv, CtrlReq
<1>2. Dispatch("SETUP", chip) /\ UNCHANGED now
  BY DEF CtrlReq
<1>3. /\ chip' \in Chip /\ ChipInv' /\ timeout' \in 0 .. Wrap + USB_XFER_TIMEOUT
      /\ token' = "SETUP" /\ rcode' = rcode /\ nak_count' = 0 /\ retry_count' = 0 /\ elapsed' = 0
  BY <1>1, <1>2, DispatchFacts
<1>4. buffer' \in Seq(Packet)
  BY DEF CtrlReq
<1> QED
  BY <1>1, <1>3, <1>4 DEF IndInv, TypeOK, CtrlReq, deviceVars, Chip

LEMMA CtrlDataStep == ASSUME IndInv, CtrlData PROVE IndInv'
<1> DEFINE c == [Cleared EXCEPT !.toggle = 1]
<1>1. Ready /\ TypeOK /\ token = "SETUP"
  BY DEF CtrlData, IndInv
<1>2. c \in Chip /\ ~c.done /\ ~c.rcvdav
  BY <1>1, ReadyFacts DEF Chip
<1>3. Dispatch("IN", c) /\ UNCHANGED now
  BY DEF CtrlData
<1>4. /\ chip' \in Chip /\ ChipInv' /\ timeout' \in 0 .. Wrap + USB_XFER_TIMEOUT
      /\ token' = "IN" /\ rcode' = rcode /\ nak_count' = 0 /\ retry_count' = 0 /\ elapsed' = 0
  BY <1>1, <1>2, <1>3, DispatchFacts
<1>5. rcvToggle' \in [{0, 1} -> {0, 1}]
  BY <1>1 DEF CtrlData, TypeOK
<1>6. UNCHANGED <<now, request, buffer, reports, answer, nextReport>>
  BY DEF CtrlData, deviceVars
<1> QED
  BY <1>1, <1>4, <1>5, <1>6 DEF IndInv, TypeOK, Chip

LEMMA CtrlNDStep == ASSUME IndInv, CtrlND PROVE IndInv'
<1>1. Ready /\ TypeOK /\ token = "SETUP"
  BY DEF CtrlND, IndInv
<1>2. Cleared \in Chip /\ ~Cleared.done /\ ~Cleared.rcvdav
  BY <1>1, ReadyFacts
<1>3. Dispatch("INHS", Cleared) /\ UNCHANGED now
  BY DEF CtrlND
<1>4. /\ chip' \in Chip /\ ChipInv' /\ timeout' \in 0 .. Wrap + USB_XFER_TIMEOUT
      /\ token' = "INHS" /\ rcode' = rcode /\ nak_count' = 0 /\ retry_count' = 0 /\ elapsed' = 0
  BY <1>1, <1>2, <1>3, DispatchFacts
<1> QED
  BY <1>1, <1>4 DEF IndInv, TypeOK, CtrlND, deviceVars, Chip

LEMMA PollStep == ASSUME IndInv, Poll PROVE IndInv'
<1> DEFINE c == [chip EXCEPT !.toggle = rcvToggle[1]]
<1>1. chip \in Chip /\ ~chip.done /\ ~chip.rcvdav /\ TypeOK
  BY DEF IndInv, TypeOK, Chip, ChipInv, Poll
<1>2. rcvToggle[1] \in {0, 1}
  BY <1>1 DEF TypeOK
<1>3. c \in Chip /\ ~c.done /\ ~c.rcvdav
  BY <1>1, <1>2 DEF Chip
<1>4. Dispatch("IN", c) /\ UNCHANGED now
  BY DEF Poll
<1>5. /\ chip' \in Chip /\ ChipInv' /\ timeout' \in 0 .. Wrap + USB_XFER_TIMEOUT
      /\ token' = "IN" /\ rcode' = rcode /\ nak_count' = 0 /\ retry_count' = 0 /\ elapsed' = 0
  BY <1>1, <1>3, <1>4, DispatchFacts
<1>6. buffer' \in Seq(Packet) /\ request' = "poll"
  BY DEF Poll
<1>7. UNCHANGED <<now, rcvToggle, reports, answer, nextReport>>
  BY DEF Poll, deviceVars
<1> QED
  BY <1>1, <1>5, <1>6, <1>7 DEF IndInv, TypeOK, Chip

LEMMA RetryStep == ASSUME IndInv, Retry PROVE IndInv'
<1>1. /\ Ready /\ TypeOK /\ Again(chip.hrsl) /\ now' = now /\ token' = token
      /\ timeout' = timeout /\ elapsed' = 0
  BY DEF Retry, IndInv
<1>2. chip' = [Cleared EXCEPT !.running = TRUE]
  BY DEF Retry
<1>3. ~chip.rcvdav
  BY <1>1, ReadyFacts DEF Again
<1>4. chip' \in Chip /\ chip'.running /\ ~chip'.done /\ ~chip'.rcvdav
  BY <1>1, <1>2, <1>3, ReadyFacts DEF Chip
<1>5. ChipInv'
  <2>1. /\ nak_count \in Nat /\ retry_count \in Nat /\ elapsed \in 0 .. ChipTime
        /\ now \in Nat /\ timeout \in Nat
    BY <1>1 DEF TypeOK
  <2> DEFINE k == nak_count + retry_count
  <2>2. nak_count' + retry_count' = k + 1 /\ k \in Nat
    BY <1>1, <2>1 DEF Again
  <2>3. Spent' = (k + 1) * ChipTime /\ Spent = k * ChipTime + elapsed
    BY <1>1, <2>2 DEF Spent
  <2>4. now + USB_XFER_TIMEOUT <= timeout + Spent
    BY <1>1 DEF IndInv, ChipInv, Attempting, Ready
  <2> HIDE DEF k
  <2>5. k * ChipTime \in Nat /\ (k + 1) * ChipTime = k * ChipTime + ChipTime
    BY <2>2
  <2>6. now' + USB_XFER_TIMEOUT <= timeout' + Spent'
    BY <1>1, <2>1, <2>3, <2>4, <2>5
  <2> QED
    BY <1>1, <1>4, <2>6 DEF ChipInv, Attempting, Ready
<1>6. nak_count' \in 0 .. USB_NAK_LIMIT - 1 /\ retry_count' \in 0 .. USB_RETRY_LIMIT - 1
  <2>1. nak_count \in 0 .. USB_NAK_LIMIT - 1 /\ retry_count \in 0 .. USB_RETRY_LIMIT - 1
    BY <1>1 DEF TypeOK
  <2> QED
    BY <1>1, <2>1 DEF Again
<1> QED
  BY <1>1, <1>4, <1>5, <1>6 DEF IndInv, TypeOK, Retry, deviceVars, Chip

LEMMA GiveUpStep == ASSUME IndInv, GiveUp PROVE IndInv'
<1>1. Ready /\ TypeOK /\ chip.hrsl # "hrSUCCESS" /\ Return(chip.hrsl, Cleared)
  BY DEF GiveUp, IndInv
<1>2. Cleared \in Chip /\ ~Cleared.running /\ ~Cleared.done /\ ~Cleared.rcvdav
  BY <1>1, ReadyFacts
<1>3. /\ chip' \in Chip /\ ChipInv' /\ timeout' \in 0 .. Wrap + USB_XFER_TIMEOUT
      /\ token' = "none" /\ rcode' = chip.hrsl /\ nak_count' = 0 /\ retry_count' = 0 /\ elapsed' = 0
  BY <1>1, <1>2, ReturnFacts
<1>4. UNCHANGED <<now, request, buffer, rcvToggle, reports, answer, nextReport>>
  BY DEF GiveUp, deviceVars
<1> QED
  BY <1>1, <1>3, <1>4 DEF IndInv, TypeOK, Chip

\* A deadline passes only for a chip that has stopped working at its attempt.
LEMMA TimedOutStep == ASSUME IndInv, TimedOut PROVE IndInv'
<1>1. TypeOK /\ Return("0xff", chip)
  BY DEF TimedOut, IndInv
<1>2. now \in Nat /\ timeout \in Nat
  BY <1>1 DEF TypeOK
<1>3. chip \in Chip /\ ~chip.running /\ ~chip.done /\ ~chip.rcvdav
  <2>1. ~Attempting
    BY <1>2, InTime DEF TimedOut
  <2> QED
    BY <2>1 DEF IndInv, TypeOK, ChipInv, TimedOut, Chip, Attempting
<1>4. /\ chip' \in Chip /\ ChipInv' /\ timeout' \in 0 .. Wrap + USB_XFER_TIMEOUT
      /\ token' = "none" /\ rcode' = "0xff" /\ nak_count' = 0 /\ retry_count' = 0 /\ elapsed' = 0
  BY <1>1, <1>3, ReturnFacts
<1>5. UNCHANGED <<now, request, buffer, rcvToggle, reports, answer, nextReport>>
  BY DEF TimedOut, deviceVars
<1> QED
  BY <1>1, <1>4, <1>5 DEF IndInv, TypeOK, Chip

LEMMA NotReceivedStep == ASSUME IndInv, NotReceived PROVE IndInv'
<1>1. Ready /\ TypeOK /\ ~chip.rcvdav /\ Return("0xf0", Cleared)
  BY DEF NotReceived, IndInv
<1>2. Cleared \in Chip /\ ~Cleared.running /\ ~Cleared.done /\ ~Cleared.rcvdav
  BY <1>1, ReadyFacts
<1>3. /\ chip' \in Chip /\ ChipInv' /\ timeout' \in 0 .. Wrap + USB_XFER_TIMEOUT
      /\ token' = "none" /\ rcode' = "0xf0" /\ nak_count' = 0 /\ retry_count' = 0 /\ elapsed' = 0
  BY <1>1, <1>2, ReturnFacts
<1>4. UNCHANGED <<now, request, buffer, rcvToggle, reports, answer, nextReport>>
  BY DEF NotReceived, deviceVars
<1> QED
  BY <1>1, <1>3, <1>4 DEF IndInv, TypeOK, Chip

LEMMA StatusStep == ASSUME IndInv, Status PROVE IndInv'
<1>1. Ready /\ TypeOK /\ token # "IN" /\ Return("hrSUCCESS", Cleared)
  BY DEF Status, IndInv
<1>2. Cleared \in Chip /\ ~Cleared.running /\ ~Cleared.done /\ ~Cleared.rcvdav
  BY <1>1, ReadyFacts
<1>3. /\ chip' \in Chip /\ ChipInv' /\ timeout' \in 0 .. Wrap + USB_XFER_TIMEOUT
      /\ token' = "none" /\ rcode' = "hrSUCCESS" /\ nak_count' = 0 /\ retry_count' = 0 /\ elapsed' = 0
  BY <1>1, <1>2, ReturnFacts
<1>4. UNCHANGED <<now, request, buffer, rcvToggle, reports, answer, nextReport>>
  BY DEF Status, deviceVars
<1> QED
  BY <1>1, <1>3, <1>4 DEF IndInv, TypeOK, Chip

\* A packet is taken out of the chip before the next one is asked for.
LEMMA ReceivedStep == ASSUME IndInv, Received PROVE IndInv'
<1>1. /\ Ready /\ TypeOK
      /\ Emptied \in Chip /\ ~Emptied.running /\ ~Emptied.done /\ ~Emptied.rcvdav
  BY ReadyFacts DEF Received, IndInv
<1>2. UNCHANGED <<now, request, answer, nextReport>>
  BY DEF Received, deviceVars
<1>3. chip.fifo \in Packet /\ chip.toggle \in {0, 1} /\ buffer \in Seq(Packet)
  BY <1>1 DEF TypeOK
<1>4. buffer' \in Seq(Packet)
  BY <1>3 DEF Received
<1>5. ASSUME SaveToggle PROVE rcvToggle' \in [{0, 1} -> {0, 1}]
  BY <1>1, <1>3, <1>5 DEF SaveToggle, TypeOK
<1>6. CASE Dispatch("IN", Emptied) /\ UNCHANGED <<rcvToggle, reports>>
  <2>1. /\ chip' \in Chip /\ ChipInv' /\ timeout' \in 0 .. Wrap + USB_XFER_TIMEOUT
        /\ token' = "IN" /\ rcode' = rcode /\ nak_count' = 0 /\ retry_count' = 0 /\ elapsed' = 0
    BY <1>1, <1>2, <1>6, DispatchFacts
  <2> QED
    BY <1>1, <1>2, <1>4, <1>6, <2>1 DEF IndInv, TypeOK, Chip
<1>7. CASE SaveToggle /\ Dispatch("OUTHS", Emptied) /\ UNCHANGED reports
  <2>1. /\ chip' \in Chip /\ ChipInv' /\ timeout' \in 0 .. Wrap + USB_XFER_TIMEOUT
        /\ token' = "OUTHS" /\ rcode' = rcode /\ nak_count' = 0 /\ retry_count' = 0 /\ elapsed' = 0
    BY <1>1, <1>2, <1>7, DispatchFacts
  <2>2. rcvToggle' \in [{0, 1} -> {0, 1}]
    BY <1>5, <1>7
  <2>3. reports' = reports
    BY <1>7
  <2> QED
    BY <1>1, <1>2, <1>4, <2>1, <2>2, <2>3 DEF IndInv, TypeOK, Chip
<1>8. CASE SaveToggle /\ reports' = reports \o buffer' /\ Return("hrSUCCESS", Emptied)
  <2>1. /\ chip' \in Chip /\ ChipInv' /\ timeout' \in 0 .. Wrap + USB_XFER_TIMEOUT
        /\ token' = "none" /\ rcode' = "hrSUCCESS" /\ nak_count' = 0 /\ retry_count' = 0 /\ elapsed' = 0
    BY <1>1, <1>8, ReturnFacts
  <2>2. rcvToggle' \in [{0, 1} -> {0, 1}]
    BY <1>5, <1>8
  <2>3. reports' \in Seq(Packet)
    <3>1. reports \in Seq(Packet)
      BY <1>1 DEF TypeOK
    <3> QED
      BY <1>4, <1>8, <3>1
  <2> QED
    BY <1>1, <1>2, <1>4, <2>1, <2>2, <2>3 DEF IndInv, TypeOK, Chip
<1> QED
  BY <1>6, <1>7, <1>8 DEF Received

(***************************************************************************)
(* The environment's steps.                                                *)
(***************************************************************************)
\* A packet that arrives is held with the result of its IN, and only then.
LEMMA ArrivesFacts ==
  ASSUME IndInv, NEW p \in Packet, NEW t \in {0, 1}, chip.running, token = "IN",
         Arrives(p, t), HostUnchanged
  PROVE  chip' \in Chip /\ ChipInv'
<1>1. chip \in Chip /\ ~chip.rcvdav /\ ~chip.done /\ now + USB_XFER_TIMEOUT <= timeout + Spent
  BY DEF IndInv, TypeOK, ChipInv, Chip, Attempting
<1>2. CASE t = chip.toggle
  <2>1. chip' = [Done("hrSUCCESS") EXCEPT !.rcvdav = TRUE, !.fifo = p, !.toggle = 1 - t]
    BY <1>2 DEF Arrives
  <2>2. Done("hrSUCCESS") \in Chip
    BY <1>1, ChipTypes
  <2>3. LET d == Done("hrSUCCESS") IN ~d.running /\ d.done /\ d.hrsl = "hrSUCCESS"
    BY <1>1 DEF Chip, Done
  <2>4. 1 - t \in {0, 1}
    OBVIOUS
  <2>5. chip' \in Chip /\ ~chip'.running /\ chip'.done /\ chip'.rcvdav /\ chip'.hrsl = "hrSUCCESS"
    BY <2>1, <2>2, <2>3, <2>4 DEF Chip
  <2> QED
    BY <1>1, <2>5 DEF ChipInv, HostUnchanged, callVars, Attempting, Spent
<1>3. CASE t # chip.toggle
  BY <1>3, DoneFacts DEF Arrives
<1> QED
  BY <1>2, <1>3

LEMMA BusStep == ASSUME IndInv, Bus PROVE IndInv'
<1>1. chip \in Chip /\ TypeOK /\ chip.running /\ HostUnchanged /\ token # "none"
  BY DEF IndInv, TypeOK, ChipInv, Chip, Bus
<1>2. answer.length \in 1 .. AnswerPackets /\ answer.sent \in 0 .. AnswerPackets
  BY <1>1 DEF TypeOK
<1>3. CASE Lost \/ Refuse \/ TakeStatus
  <2>1. \E h \in HRSLT : chip' = Done(h)
    BY <1>3 DEF Lost, Refuse, TakeStatus
  <2>2. UNCHANGED deviceVars
    BY <1>3 DEF Lost, Refuse, TakeStatus
  <2>3. chip' \in Chip /\ ChipInv'
    BY <1>1, <2>1, DoneFacts
  <2> QED
    BY <1>1, <2>2, <2>3 DEF IndInv, TypeOK, Chip, HostUnchanged, callVars, deviceVars
<1>4. CASE TakeSetup
  <2>1. \E h \in HRSLT : chip' = Done(h)
    BY <1>4 DEF TakeSetup
  <2>2. chip' \in Chip /\ ChipInv'
    BY <1>1, <2>1, DoneFacts
  <2>3. answer' \in [length : 1 .. AnswerPackets, sent : 0 .. AnswerPackets]
        /\ nextReport' = nextReport
    BY <1>4 DEF TakeSetup
  <2> QED
    BY <1>1, <2>2, <2>3 DEF IndInv, TypeOK, Chip, HostUnchanged, callVars
<1>5. CASE SendAnswer
  <2>1. PICK p \in Packet, t \in {0, 1} : Arrives(p, t)
    <3>1. [number |-> answer.sent,
           short |-> answer.sent + 1 = answer.length /\ answer.length < AnswerPackets] \in Packet
      BY <1>2 DEF Packet
    <3>2. (answer.sent + 1) % 2 \in {0, 1}
      BY <1>2
    <3>3. Arrives([number |-> answer.sent,
                   short |-> answer.sent + 1 = answer.length /\ answer.length < AnswerPackets],
                  (answer.sent + 1) % 2)
      BY <1>5 DEF SendAnswer
    <3> QED
      BY <3>1, <3>2, <3>3
  <2>2. chip' \in Chip /\ ChipInv'
    BY <1>1, <1>5, <2>1, ArrivesFacts DEF SendAnswer
  <2>3. answer' \in [length : 1 .. AnswerPackets, sent : 0 .. AnswerPackets]
    <3>1. answer \in [length : 1 .. AnswerPackets, sent : 0 .. AnswerPackets]
      BY <1>1 DEF TypeOK
    <3> QED
      BY <1>5, <3>1 DEF SendAnswer
  <2>4. nextReport' = nextReport
    BY <1>5 DEF SendAnswer
  <2> QED
    BY <1>1, <2>2, <2>3, <2>4 DEF IndInv, TypeOK, Chip, HostUnchanged, callVars
<1>6. CASE SendReport
  <2>1. nextReport \in 0 .. MaxReports /\ nextReport < MaxReports
    BY <1>1, <1>6 DEF TypeOK, SendReport
  <2>2. PICK p \in Packet, t \in {0, 1} : Arrives(p, t)
    <3>1. [number |-> nextReport, short |-> FALSE] \in Packet /\ nextReport % 2 \in {0, 1}
      BY <2>1 DEF Packet
    <3> QED
      BY <1>6, <3>1 DEF SendReport
  <2>3. chip' \in Chip /\ ChipInv'
    BY <1>1, <1>6, <2>2, ArrivesFacts DEF SendReport
  <2>4. nextReport' \in 0 .. MaxReports /\ answer' = answer
    BY <1>6, <2>1 DEF SendReport
  <2> QED
    BY <1>1, <2>3, <2>4 DEF IndInv, TypeOK, Chip, HostUnchanged, callVars
<1>7. CASE Hang
  <2>1. chip' = [chip EXCEPT !.running = FALSE] /\ UNCHANGED deviceVars
    BY <1>7 DEF Hang
  <2>2. chip' \in Chip /\ ~chip'.running /\ ~chip'.done /\ ~chip'.rcvdav
    BY <1>1, <2>1 DEF IndInv, ChipInv, Chip
  <2> QED
    BY <1>1, <2>1, <2>2 DEF IndInv, TypeOK, ChipInv, Chip, HostUnchanged, callVars, deviceVars, Attempting
<1> QED
  BY <1>3, <1>4, <1>5, <1>6, <1>7 DEF Bus

LEMMA TickStep == ASSUME IndInv, Tick PROVE IndInv'
<1>1. TypeOK /\ ChipInv /\ now' = (now + 1) % Wrap
  BY DEF IndInv, Tick, Advance
<1>2. /\ UNCHANGED <<request, token, timeout, nak_count, retry_count, rcode, buffer, rcvToggle>>
      /\ UNCHANGED <<reports, chip, answer, nextReport>>
  BY DEF Tick, deviceVars
<1>3. now \in 0 .. Wrap - 1 /\ now' \in 0 .. Wrap - 1 /\ now' <= now + 1
  <2>1. now \in 0 .. Wrap - 1
    BY <1>1 DEF TypeOK
  <2> QED
    BY <1>1, <2>1
<1>4. elapsed' \in 0 .. ChipTime
  BY <1>1 DEF Tick, TypeOK
<1>5. Attempting' => now' + USB_XFER_TIMEOUT <= timeout' + Spent'
  <2>1. SUFFICES ASSUME Attempting PROVE now' + USB_XFER_TIMEOUT <= timeout' + Spent'
    BY <1>2 DEF Attempting
  <2>2. elapsed' = elapsed + 1 /\ elapsed \in Nat /\ timeout \in Nat
    BY <1>1, <2>1 DEF Tick, TypeOK
  <2>3. Spent' = Spent + 1 /\ Spent \in Nat
    <3>1. (nak_count + retry_count) * ChipTime \in Nat /\ Spent \in Nat
      BY <1>1, SpentType
    <3> QED
      BY <1>2, <2>2, <3>1 DEF Spent
  <2>4. now + USB_XFER_TIMEOUT <= timeout + Spent
    BY <1>1, <2>1 DEF ChipInv
  <2>5. now + 1 + USB_XFER_TIMEOUT <= timeout + (Spent + 1)
    BY <1>3, <2>2, <2>3, <2>4
  <2>6. now' + USB_XFER_TIMEOUT <= now + 1 + USB_XFER_TIMEOUT
    <3>1. PICK later \in Nat : later = now'
      BY <1>3
    <3>2. later <= now + 1 /\ now \in Nat
      BY <1>3, <3>1
    <3>3. later + USB_XFER_TIMEOUT <= now + 1 + USB_XFER_TIMEOUT
      BY <3>2
    <3> QED
      BY <3>1, <3>3
  <2>7. timeout' + Spent' = timeout + (Spent + 1)
    BY <1>2, <2>3
  <2> QED
    BY <1>3, <2>2, <2>3, <2>5, <2>6, <2>7
<1> QED
  BY <1>1, <1>2, <1>3, <1>4, <1>5 DEF IndInv, TypeOK, ChipInv

LEMMA IndStep == ASSUME IndInv, [Next]_vars PROVE IndInv'
<1>1. CASE UNCHANGED vars
  BY <1>1 DEF vars, callVars, deviceVars, IndInv, TypeOK, ChipInv, Attempting, Spent
<1> QED
  BY <1>1, CtrlReqStep, CtrlDataStep, CtrlNDStep, PollStep, RetryStep, GiveUpStep, TimedOutStep,
     NotReceivedStep, StatusStep, ReceivedStep, BusStep, TickStep DEF Next, Host

\* Every step of the program, the chip and the bus keeps the invariant.
THEOREM IndHolds == Spec => []IndInv
BY InitInd, IndStep, PTL DEF Spec

\* The registers of call, chip and device keep their types, the counters stay
\* below their limits, for every limit.
THEOREM TypeCorrect == Spec => []TypeOK
<1>1. IndInv => TypeOK
  BY DEF IndInv
<1> QED
  BY <1>1, IndHolds, PTL

\* No call leaves a transfer, an interrupt or a packet in the chip for the next
\* one: within the limits on attempts the deadline passes for none of them, so
\* only a call whose chip came to no result at all ends by it.
THEOREM NothingLeft == Spec => []NothingLeftOver
<1>1. IndInv => NothingLeftOver
  BY DEF IndInv, ChipInv, NothingLeftOver
<1> QED
  BY <1>1, IndHolds, PTL

(***************************************************************************)
(* InOrder, where a report is one packet.                                  *)
(***************************************************************************)
OrderInv == ToggleInv /\ InOrder

LEMMA Parity ==
  \A n \in Nat : n % 2 \in {0, 1} /\ (n + 1) % 2 \in {0, 1} /\ (n + 1) % 2 = 1 - (n % 2)
OBVIOUS

LEMMA DeliveredType == ASSUME IndInv PROVE Delivered \in Nat /\ nextReport \in Nat
<1>1. reports \in Seq(Packet) /\ nextReport \in 0 .. MaxReports
  BY DEF IndInv, TypeOK
<1> QED
  BY <1>1 DEF Delivered

\* The chip holds a report only while it is the result of an IN.
LEMMA Idle == ASSUME IndInv, token # "IN" \/ ~chip.done PROVE ~Holding
BY DEF IndInv, ChipInv, Holding

\* A step that touches no report, no toggle and no packet of the poll.
LEMMA QuietStep ==
  ASSUME IndInv, OrderInv, ~Holding, ~Holding', UNCHANGED <<reports, nextReport>>,
         rcvToggle'[1] = rcvToggle[1],
         request' = "poll" /\ token' # "none" => token' = "IN" /\ buffer' = <<>>,
         request' = "poll" /\ token' = "IN" /\ ~chip'.rcvdav => chip'.toggle = Delivered % 2
  PROVE  OrderInv'
BY DEF OrderInv, ToggleInv, InOrder, Delivered

LEMMA ControlOrder ==
  ASSUME IndInv, IndInv', OrderInv, CtrlReq \/ CtrlData \/ CtrlND PROVE OrderInv'
<1>1. /\ request' \in {"read", "write"} /\ UNCHANGED <<reports, nextReport>>
      /\ token # "IN"
  BY DEF CtrlReq, CtrlData, CtrlND, deviceVars
<1>2. rcvToggle'[1] = rcvToggle[1]
  <2>1. rcvToggle \in [{0, 1} -> {0, 1}]
    BY DEF IndInv, TypeOK
  <2> QED
    BY <2>1 DEF CtrlReq, CtrlData, CtrlND
<1>3. ~Holding /\ ~Holding'
  BY <1>1, Idle DEF Holding
<1> QED
  BY <1>1, <1>2, <1>3, QuietStep

LEMMA PollOrder == ASSUME IndInv, IndInv', OrderInv, Poll PROVE OrderInv'
<1>1. /\ request' = "poll" /\ buffer' = <<>> /\ token' = "IN" /\ token = "none"
      /\ UNCHANGED <<rcvToggle, reports, nextReport>>
      /\ chip' = [[chip EXCEPT !.toggle = rcvToggle[1]] EXCEPT !.running = TRUE]
  BY DEF Poll, Dispatch, deviceVars
<1>2. chip \in Chip
  BY DEF IndInv, TypeOK, Chip
<1>3. chip'.toggle = rcvToggle[1] /\ chip'.rcvdav = chip.rcvdav
  BY <1>1, <1>2 DEF Chip
<1>4. ~chip.rcvdav
  BY <1>1 DEF IndInv, ChipInv
<1>5. rcvToggle[1] = Delivered % 2
  BY DEF OrderInv, ToggleInv
<1>6. ~Holding /\ ~Holding'
  BY <1>3, <1>4 DEF Holding
<1> QED
  BY <1>1, <1>3, <1>5, <1>6, QuietStep

LEMMA RetryOrder == ASSUME IndInv, IndInv', OrderInv, Retry PROVE OrderInv'
<1>1. /\ Ready /\ Again(chip.hrsl)
      /\ UNCHANGED <<request, token, buffer, rcvToggle, reports, nextReport>>
      /\ chip' = [Cleared EXCEPT !.running = TRUE]
  BY DEF Retry, deviceVars
<1>2. ~chip.rcvdav /\ Cleared \in Chip /\ Cleared.rcvdav = chip.rcvdav /\ Cleared.toggle = chip.toggle
  BY <1>1, ReadyFacts DEF Again
<1>3. chip'.toggle = chip.toggle /\ ~chip'.rcvdav
  BY <1>1, <1>2 DEF Chip
<1>4. ~Holding /\ ~Holding'
  BY <1>2, <1>3 DEF Holding
<1>5. request = "poll" /\ token = "IN" => chip.toggle = Delivered % 2
  BY <1>2 DEF OrderInv, ToggleInv
<1>6. request = "poll" /\ token # "none" => token = "IN" /\ buffer = <<>>
  BY DEF OrderInv, ToggleInv
<1> QED
  BY <1>1, <1>3, <1>4, <1>5, <1>6, QuietStep

\* A call that returns without a report changes nothing the next poll needs.
LEMMA ReturnOrder ==
  ASSUME IndInv, IndInv', OrderInv, GiveUp \/ TimedOut \/ NotReceived \/ Status PROVE OrderInv'
<1>1. UNCHANGED <<request, buffer, rcvToggle, reports, nextReport>> /\ token' = "none"
  BY DEF GiveUp, TimedOut, NotReceived, Status, Return, deviceVars
<1>2. ~chip.rcvdav
  <2>1. CASE GiveUp
    BY <2>1, ReadyFacts DEF GiveUp
  <2>2. CASE TimedOut
    <3>1. now \in Nat /\ timeout \in Nat /\ now >= timeout /\ token # "none"
      BY <2>2 DEF TimedOut, IndInv, TypeOK
    <3>2. ~Attempting
      BY <3>1, InTime
    <3> QED
      BY <3>1, <3>2 DEF IndInv, ChipInv, Attempting
  <2>3. CASE NotReceived \/ Status
    BY <2>3, ReadyFacts DEF NotReceived, Status
  <2> QED
    BY <2>1, <2>2, <2>3
<1>3. ~chip'.rcvdav
  BY <1>1 DEF IndInv, ChipInv
<1>4. ~Holding /\ ~Holding'
  BY <1>2, <1>3 DEF Holding
<1> QED
  BY <1>1, <1>4, QuietStep

\* A poll that receives its packet delivers the next report.
LEMMA ReceivedOrder ==
  ASSUME PollPackets = 1, IndInv, IndInv', OrderInv, Received PROVE OrderInv'
<1>1. /\ Ready /\ token = "IN" /\ chip.rcvdav /\ UNCHANGED <<request, nextReport>>
      /\ buffer' = Append(buffer, chip.fifo)
  BY DEF Received, deviceVars
<1>2. chip.toggle \in {0, 1} /\ chip.fifo \in Packet /\ rcvToggle \in [{0, 1} -> {0, 1}]
      /\ reports \in Seq(Packet) /\ request \in {"read", "write", "poll"}
  BY DEF IndInv, TypeOK
<1>3. Delivered \in Nat
  BY DeliveredType
<1>4. CASE request = "poll"
  <2>1. buffer = <<>>
    BY <1>1, <1>4 DEF OrderInv, ToggleInv
  <2>2. Complete
    BY <1>4, <2>1 DEF Complete, Expected, Endpoint
  <2>3. SaveToggle /\ reports' = reports \o buffer' /\ token' = "none"
    BY <1>4, <2>2 DEF Received, Return
  <2>4. reports' = Append(reports, chip.fifo)
    BY <1>1, <1>2, <2>1, <2>3
  <2>5. Delivered' = Delivered + 1
    BY <1>2, <2>4 DEF Delivered
  <2>6. /\ chip.fifo.number = Delivered /\ chip.toggle = (Delivered + 1) % 2
        /\ nextReport \in {Delivered, Delivered + 1}
    BY <1>1, <1>4 DEF OrderInv, ToggleInv, Holding
  <2>7. rcvToggle'[1] = Delivered' % 2
    BY <1>2, <1>4, <2>3, <2>5, <2>6 DEF SaveToggle, Endpoint
  <2>8. InOrder'
    <3>1. \A j \in 1 .. Len(reports) : reports[j].number = j - 1
      BY DEF OrderInv, InOrder
    <3> QED
      BY <1>2, <1>3, <2>4, <2>6, <3>1 DEF InOrder, Delivered
  <2>9. ~Holding' /\ nextReport' \in {Delivered' - 1, Delivered'}
    <3>1. ~chip'.rcvdav
      BY <2>3 DEF IndInv, ChipInv
    <3> QED
      BY <1>1, <1>3, <2>5, <2>6, <3>1 DEF Holding
  <2> QED
    BY <2>3, <2>7, <2>8, <2>9 DEF OrderInv, ToggleInv
<1>5. CASE request # "poll"
  <2>1. reports' = reports
    BY <1>5 DEF Received
  <2>2. rcvToggle'[1] = rcvToggle[1]
    BY <1>2, <1>5 DEF Received, SaveToggle, Endpoint
  <2>3. ~Holding /\ ~Holding'
    BY <1>1, <1>5 DEF Holding
  <2> QED
    BY <1>1, <1>5, <2>1, <2>2, <2>3, QuietStep
<1> QED
  BY <1>4, <1>5

\* The device sends the report the host waits for, or repeats the last one,
\* which the toggle tells the chip to drop.
LEMMA BusOrder == ASSUME IndInv, IndInv', OrderInv, Bus PROVE OrderInv'
<1>1. /\ chip.running /\ ~chip.rcvdav /\ chip \in Chip
      /\ UNCHANGED <<request, token, buffer, rcvToggle, reports>>
  BY DEF Bus, HostUnchanged, IndInv, ChipInv, TypeOK, Chip
<1>2. ~Holding /\ Delivered \in Nat /\ Delivered' = Delivered /\ nextReport \in Nat
  BY <1>1, DeliveredType DEF Holding, Delivered
<1>3. /\ nextReport \in {Delivered - 1, Delivered}
      /\ request = "poll" /\ token # "none" => token = "IN" /\ buffer = <<>>
      /\ request = "poll" /\ token = "IN" => chip.toggle = Delivered % 2
  BY <1>1, <1>2 DEF OrderInv, ToggleInv
<1>4. \A h \in HRSLT : Done(h).rcvdav = chip.rcvdav /\ Done(h).toggle = chip.toggle
  BY <1>1 DEF Done, Chip
<1>5. CASE Lost \/ Refuse \/ TakeSetup \/ TakeStatus \/ Hang
  <2>1. nextReport' = nextReport
    BY <1>5 DEF Lost, Refuse, TakeSetup, TakeStatus, Hang, deviceVars
  <2>2. chip'.rcvdav = chip.rcvdav /\ chip'.toggle = chip.toggle
    <3>1. CASE Hang
      BY <1>1, <3>1 DEF Hang, Chip
    <3>2. CASE ~Hang
      <4>1. \E h \in HRSLT : chip' = Done(h)
        BY <1>5, <3>2 DEF Lost, Refuse, TakeSetup, TakeStatus
      <4> QED
        BY <1>4, <4>1
    <3> QED
      BY <3>1, <3>2
  <2>3. ~Holding'
    BY <1>1, <2>2 DEF Holding
  <2> QED
    BY <1>1, <1>2, <1>3, <2>1, <2>2, <2>3, QuietStep
<1>6. CASE SendAnswer
  <2>1. nextReport' = nextReport /\ request = "read"
    BY <1>6 DEF SendAnswer
  <2>2. ~Holding'
    BY <1>1, <2>1 DEF Holding
  <2> QED
    BY <1>1, <1>2, <2>1, <2>2, QuietStep
<1>7. CASE SendReport
  <2>1. /\ request = "poll" /\ token = "IN" /\ nextReport' \in {nextReport, nextReport + 1}
        /\ Arrives([number |-> nextReport, short |-> FALSE], nextReport % 2)
    BY <1>7 DEF SendReport
  <2>2. chip.toggle = Delivered % 2
    BY <1>3, <2>1
  <2>3. CASE nextReport = Delivered
    <3> DEFINE p == [number |-> nextReport, short |-> FALSE]
    <3> DEFINE t == nextReport % 2
    <3>0. t = chip.toggle /\ Arrives(p, t)
      BY <2>1, <2>2, <2>3
    <3> HIDE DEF p, t
    <3>1. chip' = [Done("hrSUCCESS") EXCEPT !.rcvdav = TRUE, !.fifo = p, !.toggle = 1 - t]
      BY <3>0 DEF Arrives
    <3>2. Done("hrSUCCESS") \in Chip
      BY <1>1, ChipTypes
    <3>3. chip'.rcvdav /\ chip'.fifo = p /\ chip'.toggle = 1 - t
      BY <3>1, <3>2 DEF Chip
    <3>4. chip'.fifo.number = Delivered /\ chip'.toggle = (Delivered + 1) % 2
      BY <1>2, <2>3, <3>3, Parity DEF p, t
    <3>5. Holding'
      BY <1>1, <2>1, <3>3 DEF Holding
    <3>6. nextReport' \in {Delivered, Delivered + 1}
      BY <2>1, <2>3
    <3> QED
      BY <1>1, <1>2, <1>3, <2>1, <3>3, <3>4, <3>5, <3>6 DEF OrderInv, ToggleInv, InOrder
  <2>4. CASE nextReport = Delivered - 1
    <3>1. nextReport % 2 # chip.toggle
      BY <1>2, <2>2, <2>4, Parity
    <3>2. chip' \in {Done("hrTOGERR"), Done("hrSUCCESS")}
      BY <2>1, <3>1 DEF Arrives
    <3>3. chip'.rcvdav = chip.rcvdav /\ chip'.toggle = chip.toggle
      BY <1>4, <3>2
    <3>4. ~Holding'
      BY <1>1, <3>3 DEF Holding
    <3>5. nextReport' \in {Delivered - 1, Delivered}
      BY <1>2, <2>1, <2>4
    <3> QED
      BY <1>1, <1>2, <1>3, <2>2, <3>3, <3>4, <3>5 DEF OrderInv, ToggleInv, InOrder
  <2> QED
    BY <1>3, <2>3, <2>4
<1> QED
  BY <1>5, <1>6, <1>7 DEF Bus

LEMMA OrderStep ==
  ASSUME PollPackets = 1, IndInv, IndInv', OrderInv, [Next]_vars PROVE OrderInv'
<1>1. CASE Tick \/ UNCHANGED vars
  BY <1>1 DEF Tick, vars, callVars, deviceVars, OrderInv, ToggleInv, InOrder, Delivered, Holding
<1> QED
  BY <1>1, ControlOrder, PollOrder, RetryOrder, ReturnOrder, ReceivedOrder, BusOrder DEF Next, Host

\* Reports that fit one packet, as those of boot devices do, reach main each
\* once and in order, for any limits and any number of reports.
THEOREM ReportsInOrder == ASSUME PollPackets = 1 PROVE Spec => []InOrder
<1>1. Init => OrderInv
  BY DEF Init, OrderInv, ToggleInv, InOrder, Delivered, Holding
<1>2. IndInv /\ IndInv' /\ OrderInv /\ [Next]_vars => OrderInv'
  BY OrderStep
<1>3. OrderInv => InOrder
  BY DEF OrderInv
<1> QED
  BY <1>1, <1>2, <1>3, IndHolds, PTL DEF Spec

(***************************************************************************)
(* WholeAnswer: the toggle and the packets stored so far.                  *)
(***************************************************************************)
WholeInv == AnswerInv /\ WholeAnswer

\* A step of a request other than a control read has nothing to show.
LEMMA OtherRequest == ASSUME request' # "read" PROVE WholeInv'
BY DEF WholeInv, AnswerInv, WholeAnswer

\* A call that fails returns something other than 0.
LEMMA FailedCall == ASSUME token' = "none", rcode' # "hrSUCCESS" PROVE WholeInv'
BY DEF WholeInv, AnswerInv, WholeAnswer

LEMMA AnswerTypes ==
  ASSUME IndInv
  PROVE  /\ answer.length \in 1 .. AnswerPackets /\ answer.sent \in 0 .. AnswerPackets
         /\ Stored \in Nat /\ buffer \in Seq(Packet) /\ chip \in Chip
BY DEF IndInv, TypeOK, Stored, Chip

LEMMA SetupWhole == ASSUME IndInv, WholeInv, CtrlReq PROVE WholeInv'
<1>1. chip \in Chip /\ ~chip.done
  BY DEF IndInv, TypeOK, ChipInv, Chip, CtrlReq
<1>2. /\ token' = "SETUP" /\ buffer' = <<>> /\ chip' = [chip EXCEPT !.running = TRUE]
      /\ UNCHANGED answer
  BY DEF CtrlReq, Dispatch, deviceVars
<1>3. ~chip'.done
  BY <1>1, <1>2 DEF Chip
<1> QED
  BY <1>2, <1>3 DEF WholeInv, AnswerInv, WholeAnswer

\* The first IN asks for DATA1, and the device has sent nothing yet.
LEMMA DataWhole == ASSUME IndInv, IndInv', WholeInv, CtrlData PROVE WholeInv'
<1>1. /\ Ready /\ chip.hrsl = "hrSUCCESS" /\ token = "SETUP" /\ request = "read"
      /\ UNCHANGED <<request, buffer, answer>>
      /\ token' = "IN" /\ chip' = [[Cleared EXCEPT !.toggle = 1] EXCEPT !.running = TRUE]
  BY DEF CtrlData, Dispatch, deviceVars
<1>2. buffer = <<>> /\ answer.sent = 0
  BY <1>1 DEF WholeInv, AnswerInv, Ready
<1>3. ~chip'.rcvdav /\ chip'.toggle = 1
  BY <1>1, ReadyFacts DEF Chip
<1>4. Stored = 0 /\ Stored' = 0
  BY <1>1, <1>2 DEF Stored
<1> QED
  BY <1>1, <1>2, <1>3, <1>4, AnswerTypes DEF WholeInv, AnswerInv, WholeAnswer

LEMMA RetryWhole == ASSUME IndInv, IndInv', WholeInv, Retry PROVE WholeInv'
<1>1. /\ Ready /\ Again(chip.hrsl)
      /\ UNCHANGED <<request, token, buffer, answer, rcode>>
      /\ chip' = [Cleared EXCEPT !.running = TRUE]
  BY DEF Retry, deviceVars
<1>2. ~chip.rcvdav /\ Cleared \in Chip /\ Cleared.rcvdav = chip.rcvdav
      /\ Cleared.toggle = chip.toggle /\ ~Cleared.done
  BY <1>1, ReadyFacts DEF Again
<1>3. chip'.toggle = chip.toggle /\ ~chip'.rcvdav /\ ~chip'.done
  BY <1>1, <1>2 DEF Chip
<1>4. Stored' = Stored /\ token # "none"
  BY <1>1 DEF Stored, Ready
<1> QED
  BY <1>1, <1>2, <1>3, <1>4 DEF WholeInv, AnswerInv, WholeAnswer

\* A call that returns: with 0 only from the status stage of a whole answer.
LEMMA ReturnWhole ==
  ASSUME IndInv, WholeInv, GiveUp \/ TimedOut \/ NotReceived \/ Status PROVE WholeInv'
<1>1. CASE GiveUp \/ TimedOut \/ NotReceived
  <2>1. token' = "none" /\ rcode' # "hrSUCCESS"
    BY <1>1 DEF GiveUp, TimedOut, NotReceived, Return
  <2> QED
    BY <2>1, FailedCall
<1>2. CASE Status
  <2>1. /\ token \in {"OUTHS", "INHS"} /\ token' = "none"
        /\ UNCHANGED <<request, buffer, answer>>
    BY <1>2 DEF Status, Return, deviceVars
  <2> QED
    BY <2>1 DEF WholeInv, AnswerInv, WholeAnswer, Stored
<1> QED
  BY <1>1, <1>2

\* The packet in the chip is the next one of the answer, and the last one
\* exactly when XferInTransfer stops asking.
LEMMA ReceivedWhole == ASSUME IndInv, IndInv', WholeInv, Received PROVE WholeInv'
<1>1. /\ Ready /\ token = "IN" /\ chip.rcvdav /\ UNCHANGED <<request, answer>>
      /\ buffer' = Append(buffer, chip.fifo)
  BY DEF Received, deviceVars
<1>2. CASE request # "read"
  BY <1>1, <1>2, OtherRequest
<1>3. CASE request = "read"
  <2>1. /\ answer.length \in 1 .. AnswerPackets /\ Stored \in Nat
        /\ buffer \in Seq(Packet) /\ chip.fifo \in Packet
    BY AnswerTypes DEF Chip
  <2>2. /\ \A i \in 1 .. Stored : buffer[i].number = i - 1
        /\ Stored < answer.length /\ chip.fifo.number = Stored
        /\ chip.fifo.short <=> Stored + 1 = answer.length /\ answer.length < AnswerPackets
        /\ chip.toggle = Stored % 2 /\ answer.sent \in {Stored, Stored + 1}
    BY <1>1, <1>3 DEF WholeInv, AnswerInv
  <2>3. Stored' = Stored + 1
    BY <1>1, <2>1 DEF Stored
  <2>4. \A i \in 1 .. Stored' : buffer'[i].number = i - 1
    BY <1>1, <2>1, <2>2, <2>3 DEF Stored
  <2>5. Complete <=> Stored' = answer.length
    BY <1>3, <2>1, <2>2, <2>3 DEF Complete, Expected, Endpoint, Stored
  <2>6. CASE ~Complete
    <3>1. token' = "IN" /\ chip' = [Emptied EXCEPT !.running = TRUE]
      BY <2>6 DEF Received, Dispatch
    <3>2. ~chip'.rcvdav /\ chip'.toggle = chip.toggle
      BY <1>1, <3>1, ReadyFacts DEF Chip
    <3>3. chip'.toggle = (Stored' + 1) % 2
      <4>1. (Stored + 1 + 1) % 2 = Stored % 2
        BY <2>1
      <4> QED
        BY <2>2, <2>3, <3>2, <4>1
    <3>5. answer'.sent \in {Stored' - 1, Stored'}
      BY <1>1, <2>1, <2>2, <2>3
    <3>4. Stored' < answer'.length
      BY <1>1, <2>1, <2>2, <2>3, <2>5, <2>6
    <3> QED
      BY <1>3, <2>4, <3>1, <3>2, <3>3, <3>4, <3>5 DEF WholeInv, AnswerInv, WholeAnswer
  <2>7. CASE Complete
    <3>1. token' = "OUTHS"
      BY <1>3, <2>7 DEF Received, Dispatch
    <3>2. Stored' = answer'.length
      BY <1>1, <2>5, <2>7
    <3> QED
      BY <1>3, <2>4, <3>1, <3>2 DEF WholeInv, AnswerInv, WholeAnswer
  <2> QED
    BY <2>6, <2>7
<1> QED
  BY <1>2, <1>3

\* The device sends the packet the host waits for, or repeats the last one.
LEMMA SendWhole ==
  ASSUME IndInv, WholeInv, chip.running, SendAnswer, HostUnchanged PROVE WholeInv'
<1> DEFINE p == [number |-> answer.sent,
                 short |-> answer.sent + 1 = answer.length /\ answer.length < AnswerPackets]
<1> DEFINE t == (answer.sent + 1) % 2
<1>1. /\ token = "IN" /\ request = "read" /\ answer.sent < answer.length /\ Arrives(p, t)
      /\ answer'.length = answer.length /\ answer'.sent \in {answer.sent, answer.sent + 1}
  <2>1. answer \in [length : 1 .. AnswerPackets, sent : 0 .. AnswerPackets]
    BY DEF IndInv, TypeOK
  <2> QED
    BY <2>1 DEF SendAnswer
<1>2. /\ UNCHANGED <<token, request, buffer>> /\ Stored' = Stored /\ chip \in Chip
      /\ Stored \in Nat /\ answer.sent \in Nat /\ answer.length \in Nat
  BY AnswerTypes DEF HostUnchanged, Stored
<1>3. ~chip.rcvdav
  BY DEF IndInv, ChipInv
<1>4. /\ \A i \in 1 .. Stored : buffer[i].number = i - 1
      /\ Stored < answer.length /\ chip.toggle = (Stored + 1) % 2
      /\ answer.sent \in {Stored - 1, Stored}
  BY <1>1, <1>3 DEF WholeInv, AnswerInv
<1>5. CASE answer.sent = Stored
  <2>1. t = chip.toggle /\ p.number = Stored
        /\ (p.short <=> Stored + 1 = answer.length /\ answer.length < AnswerPackets)
    BY <1>4, <1>5
  <2> HIDE DEF p, t
  <2>2. chip' = [Done("hrSUCCESS") EXCEPT !.rcvdav = TRUE, !.fifo = p, !.toggle = 1 - t]
    BY <1>1, <2>1 DEF Arrives
  <2>3. Done("hrSUCCESS") \in Chip
    BY <1>2, ChipTypes
  <2>4. chip'.rcvdav /\ chip'.fifo = p /\ chip'.toggle = 1 - t
    BY <2>2, <2>3 DEF Chip
  <2>5. chip'.toggle = Stored % 2
    BY <1>2, <1>4, <2>1, <2>4
  <2>6. answer'.sent \in {Stored, Stored + 1}
    BY <1>1, <1>5
  <2> QED
    BY <1>1, <1>2, <1>4, <2>1, <2>4, <2>5, <2>6 DEF WholeInv, AnswerInv, WholeAnswer
<1>6. CASE answer.sent = Stored - 1
  <2>1. t # chip.toggle
    BY <1>2, <1>4, <1>6
  <2>2. chip' \in {Done("hrTOGERR"), Done("hrSUCCESS")}
    BY <1>1, <2>1 DEF Arrives
  <2>3. ~chip'.rcvdav /\ chip'.toggle = chip.toggle
    BY <1>2, <1>3, <2>2 DEF Done, Chip
  <2>4. answer'.sent \in {Stored - 1, Stored}
    BY <1>1, <1>2, <1>6
  <2> QED
    BY <1>1, <1>2, <1>4, <2>3, <2>4 DEF WholeInv, AnswerInv, WholeAnswer
<1> QED
  BY <1>4, <1>5, <1>6

LEMMA BusWhole == ASSUME IndInv, IndInv', WholeInv, Bus PROVE WholeInv'
<1>1. /\ chip.running /\ HostUnchanged /\ chip \in Chip /\ ~chip.rcvdav /\ token # "none"
      /\ UNCHANGED <<request, token, buffer, rcode>> /\ Stored' = Stored
  BY DEF Bus, HostUnchanged, Stored, IndInv, ChipInv, TypeOK, Chip
<1>2. \A h \in HRSLT : ~Done(h).rcvdav /\ Done(h).toggle = chip.toggle
  BY <1>1 DEF Done, Chip
\* the chip's result without a packet, and no answer to a SETUP
<1>3. ASSUME UNCHANGED answer, ~chip'.rcvdav, chip'.toggle = chip.toggle,
             token = "SETUP" => ~(chip'.done /\ chip'.hrsl = "hrSUCCESS")
      PROVE  WholeInv'
  BY <1>1, <1>3 DEF WholeInv, AnswerInv, WholeAnswer
<1>4. CASE Lost \/ Refuse \/ TakeStatus
  <2>1. (\E h \in HRSLT : chip' = Done(h)) /\ UNCHANGED answer
    BY <1>4 DEF Lost, Refuse, TakeStatus, deviceVars
  <2>2. token = "SETUP" => chip'.hrsl # "hrSUCCESS"
    BY <1>1, <1>4 DEF Lost, Refuse, TakeStatus, Done, Chip
  <2> QED
    BY <1>2, <1>3, <2>1, <2>2
<1>5. CASE TakeSetup
  <2>1. token = "SETUP" /\ answer'.sent = 0
    BY <1>5 DEF TakeSetup
  <2> QED
    BY <1>1, <2>1 DEF WholeInv, AnswerInv, WholeAnswer
<1>6. CASE SendAnswer
  BY <1>1, <1>6, SendWhole
<1>7. CASE SendReport
  BY <1>1, <1>7, OtherRequest DEF SendReport
<1>8. CASE Hang
  <2>1. chip' = [chip EXCEPT !.running = FALSE] /\ UNCHANGED answer
    BY <1>8 DEF Hang, deviceVars
  <2>2. ~chip'.rcvdav /\ chip'.toggle = chip.toggle /\ ~chip'.done
    BY <1>1, <2>1 DEF Chip, IndInv, ChipInv
  <2> QED
    BY <1>3, <2>1, <2>2
<1> QED
  BY <1>4, <1>5, <1>6, <1>7, <1>8 DEF Bus

LEMMA WholeStep == ASSUME IndInv, IndInv', WholeInv, [Next]_vars PROVE WholeInv'
<1>1. CASE CtrlND \/ Poll
  BY <1>1, OtherRequest DEF CtrlND, Poll
<1>2. CASE Tick \/ UNCHANGED vars
  BY <1>2 DEF Tick, vars, callVars, deviceVars, WholeInv, AnswerInv, WholeAnswer, Stored
<1> QED
  BY <1>1, <1>2, SetupWhole, DataWhole, RetryWhole, ReturnWhole, ReceivedWhole, BusWhole
     DEF Next, Host

\* A control read that returns 0 has stored the device's whole answer, in
\* order, for answers of any length and any limits (transfer.c:100-121, 191-223).
THEOREM AnswersWhole == Spec => []WholeAnswer
<1>1. Init => WholeInv
  BY DEF Init, WholeInv, AnswerInv, WholeAnswer
<1>2. IndInv /\ IndInv' /\ WholeInv /\ [Next]_vars => WholeInv'
  BY WholeStep
<1>3. WholeInv => WholeAnswer
  BY DEF WholeInv
<1> QED
  BY <1>1, <1>2, <1>3, IndHolds, PTL DEF Spec
=============================================================================
