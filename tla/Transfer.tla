------------------------------ MODULE Transfer ------------------------------
(***************************************************************************)
(* USB transfers (transfer.c:53-227): XferCtrlReq with its two data stages,*)
(* XferInTransfer and XferDispatchPkt, with the chip, the bus and the      *)
(* device that answer them.  Endpoint 0 is the control endpoint, endpoint  *)
(* 1 the interrupt endpoint a boot device's reports are polled from.       *)
(*                                                                         *)
(* Packets are numbers: the k-th of an answer, the k-th report packet.     *)
(* Bytes are counted in packets: "short" ends a transfer early.            *)
(***************************************************************************)
EXTENDS Millis, Sequences

CONSTANTS
  USB_XFER_TIMEOUT,   \* 5000
  USB_NAK_LIMIT,      \* 200
  USB_RETRY_LIMIT,    \* 3
  AnswerPackets,      \* packets a control read asks for: nbytes over MaxPktSize
  PollPackets,        \* packets a poll asks for: 8 over the endpoint's MaxPktSize
  ChipTime,           \* ms within which an attempt the chip works on is over
  MaxReports          \* bound: report packets the device has to send

ASSUME TransferAssumption ==
  /\ {USB_XFER_TIMEOUT, USB_NAK_LIMIT, USB_RETRY_LIMIT, AnswerPackets, PollPackets}
       \subseteq Nat \ {0}
  /\ MaxReports \in Nat

\* All the attempts the two limits allow are over before the one deadline: in
\* the code 202 * ChipTime < 5000, which holds up to 24 ms.  (A transaction
\* takes less than a frame of 1 ms and may have to wait for the next one.)
ASSUME ChipAssumption ==
  /\ ChipTime \in Nat
  /\ (USB_NAK_LIMIT + USB_RETRY_LIMIT - 1) * ChipTime < USB_XFER_TIMEOUT

VARIABLES
  request,    \* what was asked for last: "read", "write" (no data stage) or "poll"
  token,      \* token of the XferDispatchPkt that waits, "none" between requests
  timeout, nak_count, retry_count,    \* its locals
  elapsed,    \* external: ms the present attempt has taken
  rcode,      \* what the last request returned
  buffer,     \* packets stored by this request's XferInTransfer
  rcvToggle,  \* epinfo[ep].rcvToggle
  reports,    \* history: the report packets that main was given with rcode 0
  chip,       \* MAX3421E: HXFR transfer running, HXFRDNIRQ, HRSLT, RCVDAVIRQ,
              \* RCVFIFO, RCVTOGRD
  answer,     \* device: packets of the answer, and how many it knows are received
  nextReport  \* device: the report packet it sends next

callVars   == <<timeout, nak_count, retry_count, elapsed>>
deviceVars == <<answer, nextReport>>
vars == <<now, request, token, callVars, rcode, buffer, rcvToggle, reports, chip, deviceVars>>

Endpoint   == IF request = "poll" THEN 1 ELSE 0
Expected   == IF Endpoint = 1 THEN PollPackets ELSE AnswerPackets
HRSLT      == {"hrSUCCESS", "hrNAK", "hrTIMEOUT", "hrSTALL", "hrTOGERR"}
Packet     == [number : Nat, short : BOOLEAN]
NoPacket   == [number |-> 0, short |-> FALSE]

(***************************************************************************)
(* XferDispatchPkt: launch, and wait for HXFRDNIRQ until the deadline that *)
(* is computed once for all attempts.                                      *)
(***************************************************************************)
Dispatch(t, c) ==
  /\ token' = t /\ chip' = [c EXCEPT !.running = TRUE]
  /\ timeout' = Deadline(USB_XFER_TIMEOUT) /\ nak_count' = 0 /\ retry_count' = 0
  /\ elapsed' = 0
  /\ UNCHANGED rcode

\* The locals of a call that has returned are put to 0.
Return(r, c) ==
  /\ token' = "none" /\ rcode' = r /\ chip' = c
  /\ timeout' = 0 /\ nak_count' = 0 /\ retry_count' = 0 /\ elapsed' = 0

Ready == token # "none" /\ now < timeout /\ chip.done
Cleared == [chip EXCEPT !.done = FALSE]

\* mutants: the counters forget each other; one NAK too many
AgainForgets(hrsl) ==
  \/ /\ hrsl = "hrNAK" /\ nak_count + 1 < USB_NAK_LIMIT
     /\ nak_count' = nak_count + 1 /\ retry_count' = 0
  \/ /\ hrsl = "hrTIMEOUT" /\ retry_count + 1 < USB_RETRY_LIMIT
     /\ retry_count' = retry_count + 1 /\ nak_count' = 0
AgainOnceMore(hrsl) ==
  \/ /\ hrsl = "hrNAK" /\ nak_count < USB_NAK_LIMIT
     /\ nak_count' = nak_count + 1 /\ UNCHANGED retry_count
  \/ /\ hrsl = "hrTIMEOUT" /\ retry_count < USB_RETRY_LIMIT
     /\ retry_count' = retry_count + 1 /\ UNCHANGED nak_count

Again(hrsl) ==
  \/ /\ hrsl = "hrNAK" /\ nak_count + 1 < USB_NAK_LIMIT
     /\ nak_count' = nak_count + 1 /\ UNCHANGED retry_count
  \/ /\ hrsl = "hrTIMEOUT" /\ retry_count + 1 < USB_RETRY_LIMIT
     /\ retry_count' = retry_count + 1 /\ UNCHANGED nak_count

Retry ==
  /\ Ready /\ Again(chip.hrsl)
  /\ chip' = [Cleared EXCEPT !.running = TRUE] /\ elapsed' = 0
  /\ UNCHANGED <<now, request, token, timeout, rcode, buffer, rcvToggle, reports, deviceVars>>

LimitReached(hrsl) ==
  /\ hrsl = "hrNAK" => nak_count + 1 >= USB_NAK_LIMIT
  /\ hrsl = "hrTIMEOUT" => retry_count + 1 >= USB_RETRY_LIMIT

GiveUp ==
  /\ Ready /\ chip.hrsl # "hrSUCCESS" /\ LimitReached(chip.hrsl)
  /\ Return(chip.hrsl, Cleared)
  /\ UNCHANGED <<now, request, buffer, rcvToggle, reports, deviceVars>>

\* mutant: the clock is looked at only when there is a result
TimedOutOnResult ==
  /\ token # "none" /\ now >= timeout /\ chip.done
  /\ Return("0xff", chip)
  /\ UNCHANGED <<now, request, buffer, rcvToggle, reports, deviceVars>>

TimedOut ==
  /\ token # "none" /\ now >= timeout
  /\ Return("0xff", chip)
  /\ UNCHANGED <<now, request, buffer, rcvToggle, reports, deviceVars>>

(***************************************************************************)
(* The requests and their stages.                                          *)
(***************************************************************************)
\* XferCtrlReq: the SETUP stage.
CtrlReq ==
  /\ token = "none"
  /\ request' \in {"read", "write"} /\ buffer' = <<>>
  /\ Dispatch("SETUP", chip)
  /\ UNCHANGED <<now, rcvToggle, reports, deviceVars>>

\* XferCtrlData sets the toggle to DATA1 and starts XferInTransfer.
CtrlData ==
  /\ Ready /\ chip.hrsl = "hrSUCCESS" /\ token = "SETUP" /\ request = "read"
  /\ rcvToggle' = [rcvToggle EXCEPT ![0] = 1]
  /\ Dispatch("IN", [Cleared EXCEPT !.toggle = 1])
  /\ UNCHANGED <<now, request, buffer, reports, deviceVars>>

\* XferCtrlND asks for the status at once.
CtrlND ==
  /\ Ready /\ chip.hrsl = "hrSUCCESS" /\ token = "SETUP" /\ request = "write"
  /\ Dispatch("INHS", Cleared)
  /\ UNCHANGED <<now, request, buffer, rcvToggle, reports, deviceVars>>

\* kbdPoll and mousePoll: XferInTransfer loads the toggle the table remembers.
Poll ==
  /\ token = "none"
  /\ request' = "poll" /\ buffer' = <<>>
  /\ Dispatch("IN", [chip EXCEPT !.toggle = rcvToggle[1]])
  /\ UNCHANGED <<now, rcvToggle, reports, deviceVars>>

\* XferInTransfer: this packet is short, or nbytes have been received.
\* mutant: one packet is always enough
CompleteAtOnce == TRUE
Complete       == chip.fifo.short \/ Len(buffer) + 1 >= Expected

\* mutant: the toggle is not saved
SaveNoToggle == UNCHANGED rcvToggle
SaveToggle   == rcvToggle' = [rcvToggle EXCEPT ![Endpoint] = chip.toggle]

Emptied == [Cleared EXCEPT !.rcvdav = FALSE, !.fifo = NoPacket]

Received ==
  /\ Ready /\ chip.hrsl = "hrSUCCESS" /\ token = "IN" /\ chip.rcvdav
  /\ buffer' = Append(buffer, chip.fifo)
  /\ \/ /\ ~Complete
        /\ Dispatch("IN", Emptied)
        /\ UNCHANGED <<rcvToggle, reports>>
     \/ /\ Complete /\ request = "read"
        /\ SaveToggle
        /\ Dispatch("OUTHS", Emptied)
        /\ UNCHANGED reports
     \/ /\ Complete /\ request = "poll"
        /\ SaveToggle
        /\ reports' = reports \o buffer'
        /\ Return("hrSUCCESS", Emptied)
  /\ UNCHANGED <<now, request, deviceVars>>

NotReceived ==
  /\ Ready /\ chip.hrsl = "hrSUCCESS" /\ token = "IN" /\ ~chip.rcvdav
  /\ Return("0xf0", Cleared)
  /\ UNCHANGED <<now, request, buffer, rcvToggle, reports, deviceVars>>

Status ==
  /\ Ready /\ chip.hrsl = "hrSUCCESS" /\ token \in {"OUTHS", "INHS"}
  /\ Return("hrSUCCESS", Cleared)
  /\ UNCHANGED <<now, request, buffer, rcvToggle, reports, deviceVars>>

Host == \/ CtrlReq \/ CtrlData \/ CtrlND \/ Poll
        \/ Received \/ NotReceived \/ Status \/ Retry \/ GiveUp \/ TimedOut

(***************************************************************************)
(* External: chip, bus and device, in one step for each token on the bus.  *)
(* A packet, or the handshake that answers it, may be lost.  The chip may  *)
(* take ChipTime over an attempt, or never come to a result (Hang); then   *)
(* it does nothing until the next launch.                                  *)
(***************************************************************************)
Done(hrsl) == [chip EXCEPT !.running = FALSE, !.done = TRUE, !.hrsl = hrsl]
HostUnchanged == UNCHANGED <<now, request, token, callVars, rcode, buffer, rcvToggle, reports>>

Lost == chip' = Done("hrTIMEOUT") /\ UNCHANGED deviceVars

Refuse == /\ token # "SETUP" /\ chip' \in {Done("hrNAK"), Done("hrSTALL")}
          /\ UNCHANGED deviceVars

TakeSetup ==
  /\ token = "SETUP"
  /\ \E n \in 1 .. AnswerPackets : answer' = [length |-> n, sent |-> 0]
  /\ chip' \in {Done("hrSUCCESS"), Done("hrTIMEOUT")}
  /\ UNCHANGED nextReport

TakeStatus == token \in {"OUTHS", "INHS"} /\ chip' = Done("hrSUCCESS") /\ UNCHANGED deviceVars

\* A packet with the wrong toggle is acknowledged and dropped.
Arrives(packet, toggle) ==
  IF toggle = chip.toggle
    THEN chip' = [Done("hrSUCCESS") EXCEPT !.rcvdav = TRUE, !.fifo = packet, !.toggle = 1 - toggle]
    ELSE chip' \in {Done("hrTOGERR"), Done("hrSUCCESS")}

SendAnswer ==
  /\ token = "IN" /\ request = "read" /\ answer.sent < answer.length
  /\ Arrives([number |-> answer.sent,
              short |-> answer.sent + 1 = answer.length /\ answer.length < AnswerPackets],
             (answer.sent + 1) % 2)
  /\ answer' \in {answer, [answer EXCEPT !.sent = @ + 1]}
  /\ UNCHANGED nextReport

SendReport ==
  /\ token = "IN" /\ request = "poll" /\ nextReport < MaxReports
  /\ Arrives([number |-> nextReport, short |-> FALSE], nextReport % 2)
  /\ nextReport' \in {nextReport, nextReport + 1}
  /\ UNCHANGED answer

Hang == chip' = [chip EXCEPT !.running = FALSE] /\ UNCHANGED deviceVars

Bus == /\ chip.running
       /\ Lost \/ Refuse \/ TakeSetup \/ TakeStatus \/ SendAnswer \/ SendReport \/ Hang
       /\ HostUnchanged

\* Time passes between requests, during an attempt and while a chip hangs; an
\* attempt that has a result is over, read included, after ChipTime.
Attempting == token # "none" /\ (chip.running \/ chip.done)
Tick == /\ IF Attempting THEN elapsed < ChipTime /\ elapsed' = elapsed + 1
                         ELSE UNCHANGED elapsed
        /\ Advance
        /\ UNCHANGED <<request, token, timeout, nak_count, retry_count, rcode, buffer,
                       rcvToggle, reports, chip, deviceVars>>

Init ==
  /\ now = 0 /\ request = "write" /\ token = "none" /\ rcode = "hrSUCCESS"
  /\ timeout = 0 /\ nak_count = 0 /\ retry_count = 0 /\ elapsed = 0
  /\ buffer = <<>> /\ rcvToggle = [e \in {0, 1} |-> 0] /\ reports = <<>>
  /\ chip = [running |-> FALSE, done |-> FALSE, hrsl |-> "hrSUCCESS",
             rcvdav |-> FALSE, fifo |-> NoPacket, toggle |-> 0]
  /\ answer = [length |-> 1, sent |-> 0] /\ nextReport = 0

Next == Host \/ Bus \/ Tick
Spec == Init /\ [][Next]_vars
\* The loop reads the clock many times a millisecond and misses no reading.
FairSpec == Spec /\ WF_vars(Host) /\ SF_vars(TimedOut) /\ WF_vars(Bus) /\ WF_vars(Tick)

-----------------------------------------------------------------------------

\* Type correctness; in particular the counters stay below their limits.
TypeOK ==
  /\ now \in 0 .. Wrap - 1 /\ timeout \in 0 .. Wrap + USB_XFER_TIMEOUT
  /\ request \in {"read", "write", "poll"}
  /\ token \in {"none", "SETUP", "IN", "OUTHS", "INHS"}
  /\ nak_count \in 0 .. USB_NAK_LIMIT - 1 /\ retry_count \in 0 .. USB_RETRY_LIMIT - 1
  /\ elapsed \in 0 .. ChipTime
  /\ rcode \in HRSLT \cup {"0xf0", "0xff"}
  /\ buffer \in Seq(Packet) /\ reports \in Seq(Packet)
  /\ rcvToggle \in [{0, 1} -> {0, 1}]
  /\ chip \in [running : BOOLEAN, done : BOOLEAN, hrsl : HRSLT, rcvdav : BOOLEAN,
               fifo : Packet, toggle : {0, 1}]
  /\ answer \in [length : 1 .. AnswerPackets, sent : 0 .. AnswerPackets]
  /\ nextReport \in 0 .. MaxReports

\* The reports the polls return are the device's, each once and in order,
\* whatever packet or handshake was lost and whichever poll failed
\* (rcvToggle, loaded and saved by XferInTransfer, transfer.c:198-223).
InOrder == \A i \in 1 .. Len(reports) : reports[i].number = i - 1

\* A control read that returns 0 has stored the device's whole answer, in
\* order, although SETUP and data packets were repeated on the way.
WholeAnswer ==
  (request = "read" /\ token = "none" /\ rcode = "hrSUCCESS") =>
    /\ Len(buffer) = answer.length
    /\ \A i \in 1 .. Len(buffer) : buffer[i].number = i - 1

\* No request leaves a transfer, an interrupt or a packet behind in the chip,
\* which the next one would take for its own result.  A request that times out
\* does not clear the chip (transfer.c:161): it must not be able to while the
\* chip still works, however many attempts were made under its one deadline.
NothingLeftOver == token = "none" => ~chip.running /\ ~chip.done /\ ~chip.rcvdav

\* What makes the statements above inductive (TransferProofs).  The chip
\* works, or holds a result, only for a call that has used no more time than
\* its attempts can have taken, and holds a packet only as the result of an IN.
Spent == (nak_count + retry_count) * ChipTime + elapsed
ChipInv ==
  /\ token = "none" => ~chip.running /\ ~chip.done
  /\ Attempting => now + USB_XFER_TIMEOUT <= timeout + Spent
  /\ chip.running => ~chip.done
  /\ chip.rcvdav => chip.done /\ chip.hrsl = "hrSUCCESS" /\ token = "IN"

\* The three toggles against the number of reports delivered, where a report
\* is one packet.
Delivered == Len(reports)
Holding   == request = "poll" /\ chip.rcvdav
ToggleInv ==
  /\ rcvToggle[1] = Delivered % 2
  /\ request = "poll" /\ token # "none" => token = "IN" /\ buffer = <<>>
  /\ request = "poll" /\ token = "IN" /\ ~chip.rcvdav => chip.toggle = Delivered % 2
  /\ Holding => /\ chip.fifo.number = Delivered
                /\ chip.toggle = (Delivered + 1) % 2
                /\ nextReport \in {Delivered, Delivered + 1}
  /\ ~Holding => nextReport \in {Delivered - 1, Delivered}

\* A control read: the packets stored so far are the first ones of the answer,
\* and the device is at the next packet or, its handshake lost, at the one
\* stored last, which the toggle makes the chip drop.
Stored == Len(buffer)
AnswerInv ==
  request = "read" =>
    /\ token # "INHS"
    /\ token = "SETUP" => /\ buffer = <<>>
                          /\ chip.done /\ chip.hrsl = "hrSUCCESS" => answer.sent = 0
    /\ token \in {"IN", "OUTHS"} => \A i \in 1 .. Stored : buffer[i].number = i - 1
    /\ token = "IN" => Stored < answer.length
    /\ token = "IN" /\ ~chip.rcvdav => /\ chip.toggle = (Stored + 1) % 2
                                       /\ answer.sent \in {Stored - 1, Stored}
    /\ token = "IN" /\ chip.rcvdav =>
         /\ chip.fifo.number = Stored
         /\ chip.fifo.short <=> Stored + 1 = answer.length /\ answer.length < AnswerPackets
         /\ chip.toggle = Stored % 2
         /\ answer.sent \in {Stored, Stored + 1}
    /\ token = "OUTHS" => Stored = answer.length

\* A call whose deadline is one the clock can reach returns, even when the
\* chip never answers.
CallReturns == (token # "none" /\ timeout < Wrap) ~> (token = "none" \/ timeout >= Wrap)
=============================================================================
