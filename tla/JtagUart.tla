------------------------------ MODULE JtagUart ------------------------------
(***************************************************************************)
(* The console: altera_avalon_jtag_uart_{init,read,write,ioctl}.c of the   *)
(* BSP, through which every printf of the program goes.  One task calls    *)
(* read, write and close; the interrupt routine and the once-a-second      *)
(* alarm preempt it between any two accesses to the shared state, except   *)
(* where it has disabled interrupts; the FIFOs and the host at the other   *)
(* end of the cable run on all the time (external).                        *)
(* Characters are numbered in the order they are written, or sent by the   *)
(* host, so that a lost, repeated or overtaken one shows.                  *)
(***************************************************************************)
EXTENDS Integers, Sequences

CONSTANTS
  BufLen,       \* ALTERA_AVALON_JTAG_UART_BUF_LEN
  Depth,        \* characters each hardware FIFO holds
  Threshold,    \* WI is raised when the write FIFO holds no more than this
  Timeout,      \* ALTERA_AVALON_JTAG_UART_DEFAULT_TIMEOUT, in seconds
  MaxOut,       \* bound: characters the program writes
  MaxIn         \* bound: characters the host sends

ASSUME JtagUartAssumption ==
  /\ BufLen \in Nat /\ BufLen >= 2
  /\ Depth \in Nat /\ Threshold \in Nat /\ Threshold < Depth
  /\ Timeout \in Nat /\ Timeout >= 2
  /\ {MaxOut, MaxIn} \subseteq Nat

Slots == 0..BufLen - 1

VARIABLES
  \* altera_avalon_jtag_uart_state
  irq_enable, host_inactive, rx_in, rx_out, tx_in, tx_out, rx_buf, tx_buf,
  \* the device, the cable, and how many characters have gone each way
  control,      \* the enable bits in the control register
  ac,           \* AC: the host has been seen since the bit was cleared
  txf, rxf,     \* the FIFOs
  attached,     \* a host listens at the other end
  given, taken, \* characters the host has sent and received
  \* altera_avalon_jtag_uart_irq
  isr,          \* off, control, receive, transmit
  wi, space,    \* its copies of WI and WSPACE
  ravail,       \* RAVAIL of its last read of the data register
  \* the task
  pc,
  nonblock,     \* flags & O_NONBLOCK
  count,        \* write: count; read: space
  moved,        \* ptr - start, ptr - buffer
  in, out, n,   \* the locals of the same names
  buffer,       \* the characters read has copied to its caller
  written, read \* characters published to the transmit buffer and freed of
                \* the receive buffer, over all calls

ringVars   == <<rx_in, rx_out, tx_in, tx_out, rx_buf, tx_buf>>
deviceVars == <<control, ac, txf, rxf>>
hostVars   == <<attached, given, taken>>
isrVars    == <<isr, wi, space, ravail>>
locals     == <<nonblock, count, moved, in, out, n, buffer>>
taskVars   == <<pc, locals, written, read>>
vars == <<irq_enable, host_inactive, ringVars, deviceVars, hostVars, isrVars, taskVars>>

\* What only the interrupt routine, the alarm and the host change.
asyncVars  == <<host_inactive, ac, txf, rxf, hostVars, isrVars>>
\* What a step of the task that looks only at its locals leaves alone.
othersVars == <<irq_enable, control, asyncVars, ringVars, written, read>>

Advance(i) == (i + 1) % BufLen

\* How many slots from o up to i hold a character, and the kth of them.
Used(i, o) == IF i >= o THEN i - o ELSE i + BufLen - o
Slot(o, k) == IF o + k <= BufLen THEN o + k - 1 ELSE o + k - 1 - BufLen

Least(i, j) == IF i <= j THEN i ELSE j

\* altera_avalon_jtag_uart_init
Init ==
  /\ irq_enable = {"RE"} /\ control = {"RE"}
  /\ host_inactive = 0
  /\ rx_in = 0 /\ rx_out = 0 /\ tx_in = 0 /\ tx_out = 0
  /\ rx_buf = [s \in Slots |-> 0] /\ tx_buf = [s \in Slots |-> 0]
  /\ ac = FALSE /\ txf = <<>> /\ rxf = <<>>
  /\ attached \in BOOLEAN /\ given = 0 /\ taken = 0
  /\ isr = "off" /\ wi = FALSE /\ space = 0 /\ ravail = FALSE
  /\ pc = "idle" /\ nonblock = FALSE /\ count = 0 /\ moved = 0
  /\ in = 0 /\ out = 0 /\ n = 0 /\ buffer = <<>>
  /\ written = 0 /\ read = 0

(***************************************************************************)
(* altera_avalon_jtag_uart_write.  A step of the task is taken only while  *)
(* no interrupt is served; its locals end with the call.                   *)
(***************************************************************************)
Task(from, to) ==
  /\ isr = "off"
  /\ pc = from
  /\ pc' = to

Arguments(c, nb) ==
  /\ count' = c
  /\ nonblock' = nb
  /\ moved' = 0 /\ in' = 0 /\ out' = 0 /\ n' = 0 /\ buffer' = <<>>

KeepLocals == IF pc' = "idle" THEN Arguments(0, FALSE) ELSE UNCHANGED locals

Moved ==
  /\ moved' = moved + n
  /\ count' = count - n
  /\ in' = 0 /\ out' = 0 /\ n' = 0
  /\ UNCHANGED <<nonblock, buffer>>

WriteCall(c, nb) == Task("idle", "space") /\ Arguments(c, nb) /\ UNCHANGED othersVars

\* mutant: a full buffer is taken for an empty one
ContiguousAll(i, o) ==
  IF i < o THEN o - i ELSE BufLen - i

Contiguous(i, o) ==
  IF i < o THEN o - 1 - i ELSE IF o > 0 THEN BufLen - i ELSE BufLen - 1 - i

WriteSpace ==
  LET room == Contiguous(tx_in, tx_out) IN
  /\ Task("space", IF count > 0 /\ room > 0 THEN "copy" ELSE "kick")
  /\ IF count > 0
     THEN in' = tx_in /\ out' = tx_out /\ n' = Least(room, count)
     ELSE UNCHANGED <<in, out, n>>
  /\ UNCHANGED <<nonblock, count, moved, buffer, othersVars>>

WriteCopy ==
  /\ Task("copy", "publish")
  /\ tx_buf' = [s \in Slots |-> IF s \in in..in + n - 1 THEN written + 1 + (s - in)
                                                        ELSE tx_buf[s]]
  /\ UNCHANGED <<locals, irq_enable, control, asyncVars, written, read,
                 rx_in, rx_out, tx_in, tx_out, rx_buf>>

WritePublish ==
  /\ Task("publish", "space")
  /\ tx_in' = (in + n) % BufLen
  /\ written' = written + n
  /\ Moved
  /\ UNCHANGED <<irq_enable, control, asyncVars, read,
                 rx_in, rx_out, tx_out, rx_buf, tx_buf>>

\* mutant: the transmit interrupt is turned on only when the buffer is full
WriteKickIfFull ==
  /\ Task("kick", IF count > 0 /\ ~nonblock THEN "full" ELSE "idle")
  /\ irq_enable' = IF count > 0 THEN irq_enable \cup {"WE"} ELSE irq_enable
  /\ control' = irq_enable'
  /\ KeepLocals
  /\ UNCHANGED <<asyncVars, ringVars, written, read>>

WriteKick ==
  /\ Task("kick", IF count > 0 /\ ~nonblock THEN "full" ELSE "idle")
  /\ irq_enable' = irq_enable \cup {"WE"}
  /\ control' = irq_enable'
  /\ KeepLocals
  /\ UNCHANGED <<asyncVars, ringVars, written, read>>

WriteWait ==
  /\ Task("full", "room")
  /\ out # tx_out \/ host_inactive >= Timeout
  /\ KeepLocals
  /\ UNCHANGED othersVars

WriteResume ==
  /\ Task("room", IF host_inactive > 0 THEN "idle" ELSE "space")
  /\ KeepLocals
  /\ UNCHANGED othersVars

(***************************************************************************)
(* altera_avalon_jtag_uart_read.                                           *)
(***************************************************************************)
ReadCall(c, nb) == Task("idle", "take") /\ Arguments(c, nb) /\ UNCHANGED othersVars

ReadTake ==
  LET avail == IF rx_in >= rx_out THEN rx_in - rx_out ELSE BufLen - rx_out IN
  /\ Task("take", IF avail > 0 THEN "fetch"
                  ELSE IF moved > 0 THEN "rearm"
                  ELSE IF nonblock THEN "idle" ELSE "empty")
  /\ IF pc' = "idle"
     THEN Arguments(0, FALSE)
     ELSE /\ in' = rx_in /\ out' = rx_out /\ n' = Least(avail, count)
          /\ UNCHANGED <<nonblock, count, moved, buffer>>
  /\ UNCHANGED othersVars

ReadFetch ==
  /\ Task("fetch", "free")
  /\ buffer' = buffer \o [i \in 1..n |-> rx_buf[out + i - 1]]
  /\ UNCHANGED <<nonblock, count, moved, in, out, n, othersVars>>

ReadFree ==
  /\ Task("free", IF count > n THEN "take" ELSE "rearm")
  /\ rx_out' = (out + n) % BufLen
  /\ read' = read + n
  /\ Moved
  /\ UNCHANGED <<irq_enable, control, asyncVars, written,
                 rx_in, tx_in, tx_out, rx_buf, tx_buf>>

ReadWait ==
  /\ Task("empty", "arrived")
  /\ in # rx_in \/ host_inactive >= Timeout
  /\ KeepLocals
  /\ UNCHANGED othersVars

ReadResume ==
  /\ Task("arrived", IF in = rx_in THEN "idle" ELSE "take")
  /\ KeepLocals
  /\ UNCHANGED othersVars

\* mutant: the receive interrupt is left as it is
ReadLeavesInterrupt ==
  /\ Task("rearm", "idle")
  /\ KeepLocals
  /\ UNCHANGED othersVars

ReadRearm ==
  /\ Task("rearm", "idle")
  /\ irq_enable' = irq_enable \cup {"RE"}
  /\ control' = irq_enable'
  /\ KeepLocals
  /\ UNCHANGED <<asyncVars, ringVars, written, read>>

(***************************************************************************)
(* altera_avalon_jtag_uart_close.                                          *)
(***************************************************************************)
CloseCall(nb) == Task("idle", "drain") /\ Arguments(0, nb) /\ UNCHANGED othersVars

CloseReturn ==
  /\ Task("drain", "idle")
  /\ tx_out = tx_in \/ host_inactive >= Timeout \/ nonblock
  /\ KeepLocals
  /\ UNCHANGED othersVars

(***************************************************************************)
(* altera_avalon_jtag_uart_irq.  The interrupt is raised while a character *)
(* waits in the read FIFO or the write FIFO runs low, each if enabled.     *)
(***************************************************************************)
RI == "RE" \in control /\ rxf # <<>>
WI == "WE" \in control /\ Len(txf) <= Threshold

IsrControl ==
  /\ isr \in {"off", "control"}
  /\ RI \/ WI
  /\ isr' = IF RI THEN "receive" ELSE "transmit"
  /\ wi' = WI
  /\ space' = Depth - Len(txf)
  /\ ravail' = RI
  /\ UNCHANGED <<irq_enable, host_inactive, ringVars, deviceVars, hostVars, taskVars>>

IsrReturn ==
  /\ isr = "control"
  /\ ~(RI \/ WI)
  /\ isr' = "off"
  /\ UNCHANGED <<wi, space, ravail, irq_enable, host_inactive, ringVars, deviceVars,
                 hostVars, taskVars>>

IsrLoop == isr' = "control" /\ wi' = FALSE /\ space' = 0 /\ ravail' = FALSE

\* mutant: the index after the last slot is not the first
RxFullUnwrapped == rx_in + 1 = rx_out

RxFull == Advance(rx_in) = rx_out

IsrReceive ==
  /\ isr = "receive"
  /\ ~RxFull
  /\ rxf # <<>>
  /\ rx_buf' = [rx_buf EXCEPT ![rx_in] = Head(rxf)]
  /\ rx_in' = Advance(rx_in)
  /\ rxf' = Tail(rxf)
  /\ ravail' = (rxf' # <<>>)
  /\ UNCHANGED <<isr, wi, space, irq_enable, host_inactive, rx_out, tx_in, tx_out, tx_buf,
                 control, ac, txf, hostVars, taskVars>>

\* The inner loop ends at an empty FIFO, or at a full buffer with more to come.
AfterReceive ==
  IF wi THEN isr' = "transmit" /\ ravail' = FALSE /\ UNCHANGED <<wi, space>>
        ELSE IsrLoop

IsrReceiveEmpty ==
  /\ isr = "receive"
  /\ ~RxFull
  /\ rxf = <<>>
  /\ AfterReceive
  /\ UNCHANGED <<irq_enable, host_inactive, ringVars, deviceVars, hostVars, taskVars>>

IsrReceiveFull ==
  /\ isr = "receive"
  /\ RxFull
  /\ irq_enable' = IF ravail THEN irq_enable \ {"RE"} ELSE irq_enable
  /\ control' = IF ravail THEN irq_enable' ELSE control
  /\ AfterReceive
  /\ UNCHANGED <<host_inactive, ringVars, ac, txf, rxf, hostVars, taskVars>>

\* mutant: a copy of the space taken before the last character is trusted
IsrTransmitPast ==
  /\ isr = "transmit"
  /\ space > 0
  /\ txf' = Append(txf, tx_buf[tx_out])
  /\ tx_out' = Advance(tx_out)
  /\ space' = space - 1
  /\ UNCHANGED <<isr, wi, ravail, irq_enable, host_inactive, rx_in, rx_out, tx_in, rx_buf,
                 tx_buf, control, ac, rxf, hostVars, taskVars>>

IsrTransmit ==
  /\ isr = "transmit"
  /\ space > 0 /\ tx_out # tx_in
  /\ txf' = Append(txf, tx_buf[tx_out])
  /\ tx_out' = Advance(tx_out)
  /\ space' = space - 1
  /\ UNCHANGED <<isr, wi, ravail, irq_enable, host_inactive, rx_in, rx_out, tx_in, rx_buf,
                 tx_buf, control, ac, rxf, hostVars, taskVars>>

\* mutant: the interrupt is turned off when the FIFO is full, too
IsrTransmitAlwaysOff ==
  /\ isr = "transmit"
  /\ ~(space > 0 /\ tx_out # tx_in)
  /\ irq_enable' = irq_enable \ {"WE"}
  /\ control' = irq_enable'
  /\ IsrLoop
  /\ UNCHANGED <<host_inactive, ringVars, ac, txf, rxf, hostVars, taskVars>>

IsrTransmitEnd ==
  /\ isr = "transmit"
  /\ ~(space > 0 /\ tx_out # tx_in)
  /\ irq_enable' = IF space > 0 THEN irq_enable \ {"WE"} ELSE irq_enable
  /\ control' = IF space > 0 THEN irq_enable' ELSE control
  /\ IsrLoop
  /\ UNCHANGED <<host_inactive, ringVars, ac, txf, rxf, hostVars, taskVars>>

(***************************************************************************)
(* altera_avalon_jtag_uart_timeout, an alarm: it runs from the timer's     *)
(* interrupt, which waits for the routine above.  host_inactive counts on  *)
(* past the timeout; every value from there on has the same effect, so the *)
(* count is capped at it.                                                  *)
(***************************************************************************)
\* mutant: the count starts over while the host is absent
AlarmStartsOver ==
  /\ isr = "off"
  /\ ac' = FALSE
  /\ control' = IF ac THEN irq_enable ELSE control
  /\ host_inactive' = 0
  /\ UNCHANGED <<irq_enable, ringVars, txf, rxf, hostVars, isrVars, taskVars>>

Alarm ==
  /\ isr = "off"
  /\ ac' = FALSE
  /\ control' = IF ac THEN irq_enable ELSE control
  /\ host_inactive' = IF ac THEN 0 ELSE Least(host_inactive + 1, Timeout)
  /\ UNCHANGED <<irq_enable, ringVars, txf, rxf, hostVars, isrVars, taskVars>>

(***************************************************************************)
(* External: the host.                                                     *)
(***************************************************************************)
HostGives ==
  /\ attached /\ given < MaxIn /\ Len(rxf) < Depth
  /\ given' = given + 1
  /\ rxf' = Append(rxf, given')
  /\ ac' = TRUE
  /\ UNCHANGED <<irq_enable, host_inactive, ringVars, control, txf,
                 attached, taken, isrVars, taskVars>>

HostTakes ==
  /\ attached /\ txf # <<>>
  /\ taken' = taken + 1
  /\ txf' = Tail(txf)
  /\ ac' = TRUE
  /\ UNCHANGED <<irq_enable, host_inactive, ringVars, control, rxf,
                 attached, given, isrVars, taskVars>>

HostPolls ==
  /\ attached /\ ~ac
  /\ ac' = TRUE
  /\ UNCHANGED <<irq_enable, host_inactive, ringVars, control, txf, rxf,
                 hostVars, isrVars, taskVars>>

HostComesOrGoes ==
  /\ attached' = ~attached
  /\ UNCHANGED <<irq_enable, host_inactive, ringVars, deviceVars, given, taken,
                 isrVars, taskVars>>

Call ==
  \E nb \in BOOLEAN :
    \/ \E c \in 1..MaxOut - written : WriteCall(c, nb)
    \/ \E c \in 1..BufLen - 1 : ReadCall(c, nb)
    \/ CloseCall(nb)

Running ==
  \/ WriteSpace \/ WriteCopy \/ WritePublish \/ WriteKick \/ WriteWait \/ WriteResume
  \/ ReadTake \/ ReadFetch \/ ReadFree \/ ReadWait \/ ReadResume \/ ReadRearm
  \/ CloseReturn

Interrupt ==
  \/ IsrControl \/ IsrReturn \/ IsrReceive \/ IsrReceiveEmpty \/ IsrReceiveFull
  \/ IsrTransmit \/ IsrTransmitEnd

Host == HostGives \/ HostTakes \/ HostPolls \/ HostComesOrGoes

Next == Call \/ Running \/ Interrupt \/ Alarm \/ Host

Spec == Init /\ [][Next]_vars

\* The processor runs the task, takes pending interrupts and the second's
\* tick comes round; a host that is there, or comes back, takes what is sent.
FairSpec ==
  Spec /\ WF_vars(Running) /\ WF_vars(Interrupt) /\ WF_vars(Alarm) /\ SF_vars(HostTakes)

(***************************************************************************)
(* Properties.                                                             *)
(***************************************************************************)
WritePcs == {"space", "copy", "publish", "kick", "full", "room"}
ReadPcs  == {"take", "fetch", "free", "empty", "arrived", "rearm"}

TypeOK ==
  /\ irq_enable \subseteq {"RE", "WE"} /\ control = irq_enable
  /\ host_inactive \in 0..Timeout
  /\ rx_in \in Slots /\ rx_out \in Slots /\ tx_in \in Slots /\ tx_out \in Slots
  /\ rx_buf \in [Slots -> Nat] /\ tx_buf \in [Slots -> Nat]
  /\ ac \in BOOLEAN /\ attached \in BOOLEAN
  /\ txf \in Seq(Nat) /\ Len(txf) <= Depth
  /\ rxf \in Seq(Nat) /\ Len(rxf) <= Depth
  /\ given \in Nat /\ read \in Nat /\ written \in Nat /\ taken \in Nat
  /\ isr \in {"off", "control", "receive", "transmit"}
  /\ wi \in BOOLEAN /\ ravail \in BOOLEAN /\ space \in 0..Depth
  /\ pc \in {"idle", "drain"} \cup WritePcs \cup ReadPcs
  /\ nonblock \in BOOLEAN /\ count \in Nat /\ moved \in Nat
  /\ in \in Slots /\ out \in Slots /\ n \in Slots /\ buffer \in Seq(Nat)

\* What has been written and the host has not taken is in the write FIFO and
\* the transmit buffer, in the order of the writes.
OutputInOrder ==
  /\ taken + Len(txf) + Used(tx_in, tx_out) = written
  /\ \A i \in 1..Len(txf) : txf[i] = taken + i
  /\ \A i \in 1..Used(tx_in, tx_out) : tx_buf[Slot(tx_out, i)] = taken + Len(txf) + i

\* What the host has sent and read has not returned is in the receive buffer
\* and the read FIFO, in order, and read has returned what came before.
InputInOrder ==
  /\ read + Used(rx_in, rx_out) + Len(rxf) = given
  /\ \A i \in 1..Used(rx_in, rx_out) : rx_buf[Slot(rx_out, i)] = read + i
  /\ \A i \in 1..Len(rxf) : rxf[i] = read + Used(rx_in, rx_out) + i
  /\ \A i \in 1..Len(buffer) : buffer[i] = read - moved + i

\* Published output is never left without the interrupt that sends it, but
\* for the moment before write turns it on.
PendingOutputIsArmed ==
  tx_in # tx_out /\ ~(pc \in {"space", "copy", "publish", "kick"} /\ moved > 0) =>
    "WE" \in control

\* The receive interrupt is off only while the buffer is full or a reader
\* that has made room in it has yet to turn it on.
InputIsArmed ==
  "RE" \notin control => RxFull \/ (pc \in ReadPcs /\ moved > 0)

\* Whether a host is there or not, a write and a close return.
WriteReturns == (pc \in WritePcs \cup {"drain"}) ~> (pc = "idle")

\* A read that finds a character in the buffer returns with one, and so does a
\* blocking read for whom one has come, wherever on the way it is, unless the
\* host is taken for absent before the character is in the buffer (read.c:174).
\* (Only a read that has something to return comes to "rearm"; nothing
\* obliges the program to call read once more.)
ReadGetsInput ==
  /\ (pc = "take" /\ rx_in # rx_out) ~> (pc = "rearm")
  /\ (pc \in {"take", "empty"} /\ ~nonblock /\ read < given) ~>
       (pc = "rearm" \/ host_inactive >= Timeout)

\* What has been written reaches a host that stays at the cable.
OutputReachesHost == (written > taken) ~> (written = taken \/ ~attached)
=============================================================================
