--------------------------- MODULE JtagUartProofs ---------------------------
(***************************************************************************)
(* Proofs about JtagUart, for every size of the buffers and FIFOs and      *)
(* every amount of output and input.                                       *)
(*                                                                         *)
(* The argument: the driver has no critical section around its buffers, so *)
(* what a caller computed before it was interrupted must stay right.  It   *)
(* does because each index is advanced by one side only: a writer's room   *)
(* can but grow (WriterInv), a reader's characters can but become more     *)
(* (ReaderInv), and the interrupt routine's copy of the free space of the  *)
(* FIFO can but be too small (RoutineInv).                                 *)
(***************************************************************************)
EXTENDS JtagUart, TLAPS

(***************************************************************************)
(* The type invariant, by the variables that change together.              *)
(***************************************************************************)
FlagTypes ==
  /\ ac \in BOOLEAN /\ attached \in BOOLEAN
  /\ wi \in BOOLEAN /\ ravail \in BOOLEAN /\ nonblock \in BOOLEAN

EnableTypes ==
  /\ irq_enable \subseteq {"RE", "WE"} /\ control = irq_enable
  /\ host_inactive \in 0..Timeout

TxTypes ==
  /\ tx_in \in Slots /\ tx_out \in Slots /\ tx_buf \in [Slots -> Nat]
  /\ txf \in Seq(Nat) /\ Len(txf) <= Depth
  /\ written \in Nat /\ taken \in Nat

RxTypes ==
  /\ rx_in \in Slots /\ rx_out \in Slots /\ rx_buf \in [Slots -> Nat]
  /\ rxf \in Seq(Nat) /\ Len(rxf) <= Depth
  /\ read \in Nat /\ given \in Nat

RoutineTypes ==
  /\ isr \in {"off", "control", "receive", "transmit"}
  /\ space \in 0..Depth

TaskTypes ==
  /\ pc \in {"idle", "drain"} \cup WritePcs \cup ReadPcs
  /\ count \in Nat /\ moved \in Nat
  /\ in \in Slots /\ out \in Slots /\ n \in Slots /\ buffer \in Seq(Nat)

LEMMA TypesTogether ==
  TypeOK <=> FlagTypes /\ EnableTypes /\ TxTypes /\ RxTypes /\ RoutineTypes /\ TaskTypes
BY Zenon DEF TypeOK, FlagTypes, EnableTypes, TxTypes, RxTypes, RoutineTypes, TaskTypes

(***************************************************************************)
(* The inductive invariant.                                                *)
(***************************************************************************)
WriterInv ==
  /\ pc \in {"copy", "publish"} =>
       /\ in = tx_in /\ n >= 1 /\ n <= count
       /\ in + n <= BufLen
       /\ Used(tx_in, tx_out) + n < BufLen
  /\ pc = "publish" => \A s \in in..in + n - 1 : tx_buf[s] = written + 1 + (s - in)

ReaderInv ==
  /\ pc \in {"fetch", "free"} =>
       /\ out = rx_out /\ n >= 1 /\ n <= count
       /\ out + n <= BufLen
       /\ n <= Used(rx_in, rx_out)
  /\ pc \in {"take", "empty", "arrived"} => count >= 1
  /\ pc \in {"empty", "arrived"} => moved = 0
  /\ Len(buffer) = IF pc = "free" THEN moved + n ELSE IF pc \in ReadPcs THEN moved ELSE 0

RoutineInv ==
  isr = "transmit" \/ (isr = "receive" /\ wi) => space + Len(txf) <= Depth

IInv ==
  /\ FlagTypes /\ EnableTypes /\ TxTypes /\ RxTypes /\ RoutineTypes /\ TaskTypes
  /\ OutputInOrder /\ InputInOrder /\ PendingOutputIsArmed /\ InputIsArmed
  /\ WriterInv /\ ReaderInv /\ RoutineInv

(***************************************************************************)
(* The indices.                                                            *)
(***************************************************************************)
LEMMA AdvanceFacts ==
  ASSUME NEW i \in Slots
  PROVE  Advance(i) = (IF i + 1 = BufLen THEN 0 ELSE i + 1) /\ Advance(i) \in Slots
<1>1. i + 1 < BufLen => (i + 1) % BufLen = i + 1
  BY JtagUartAssumption DEF Slots
<1>2. BufLen % BufLen = 0
  BY JtagUartAssumption
<1> QED
  BY <1>1, <1>2, JtagUartAssumption DEF Advance, Slots

LEMMA SumFacts ==
  ASSUME NEW i \in Slots, NEW k \in 1..BufLen - i
  PROVE  /\ (i + k) % BufLen = (IF i + k = BufLen THEN 0 ELSE i + k)
         /\ (i + k) % BufLen \in Slots
<1>1. i + k < BufLen => (i + k) % BufLen = i + k
  BY JtagUartAssumption DEF Slots
<1>2. BufLen % BufLen = 0
  BY JtagUartAssumption
<1> QED
  BY <1>1, <1>2, JtagUartAssumption DEF Slots

LEMMA UsedFacts ==
  ASSUME NEW i \in Slots, NEW o \in Slots
  PROVE  /\ Used(i, o) \in 0..BufLen - 1
         /\ Used(i, o) = 0 <=> i = o
         /\ Used(i, o) = BufLen - 1 <=> Advance(i) = o
         /\ i # o => Used(i, Advance(o)) = Used(i, o) - 1
         /\ Advance(i) # o => Used(Advance(i), o) = Used(i, o) + 1
BY AdvanceFacts, JtagUartAssumption DEF Used, Slots

LEMMA SlotFacts ==
  ASSUME NEW o \in Slots, NEW k \in 1..BufLen
  PROVE  /\ Slot(o, k) \in Slots
         /\ Slot(o, 1) = o
         /\ k < BufLen => Slot(Advance(o), k) = Slot(o, k + 1)
BY AdvanceFacts, JtagUartAssumption DEF Slot, Slots

\* The slots in use are those from o up to i: the next one to fill is i.
LEMMA LastSlot ==
  ASSUME NEW i \in Slots, NEW o \in Slots
  PROVE  /\ Slot(o, Used(i, o) + 1) = i
         /\ \A k \in 1..Used(i, o) : Slot(o, k) # i
BY JtagUartAssumption DEF Slot, Used, Slots

\* A block of k slots from i on, filled at once, or from o on, freed at once.
LEMMA FilledBlock ==
  ASSUME NEW i \in Slots, NEW o \in Slots, NEW k \in 1..BufLen - i,
         Used(i, o) + k < BufLen
  PROVE  /\ Used((i + k) % BufLen, o) = Used(i, o) + k
         /\ \A j \in 1..k : Slot(o, Used(i, o) + j) = i + j - 1
         /\ \A j \in 1..Used(i, o) : Slot(o, j) \notin i..i + k - 1
<1> DEFINE e == (i + k) % BufLen
<1>1. e = (IF i + k = BufLen THEN 0 ELSE i + k) /\ e \in Slots
  BY SumFacts
<1>2. Used(e, o) = Used(i, o) + k
  <2> HIDE DEF e
  <2> QED
    BY <1>1, JtagUartAssumption DEF Used, Slots
<1>3. \A j \in 1..k : Slot(o, Used(i, o) + j) = i + j - 1
  BY JtagUartAssumption DEF Used, Slots, Slot
<1>4. \A j \in 1..Used(i, o) : Slot(o, j) \notin i..i + k - 1
  BY JtagUartAssumption DEF Used, Slots, Slot
<1> QED
  BY <1>2, <1>3, <1>4

LEMMA FreedBlock ==
  ASSUME NEW i \in Slots, NEW o \in Slots, NEW k \in 1..BufLen - o,
         k <= Used(i, o)
  PROVE  /\ Used(i, (o + k) % BufLen) = Used(i, o) - k
         /\ \A j \in 1..Used(i, o) - k : Slot((o + k) % BufLen, j) = Slot(o, k + j)
         /\ \A j \in 1..k : Slot(o, j) = o + j - 1
<1> DEFINE e == (o + k) % BufLen
<1>1. e = (IF o + k = BufLen THEN 0 ELSE o + k) /\ e \in Slots
  BY SumFacts
<1> HIDE DEF e
<1>2. Used(i, e) = Used(i, o) - k
  BY <1>1, JtagUartAssumption DEF Used, Slots
<1>3. \A j \in 1..Used(i, o) - k : Slot(e, j) = Slot(o, k + j)
  BY <1>1, JtagUartAssumption DEF Used, Slots, Slot
<1>4. \A j \in 1..k : Slot(o, j) = o + j - 1
  BY JtagUartAssumption DEF Slots, Slot
<1> QED
  BY <1>2, <1>3, <1>4 DEF e

\* The room and the characters that write and read find in one piece.
LEMMA ContiguousFacts ==
  ASSUME NEW i \in Slots, NEW o \in Slots
  PROVE  /\ Contiguous(i, o) \in 0..BufLen - 1
         /\ i + Contiguous(i, o) <= BufLen
         /\ Used(i, o) + Contiguous(i, o) < BufLen
BY JtagUartAssumption DEF Contiguous, Used, Slots

LEMMA InitInv == Init => IInv
<1> SUFFICES ASSUME Init PROVE IInv
  OBVIOUS
<1>1. 0 \in Slots /\ Used(0, 0) = 0
  BY JtagUartAssumption DEF Slots, Used
<1>2. EnableTypes /\ RoutineTypes
  BY JtagUartAssumption DEF Init, EnableTypes, RoutineTypes
<1>8. FlagTypes
  BY Zenon DEF Init, FlagTypes
<1>3. TxTypes /\ RxTypes
  BY <1>1, JtagUartAssumption DEF Init, TxTypes, RxTypes
<1>4. TaskTypes
  BY <1>1 DEF Init, TaskTypes
<1>5. OutputInOrder
  BY <1>1 DEF Init, OutputInOrder
<1>6. InputInOrder
  BY <1>1 DEF Init, InputInOrder
<1>7. PendingOutputIsArmed /\ InputIsArmed /\ WriterInv /\ ReaderInv /\ RoutineInv
  BY DEF Init, PendingOutputIsArmed, InputIsArmed, WriterInv, ReaderInv, RoutineInv, ReadPcs
<1> QED
  BY <1>2, <1>3, <1>4, <1>5, <1>6, <1>7, <1>8 DEF IInv

(***************************************************************************)
(* The enable bits and the host's absence.                                 *)
(***************************************************************************)
LEMMA EnableStep ==
  ASSUME IInv, Next
  PROVE  EnableTypes'
<1> USE JtagUartAssumption DEF IInv, EnableTypes
<1>1. CASE Call \/ WriteSpace \/ WriteCopy \/ WritePublish \/ WriteWait \/ WriteResume
  BY <1>1 DEF Call, WriteCall, ReadCall, CloseCall, WriteSpace, WriteCopy, WritePublish,
     WriteWait, WriteResume, othersVars, asyncVars, hostVars
<1>2. CASE ReadTake \/ ReadFetch \/ ReadFree \/ ReadWait \/ ReadResume \/ CloseReturn
  BY <1>2 DEF ReadTake, ReadFetch, ReadFree, ReadWait, ReadResume, CloseReturn,
     othersVars, asyncVars, hostVars
<1>3. CASE WriteKick \/ ReadRearm
  BY <1>3 DEF WriteKick, ReadRearm, asyncVars, hostVars
<1>4. CASE IsrControl \/ IsrReturn \/ IsrReceive \/ IsrReceiveEmpty \/ IsrTransmit
  BY <1>4 DEF IsrControl, IsrReturn, IsrReceive, IsrReceiveEmpty, IsrTransmit,
     deviceVars, hostVars
<1>5. CASE IsrReceiveFull \/ IsrTransmitEnd
  BY <1>5 DEF IsrReceiveFull, IsrTransmitEnd, hostVars
<1>6. CASE Alarm
  BY <1>6 DEF Alarm, Least, hostVars
<1>7. CASE Host
  BY <1>7 DEF Host, HostGives, HostTakes, HostPolls, HostComesOrGoes, hostVars, deviceVars
<1> QED
  BY <1>1, <1>2, <1>3, <1>4, <1>5, <1>6, <1>7 DEF Next, Running, Interrupt

(***************************************************************************)
(* The output: what is in the transmit buffer and the write FIFO.          *)
(***************************************************************************)
TxVars == <<tx_in, tx_out, tx_buf, txf, written, taken>>

LEMMA TxUnchanged ==
  ASSUME Next, ~WriteCopy, ~WritePublish, ~IsrTransmit, ~HostTakes
  PROVE  UNCHANGED TxVars
<1> USE DEF TxVars, ringVars, deviceVars, hostVars, asyncVars, othersVars, taskVars
<1>1. CASE Call \/ WriteSpace \/ WriteKick \/ WriteWait \/ WriteResume
  BY <1>1 DEF Call, WriteCall, ReadCall, CloseCall, WriteSpace, WriteKick, WriteWait, WriteResume
<1>2. CASE ReadTake \/ ReadFetch \/ ReadFree \/ ReadWait \/ ReadResume \/ ReadRearm \/ CloseReturn
  BY <1>2 DEF ReadTake, ReadFetch, ReadFree, ReadWait, ReadResume, ReadRearm, CloseReturn
<1>3. CASE IsrControl \/ IsrReturn \/ IsrReceive \/ IsrReceiveEmpty \/ IsrReceiveFull
           \/ IsrTransmitEnd
  BY <1>3 DEF IsrControl, IsrReturn, IsrReceive, IsrReceiveEmpty, IsrReceiveFull, IsrTransmitEnd
<1>4. CASE Alarm \/ HostGives \/ HostPolls \/ HostComesOrGoes
  BY <1>4 DEF Alarm, HostGives, HostPolls, HostComesOrGoes
<1> QED
  BY <1>1, <1>2, <1>3, <1>4 DEF Next, Running, Interrupt, Host

LEMMA CopyOutput ==
  ASSUME IInv, WriteCopy
  PROVE  /\ TxTypes' /\ OutputInOrder'
         /\ \A s \in in..in + n - 1 : tx_buf'[s] = written + 1 + (s - in)
<1> USE DEF IInv, WriteCopy
<1>1. /\ UNCHANGED <<tx_in, tx_out, txf, written, taken>>
      /\ tx_buf' = [s \in Slots |-> IF s \in in..in + n - 1 THEN written + 1 + (s - in)
                                                            ELSE tx_buf[s]]
  BY DEF asyncVars, hostVars
<1>2. /\ in = tx_in /\ n \in 1..BufLen - in /\ tx_in \in Slots /\ tx_out \in Slots
      /\ Used(tx_in, tx_out) + n < BufLen /\ written \in Nat
  BY JtagUartAssumption DEF WriterInv, Task, TxTypes, TaskTypes, Slots
<1>3. tx_buf' \in [Slots -> Nat]
  BY <1>1, <1>2 DEF TxTypes, Slots
<1>4. \A s \in in..in + n - 1 : tx_buf'[s] = written + 1 + (s - in)
  BY <1>1, <1>2, JtagUartAssumption DEF Slots
<1>5. ASSUME NEW i \in 1..Used(tx_in, tx_out)
      PROVE  tx_buf'[Slot(tx_out, i)] = taken + Len(txf) + i
  <2>1. Slot(tx_out, i) \in Slots /\ Slot(tx_out, i) \notin in..in + n - 1
    <3>1. i \in 1..BufLen
      BY <1>2, UsedFacts, JtagUartAssumption
    <3>2. Slot(tx_out, i) \in Slots
      BY <1>2, <3>1, SlotFacts
    <3>3. Slot(tx_out, i) \notin tx_in..tx_in + n - 1
      BY <1>2, FilledBlock
    <3> QED
      BY <1>2, <3>2, <3>3
  <2>2. tx_buf'[Slot(tx_out, i)] = tx_buf[Slot(tx_out, i)]
    BY <1>1, <2>1
  <2> QED
    BY <2>2 DEF OutputInOrder
<1> QED
  BY <1>1, <1>3, <1>4, <1>5 DEF TxTypes, OutputInOrder

LEMMA PublishOutput ==
  ASSUME IInv, WritePublish
  PROVE  TxTypes' /\ OutputInOrder'
<1> USE DEF IInv, WritePublish
<1>1. /\ UNCHANGED <<tx_out, tx_buf, txf, taken>>
      /\ tx_in' = (in + n) % BufLen /\ written' = written + n
  BY DEF asyncVars, hostVars
<1>2. /\ in = tx_in /\ n \in 1..BufLen - in /\ tx_in \in Slots /\ tx_out \in Slots
      /\ Used(tx_in, tx_out) + n < BufLen /\ written \in Nat /\ taken \in Nat
  BY JtagUartAssumption DEF WriterInv, Task, TxTypes, TaskTypes, Slots
<1>3. tx_in' \in Slots /\ Used(tx_in', tx_out) = Used(tx_in, tx_out) + n
  BY <1>1, <1>2, SumFacts, FilledBlock
<1>4. Used(tx_in, tx_out) \in Nat /\ Len(txf) \in Nat
  BY <1>2, UsedFacts DEF TxTypes
<1>5. ASSUME NEW i \in 1..Used(tx_in', tx_out)
      PROVE  tx_buf[Slot(tx_out, i)] = taken + Len(txf) + i
  <2>1. CASE i <= Used(tx_in, tx_out)
    BY <2>1, <1>4 DEF OutputInOrder
  <2>2. CASE i > Used(tx_in, tx_out)
    <3> DEFINE j == i - Used(tx_in, tx_out)
    <3>1. j \in 1..n /\ i = Used(tx_in, tx_out) + j
      BY <1>2, <1>3, <1>4, <2>2 DEF Slots
    <3>2. Slot(tx_out, i) = in + j - 1
      BY <1>2, <3>1, FilledBlock
    <3>3. in + j - 1 \in in..in + n - 1
      BY <1>2, <3>1 DEF Slots
    <3>4. tx_buf[in + j - 1] = written + j
      BY <1>2, <3>1, <3>3 DEF WriterInv, Task, Slots
    <3> QED
      BY <1>2, <1>4, <3>1, <3>2, <3>4 DEF OutputInOrder
  <2> QED
    BY <1>3, <1>4, <2>1, <2>2
<1>6. taken + Len(txf) + Used(tx_in', tx_out) = written + n /\ n \in Nat
  <2>1. taken + Len(txf) + Used(tx_in, tx_out) = written
    BY DEF OutputInOrder
  <2>2. n \in Nat
    BY <1>2, JtagUartAssumption DEF Slots
  <2> QED
    BY <1>2, <1>3, <1>4, <2>1, <2>2
<1>7. TxTypes'
  BY <1>1, <1>2, <1>3, <1>6 DEF TxTypes
<1>8. OutputInOrder'
  BY <1>1, <1>5, <1>6 DEF OutputInOrder
<1> QED
  BY <1>7, <1>8

LEMMA TransmitOutput ==
  ASSUME IInv, IsrTransmit
  PROVE  TxTypes' /\ OutputInOrder'
<1> USE DEF IInv, IsrTransmit
<1>1. /\ UNCHANGED <<tx_in, tx_buf, taken, written>>
      /\ tx_out' = Advance(tx_out) /\ txf' = Append(txf, tx_buf[tx_out])
  BY DEF hostVars, taskVars
<1>2. /\ tx_in \in Slots /\ tx_out \in Slots /\ tx_in # tx_out /\ txf \in Seq(Nat)
      /\ tx_buf[tx_out] \in Nat /\ Len(txf) < Depth /\ taken \in Nat
  BY JtagUartAssumption DEF TxTypes, RoutineInv, RoutineTypes
<1>3. tx_out' \in Slots /\ Used(tx_in, tx_out') = Used(tx_in, tx_out) - 1
  BY <1>1, <1>2, AdvanceFacts, UsedFacts
<1>4. Used(tx_in, tx_out) \in 1..BufLen - 1
  BY <1>2, UsedFacts
<1>5. tx_buf[tx_out] = taken + Len(txf) + 1
  BY <1>2, <1>4, SlotFacts, JtagUartAssumption DEF OutputInOrder
<1>6. txf' \in Seq(Nat) /\ Len(txf') = Len(txf) + 1
  BY <1>1, <1>2
<1>7. ASSUME NEW i \in 1..Len(txf') PROVE txf'[i] = taken + i
  BY <1>1, <1>2, <1>5, <1>6 DEF OutputInOrder
<1>8. ASSUME NEW i \in 1..Used(tx_in, tx_out')
      PROVE  tx_buf[Slot(tx_out', i)] = taken + Len(txf') + i
  <2>1. Slot(tx_out', i) = Slot(tx_out, i + 1) /\ i + 1 \in 1..Used(tx_in, tx_out)
    <3>1. i \in 1..BufLen /\ i < BufLen /\ i + 1 \in 1..Used(tx_in, tx_out)
      BY <1>3, <1>4, JtagUartAssumption
    <3> QED
      BY <1>1, <1>2, <3>1, SlotFacts
  <2> QED
    BY <1>2, <1>6, <2>1 DEF OutputInOrder
<1>9. taken + Len(txf') + Used(tx_in, tx_out') = written
  BY <1>2, <1>3, <1>4, <1>6 DEF OutputInOrder
<1>10. TxTypes'
  BY <1>1, <1>2, <1>3, <1>6, JtagUartAssumption DEF TxTypes
<1>11. OutputInOrder'
  BY <1>1, <1>7, <1>8, <1>9 DEF OutputInOrder
<1> QED
  BY <1>10, <1>11

LEMMA TakenOutput ==
  ASSUME IInv, HostTakes
  PROVE  TxTypes' /\ OutputInOrder'
<1> USE DEF IInv, HostTakes
<1>1. /\ UNCHANGED <<tx_in, tx_out, tx_buf, written>>
      /\ txf # <<>> /\ txf' = Tail(txf) /\ taken' = taken + 1
  BY DEF ringVars, taskVars
<1>2. txf \in Seq(Nat) /\ taken \in Nat
  BY DEF TxTypes
<1>3. txf' \in Seq(Nat) /\ Len(txf') = Len(txf) - 1
  BY <1>1, <1>2
<1>4. \A i \in 1..Len(txf') : txf'[i] = txf[i + 1]
  BY <1>1, <1>2
<1>5. Used(tx_in, tx_out) \in Nat
  BY UsedFacts DEF TxTypes
<1>6. TxTypes'
  BY <1>1, <1>2, <1>3, JtagUartAssumption DEF TxTypes
<1>7. \A i \in 1..Len(txf') : txf'[i] = taken' + i
  BY <1>1, <1>2, <1>3, <1>4 DEF OutputInOrder
<1>8. OutputInOrder'
  BY <1>1, <1>2, <1>3, <1>5, <1>7 DEF OutputInOrder
<1> QED
  BY <1>6, <1>8

LEMMA TxStep ==
  ASSUME IInv, Next
  PROVE  TxTypes' /\ OutputInOrder'
<1>1. CASE UNCHANGED TxVars
  BY <1>1 DEF IInv, TxVars, TxTypes, OutputInOrder
<1> QED
  BY <1>1, CopyOutput, PublishOutput, TransmitOutput, TakenOutput, TxUnchanged

(***************************************************************************)
(* The input: what is in the receive buffer and the read FIFO.             *)
(***************************************************************************)
RxVars == <<rx_in, rx_out, rx_buf, rxf, read, given>>

InputHeld ==
  /\ read + Used(rx_in, rx_out) + Len(rxf) = given
  /\ \A i \in 1..Used(rx_in, rx_out) : rx_buf[Slot(rx_out, i)] = read + i
  /\ \A i \in 1..Len(rxf) : rxf[i] = read + Used(rx_in, rx_out) + i

BufferInOrder == \A i \in 1..Len(buffer) : buffer[i] = read - moved + i

LEMMA InputTogether == InputInOrder <=> InputHeld /\ BufferInOrder
BY DEF InputInOrder, InputHeld, BufferInOrder

LEMMA RxUnchanged ==
  ASSUME Next, ~ReadFree, ~IsrReceive, ~HostGives
  PROVE  UNCHANGED RxVars
<1> USE DEF RxVars, ringVars, deviceVars, hostVars, asyncVars, othersVars, taskVars
<1>1. CASE Call \/ WriteSpace \/ WriteCopy \/ WritePublish \/ WriteKick \/ WriteWait \/ WriteResume
  BY <1>1 DEF Call, WriteCall, ReadCall, CloseCall, WriteSpace, WriteCopy, WritePublish,
     WriteKick, WriteWait, WriteResume
<1>2. CASE ReadTake \/ ReadFetch \/ ReadWait \/ ReadResume \/ ReadRearm \/ CloseReturn
  BY <1>2 DEF ReadTake, ReadFetch, ReadWait, ReadResume, ReadRearm, CloseReturn
<1>3. CASE IsrControl \/ IsrReturn \/ IsrReceiveEmpty \/ IsrReceiveFull
           \/ IsrTransmit \/ IsrTransmitEnd
  BY <1>3 DEF IsrControl, IsrReturn, IsrReceiveEmpty, IsrReceiveFull, IsrTransmit, IsrTransmitEnd
<1>4. CASE Alarm \/ HostTakes \/ HostPolls \/ HostComesOrGoes
  BY <1>4 DEF Alarm, HostTakes, HostPolls, HostComesOrGoes
<1> QED
  BY <1>1, <1>2, <1>3, <1>4 DEF Next, Running, Interrupt, Host

LEMMA FreedInput ==
  ASSUME IInv, ReadFree
  PROVE  RxTypes' /\ InputHeld'
<1> USE DEF IInv, ReadFree
<1>1. /\ UNCHANGED <<rx_in, rx_buf, rxf, given>>
      /\ rx_out' = (out + n) % BufLen /\ read' = read + n
  BY DEF asyncVars, hostVars
<1>2. /\ out = rx_out /\ n \in 1..BufLen - out /\ rx_in \in Slots /\ rx_out \in Slots
      /\ n <= Used(rx_in, rx_out) /\ read \in Nat /\ n \in Nat
  BY JtagUartAssumption DEF ReaderInv, Task, RxTypes, TaskTypes, Slots
<1>3. rx_out' \in Slots /\ Used(rx_in, rx_out') = Used(rx_in, rx_out) - n
  BY <1>1, <1>2, SumFacts, FreedBlock
<1>4. Used(rx_in, rx_out) \in Nat /\ Len(rxf) \in Nat /\ InputHeld
  BY <1>2, UsedFacts, InputTogether DEF RxTypes
<1>5. ASSUME NEW i \in 1..Used(rx_in, rx_out')
      PROVE  rx_buf[Slot(rx_out', i)] = read + n + i
  <2>1. Slot(rx_out', i) = Slot(rx_out, n + i)
    BY <1>1, <1>2, <1>3, FreedBlock
  <2>2. n + i \in 1..Used(rx_in, rx_out)
    BY <1>2, <1>3, <1>4
  <2> QED
    BY <1>2, <1>4, <2>1, <2>2 DEF InputHeld
<1>6. RxTypes'
  BY <1>1, <1>2, <1>3 DEF RxTypes
<1>7. InputHeld'
  BY <1>1, <1>2, <1>3, <1>4, <1>5 DEF InputHeld
<1> QED
  BY <1>6, <1>7

LEMMA ReceivedInput ==
  ASSUME IInv, IsrReceive
  PROVE  RxTypes' /\ InputHeld'
<1> USE DEF IInv, IsrReceive
<1>1. /\ UNCHANGED <<rx_out, given, read>>
      /\ rx_in' = Advance(rx_in) /\ Advance(rx_in) # rx_out
      /\ rx_buf' = [rx_buf EXCEPT ![rx_in] = Head(rxf)]
      /\ rxf # <<>> /\ rxf' = Tail(rxf)
  BY DEF hostVars, taskVars, RxFull
<1>2. /\ rx_in \in Slots /\ rx_out \in Slots /\ rxf \in Seq(Nat) /\ Len(rxf) <= Depth
      /\ rx_buf \in [Slots -> Nat] /\ read \in Nat /\ InputHeld
  BY InputTogether DEF RxTypes
<1>3. rx_in' \in Slots /\ Used(rx_in', rx_out) = Used(rx_in, rx_out) + 1
  BY <1>1, <1>2, AdvanceFacts, UsedFacts
<1>4. Used(rx_in, rx_out) \in Nat /\ Used(rx_in', rx_out) \in 0..BufLen - 1
  BY <1>2, <1>3, UsedFacts
<1>5. /\ rxf' \in Seq(Nat) /\ Len(rxf') = Len(rxf) - 1 /\ Len(rxf) \in Nat
      /\ Head(rxf) = rxf[1] /\ Head(rxf) \in Nat
      /\ \A i \in 1..Len(rxf') : rxf'[i] = rxf[i + 1]
  <2> DEFINE s == rxf
  <2>1. s \in Seq(Nat) /\ s # <<>> /\ rxf' = Tail(s)
    BY <1>1, <1>2
  <2> HIDE DEF s
  <2>2. /\ Tail(s) \in Seq(Nat) /\ Len(Tail(s)) = Len(s) - 1 /\ Len(s) \in Nat
        /\ Head(s) = s[1] /\ Head(s) \in Nat
        /\ \A i \in 1..Len(Tail(s)) : Tail(s)[i] = s[i + 1]
    BY <2>1
  <2> QED
    BY <2>1, <2>2 DEF s
<1>6. Head(rxf) = read + Used(rx_in, rx_out) + 1
  BY <1>1, <1>2, <1>5 DEF InputHeld
<1>7. ASSUME NEW i \in 1..Used(rx_in', rx_out)
      PROVE  rx_buf'[Slot(rx_out, i)] = read + i
  <2>1. CASE i = Used(rx_in, rx_out) + 1
    <3>1. Slot(rx_out, i) = rx_in
      BY <1>2, <2>1, LastSlot
    <3> QED
      BY <1>1, <1>2, <1>4, <1>6, <2>1, <3>1
  <2>2. CASE i <= Used(rx_in, rx_out)
    <3>1. Slot(rx_out, i) # rx_in
      BY <1>2, <2>2, LastSlot
    <3>2. rx_buf[Slot(rx_out, i)] = read + i
      BY <1>2, <2>2 DEF InputHeld
    <3> QED
      BY <1>1, <1>2, <3>1, <3>2
  <2> QED
    BY <1>3, <1>4, <2>1, <2>2
<1>8. RxTypes'
  BY <1>1, <1>2, <1>3, <1>5, JtagUartAssumption DEF RxTypes
<1>9. \A i \in 1..Len(rxf') : rxf'[i] = read + Used(rx_in', rx_out) + i
  BY <1>2, <1>3, <1>4, <1>5 DEF InputHeld
<1>10. read + Used(rx_in', rx_out) + Len(rxf') = given
  BY <1>2, <1>3, <1>4, <1>5 DEF InputHeld
<1>11. InputHeld'
  BY <1>1, <1>7, <1>9, <1>10 DEF InputHeld
<1> QED
  BY <1>8, <1>11

LEMMA GivenInput ==
  ASSUME IInv, HostGives
  PROVE  RxTypes' /\ InputHeld'
<1> USE DEF IInv, HostGives
<1>1. /\ UNCHANGED <<rx_in, rx_out, rx_buf, read>>
      /\ given' = given + 1 /\ rxf' = Append(rxf, given + 1) /\ Len(rxf) < Depth
  BY DEF ringVars, taskVars
<1>2. rxf \in Seq(Nat) /\ given \in Nat /\ read \in Nat /\ Len(rxf) \in Nat /\ InputHeld
  BY InputTogether DEF RxTypes
<1>3. rxf' \in Seq(Nat) /\ Len(rxf') = Len(rxf) + 1
  BY <1>1, <1>2
<1>4. Used(rx_in, rx_out) \in Nat
  BY UsedFacts DEF RxTypes
<1>5. RxTypes'
  BY <1>1, <1>2, <1>3, JtagUartAssumption DEF RxTypes
<1>6. \A i \in 1..Len(rxf') : rxf'[i] = read + Used(rx_in, rx_out) + i
  BY <1>1, <1>2, <1>3, <1>4 DEF InputHeld
<1>7. InputHeld'
  BY <1>1, <1>2, <1>3, <1>4, <1>6 DEF InputHeld
<1> QED
  BY <1>5, <1>7

LEMMA RxStep ==
  ASSUME IInv, Next
  PROVE  RxTypes' /\ InputHeld'
<1>1. CASE UNCHANGED RxVars
  BY <1>1, InputTogether DEF IInv, RxVars, RxTypes, InputHeld
<1> QED
  BY <1>1, FreedInput, ReceivedInput, GivenInput, RxUnchanged

(***************************************************************************)
(* The flags.                                                              *)
(***************************************************************************)
LEMMA FlagStep ==
  ASSUME IInv, Next
  PROVE  FlagTypes'
<1> USE DEF IInv, FlagTypes
<1>1. CASE Call
  BY <1>1, Zenon DEF Call, WriteCall, ReadCall, CloseCall, Arguments,
     othersVars, asyncVars, hostVars, isrVars
<1>2. CASE WriteSpace \/ WriteCopy \/ WritePublish
  BY <1>2, Zenon DEF WriteSpace, WriteCopy, WritePublish, Moved, locals,
     othersVars, asyncVars, hostVars, isrVars
<1>3. CASE WriteKick \/ WriteWait \/ WriteResume
  BY <1>3, Zenon DEF WriteKick, WriteWait, WriteResume, KeepLocals, Arguments, locals,
     othersVars, asyncVars, hostVars, isrVars
<1>4. CASE ReadTake \/ ReadFetch \/ ReadFree
  BY <1>4, Zenon DEF ReadTake, ReadFetch, ReadFree, Moved, Arguments, locals,
     othersVars, asyncVars, hostVars, isrVars
<1>5. CASE ReadWait \/ ReadResume \/ ReadRearm \/ CloseReturn
  BY <1>5, Zenon DEF ReadWait, ReadResume, ReadRearm, CloseReturn, KeepLocals, Arguments,
     locals, othersVars, asyncVars, hostVars, isrVars
<1>6. CASE IsrControl
  BY <1>6, Zenon DEF IsrControl, RI, WI, deviceVars, hostVars, taskVars, locals
<1>7. CASE IsrReturn \/ IsrReceive
  BY <1>7, Zenon DEF IsrReturn, IsrReceive, deviceVars, hostVars, taskVars, locals
<1>8. CASE IsrReceiveEmpty \/ IsrReceiveFull
  BY <1>8, Zenon DEF IsrReceiveEmpty, IsrReceiveFull, AfterReceive, IsrLoop,
     deviceVars, hostVars, taskVars, locals
<1>9. CASE IsrTransmit \/ IsrTransmitEnd
  BY <1>9, Zenon DEF IsrTransmit, IsrTransmitEnd, IsrLoop, deviceVars, hostVars, taskVars, locals
<1>10. CASE Alarm
  BY <1>10, Zenon DEF Alarm, hostVars, isrVars, taskVars, locals
<1>11. CASE HostGives \/ HostTakes
  BY <1>11, Zenon DEF HostGives, HostTakes, isrVars, taskVars, locals
<1>12. CASE HostPolls
  BY <1>12, Zenon DEF HostPolls, hostVars, isrVars, taskVars, locals
<1>13. CASE HostComesOrGoes
  <2>1. attached' \in BOOLEAN
    BY <1>13, Zenon DEF HostComesOrGoes
  <2>2. UNCHANGED <<ac, wi, ravail, nonblock>>
    BY <1>13, Zenon DEF HostComesOrGoes, deviceVars, isrVars, taskVars, locals
  <2> QED
    BY <2>1, <2>2, Zenon
<1> QED
  BY <1>1, <1>2, <1>3, <1>4, <1>5, <1>6, <1>7, <1>8, <1>9, <1>10, <1>11, <1>12, <1>13
  DEF Host, Next, Running, Interrupt

(***************************************************************************)
(* The interrupt routine: its copy of the FIFO's free space.               *)
(***************************************************************************)
LEMMA RoutineUnchanged ==
  ASSUME Next, ~Interrupt
  PROVE  UNCHANGED <<isr, wi, space>>
<1> USE DEF isrVars, asyncVars, othersVars
<1>1. CASE Call \/ WriteSpace \/ WriteCopy \/ WritePublish \/ WriteKick \/ WriteWait \/ WriteResume
  BY <1>1 DEF Call, WriteCall, ReadCall, CloseCall, WriteSpace, WriteCopy, WritePublish,
     WriteKick, WriteWait, WriteResume
<1>2. CASE ReadTake \/ ReadFetch \/ ReadFree \/ ReadWait \/ ReadResume \/ ReadRearm \/ CloseReturn
  BY <1>2 DEF ReadTake, ReadFetch, ReadFree, ReadWait, ReadResume, ReadRearm, CloseReturn
<1>3. CASE Alarm \/ Host
  BY <1>3 DEF Alarm, Host, HostGives, HostTakes, HostPolls, HostComesOrGoes
<1> QED
  BY <1>1, <1>2, <1>3 DEF Next, Running

LEMMA AfterReceiveFacts ==
  ASSUME AfterReceive, isr = "receive"
  PROVE  \/ isr' = "transmit" /\ space' = space /\ wi
         \/ isr' = "control" /\ space' = 0
BY Zenon DEF AfterReceive, IsrLoop

LEMMA RoutineStep ==
  ASSUME IInv, Next
  PROVE  RoutineTypes' /\ RoutineInv'
<1> USE DEF IInv
<1>1. space \in 0..Depth /\ Len(txf) \in Nat /\ Len(txf) <= Depth
  BY DEF RoutineTypes, TxTypes
<1>2. CASE IsrControl
  BY <1>1, <1>2, JtagUartAssumption DEF IsrControl, deviceVars, RoutineTypes, RoutineInv
<1>3. CASE IsrReturn
  BY <1>1, <1>3 DEF IsrReturn, deviceVars, RoutineTypes, RoutineInv
<1>4. CASE IsrReceive
  <2>1. UNCHANGED <<isr, wi, space, txf>>
    BY <1>4, Zenon DEF IsrReceive
  <2> QED
    BY <2>1, Zenon DEF RoutineTypes, RoutineInv
<1>5. CASE IsrReceiveEmpty \/ IsrReceiveFull
  <2>1. txf' = txf /\ isr = "receive" /\ AfterReceive
    BY <1>5, Zenon DEF IsrReceiveEmpty, IsrReceiveFull, deviceVars
  <2>2. CASE isr' = "transmit" /\ space' = space /\ wi
    <3>1. space + Len(txf) <= Depth
      BY <2>1, <2>2, Zenon DEF RoutineInv
    <3> QED
      BY <1>1, <2>1, <2>2, <3>1 DEF RoutineTypes, RoutineInv
  <2>3. CASE isr' = "control" /\ space' = 0
    BY <1>1, <2>3, JtagUartAssumption DEF RoutineTypes, RoutineInv
  <2> QED
    BY <2>1, <2>2, <2>3, AfterReceiveFacts
<1>6. CASE IsrTransmit
  <2>1. /\ isr = "transmit" /\ isr' = isr /\ space > 0 /\ space' = space - 1
        /\ txf' = Append(txf, tx_buf[tx_out])
    BY <1>6, Zenon DEF IsrTransmit
  <2>2. tx_buf[tx_out] \in Nat /\ txf \in Seq(Nat)
    BY DEF TxTypes
  <2>3. Len(txf') = Len(txf) + 1
    BY <2>1, <2>2
  <2>4. space + Len(txf) <= Depth
    BY <2>1 DEF RoutineInv
  <2>5. RoutineTypes'
    BY <1>1, <2>1, JtagUartAssumption DEF RoutineTypes
  <2>6. space' + Len(txf') <= Depth
    BY <1>1, <2>1, <2>3, <2>4, JtagUartAssumption
  <2> QED
    BY <2>5, <2>6, Zenon DEF RoutineInv
<1>7. CASE IsrTransmitEnd
  BY <1>1, <1>7, JtagUartAssumption DEF IsrTransmitEnd, IsrLoop, RoutineTypes, RoutineInv
<1>8. CASE ~Interrupt
  <2>1. UNCHANGED <<isr, wi, space>>
    BY <1>8, RoutineUnchanged
  <2>2. RoutineTypes'
    BY <2>1, Zenon DEF RoutineTypes
  <2>3. CASE HostTakes
    <3>1. txf \in Seq(Nat) /\ txf # <<>> /\ txf' = Tail(txf)
      BY <2>3 DEF HostTakes, TxTypes
    <3>2. Len(txf') = Len(txf) - 1
      BY <3>1
    <3>3. space + Len(txf) <= Depth => space' + Len(txf') <= Depth
      BY <1>1, <2>1, <3>2, JtagUartAssumption
    <3> QED
      BY <2>1, <2>2, <3>3, Zenon DEF RoutineInv
  <2>4. CASE ~HostTakes
    <3>1. CASE WriteCopy \/ WritePublish
      <4>1. txf' = txf
        BY <3>1, Zenon DEF WriteCopy, WritePublish, asyncVars
      <4> QED
        BY <2>1, <2>2, <4>1, Zenon DEF RoutineInv
    <3>2. CASE ~WriteCopy /\ ~WritePublish
      <4>1. txf' = txf
        BY <1>8, <2>4, <3>2, TxUnchanged DEF TxVars, Interrupt
      <4> QED
        BY <2>1, <2>2, <4>1, Zenon DEF RoutineInv
    <3> QED
      BY <3>1, <3>2
  <2> QED
    BY <2>3, <2>4
<1> QED
  BY <1>2, <1>3, <1>4, <1>5, <1>6, <1>7, <1>8 DEF Interrupt

(***************************************************************************)
(* The task: its locals.                                                   *)
(***************************************************************************)
LEMMA TaskUnchanged ==
  ASSUME Next, ~Call, ~Running
  PROVE  UNCHANGED taskVars
<1>1. CASE Interrupt
  BY <1>1, Zenon DEF Interrupt, IsrControl, IsrReturn, IsrReceive, IsrReceiveEmpty,
     IsrReceiveFull, IsrTransmit, IsrTransmitEnd
<1>2. CASE Alarm \/ Host
  BY <1>2, Zenon DEF Alarm, Host, HostGives, HostTakes, HostPolls, HostComesOrGoes
<1> QED
  BY <1>1, <1>2, Zenon DEF Next

\* The locals, but for the flag.
Numbers == <<pc, count, moved, in, out, n, buffer>>

LEMMA LeastFacts ==
  ASSUME NEW i \in Nat, NEW j \in Nat
  PROVE  /\ Least(i, j) \in Nat /\ Least(i, j) <= i /\ Least(i, j) <= j
         /\ i >= 1 /\ j >= 1 => Least(i, j) >= 1
BY DEF Least

LEMMA CallStep ==
  ASSUME IInv, Call
  PROVE  /\ pc' \in {"space", "take", "drain"} /\ count' \in Nat /\ moved' = 0
         /\ in' = 0 /\ out' = 0 /\ n' = 0 /\ buffer' = <<>>
         /\ pc' = "take" => count' >= 1
         /\ pc = "idle"
<1> USE DEF Task, Arguments
<1>1. ASSUME NEW nb \in BOOLEAN, NEW c \in 1..MaxOut - written, WriteCall(c, nb)
      PROVE  /\ pc = "idle" /\ pc' = "space" /\ count' = c /\ moved' = 0
             /\ in' = 0 /\ out' = 0 /\ n' = 0 /\ buffer' = <<>>
  BY <1>1, Zenon DEF WriteCall
<1>2. ASSUME NEW nb \in BOOLEAN, NEW c \in 1..BufLen - 1, ReadCall(c, nb)
      PROVE  /\ pc = "idle" /\ pc' = "take" /\ count' = c /\ moved' = 0
             /\ in' = 0 /\ out' = 0 /\ n' = 0 /\ buffer' = <<>>
  BY <1>2, Zenon DEF ReadCall
<1>3. ASSUME NEW nb \in BOOLEAN, CloseCall(nb)
      PROVE  /\ pc = "idle" /\ pc' = "drain" /\ count' = 0 /\ moved' = 0
             /\ in' = 0 /\ out' = 0 /\ n' = 0 /\ buffer' = <<>>
  BY <1>3, Zenon DEF CloseCall
<1>4. written \in Nat
  BY DEF IInv, TxTypes
<1> QED
  BY <1>1, <1>2, <1>3, <1>4, JtagUartAssumption DEF Call

\* A step that ends the call, or leaves the locals as they are.
LEMMA KeepFacts ==
  ASSUME KeepLocals
  PROVE  IF pc' = "idle" THEN /\ count' = 0 /\ moved' = 0 /\ in' = 0 /\ out' = 0
                              /\ n' = 0 /\ buffer' = <<>>
                         ELSE UNCHANGED <<count, moved, in, out, n, buffer>>
BY Zenon DEF KeepLocals, Arguments, locals

LEMMA KeepStep ==
  ASSUME \/ WriteKick \/ WriteWait \/ WriteResume
         \/ ReadWait \/ ReadResume \/ ReadRearm \/ CloseReturn
  PROVE  /\ KeepLocals
         /\ \/ pc = "kick" /\ pc' \in {"full", "idle"}
            \/ pc = "full" /\ pc' = "room"
            \/ pc = "room" /\ pc' \in {"space", "idle"}
            \/ pc = "empty" /\ pc' = "arrived"
            \/ pc = "arrived" /\ pc' \in {"take", "idle"}
            \/ pc = "rearm" /\ pc' = "idle"
            \/ pc = "drain" /\ pc' = "idle"
<1>1. CASE WriteKick
  BY <1>1, Zenon DEF WriteKick, Task
<1>2. CASE WriteWait
  BY <1>2, Zenon DEF WriteWait, Task
<1>3. CASE WriteResume
  BY <1>3, Zenon DEF WriteResume, Task
<1>4. CASE ReadWait
  BY <1>4, Zenon DEF ReadWait, Task
<1>5. CASE ReadResume
  BY <1>5, Zenon DEF ReadResume, Task
<1>6. CASE ReadRearm
  BY <1>6, Zenon DEF ReadRearm, Task
<1>7. CASE CloseReturn
  BY <1>7, Zenon DEF CloseReturn, Task
<1> QED
  BY <1>1, <1>2, <1>3, <1>4, <1>5, <1>6, <1>7

\* The block that write finds room for.
LEMMA SpaceStep ==
  ASSUME IInv, WriteSpace
  PROVE  /\ pc' \in {"copy", "kick"} /\ UNCHANGED <<count, moved, buffer>>
         /\ in' \in Slots /\ out' \in Slots /\ n' \in Slots
         /\ pc' = "copy" => /\ in' = tx_in /\ n' >= 1 /\ n' <= count
                            /\ in' + n' <= BufLen
                            /\ Used(tx_in, tx_out) + n' < BufLen
<1> DEFINE room == Contiguous(tx_in, tx_out)
<1>1. /\ tx_in \in Slots /\ tx_out \in Slots /\ count \in Nat /\ moved \in Nat
      /\ in \in Slots /\ out \in Slots /\ n \in Slots
  BY DEF IInv, TxTypes, TaskTypes
<1>2. /\ room \in 0..BufLen - 1 /\ tx_in + room <= BufLen
      /\ Used(tx_in, tx_out) + room < BufLen /\ Used(tx_in, tx_out) \in Nat
  BY <1>1, ContiguousFacts, UsedFacts
<1>3. /\ pc' = IF count > 0 /\ room > 0 THEN "copy" ELSE "kick"
      /\ UNCHANGED <<count, moved, buffer>>
      /\ IF count > 0 THEN in' = tx_in /\ out' = tx_out /\ n' = Least(room, count)
                      ELSE UNCHANGED <<in, out, n>>
  BY Zenon DEF WriteSpace, Task
<1> HIDE DEF room
<1>4. Least(room, count) \in Slots
  <2>1. room \in Nat /\ room <= BufLen - 1
    BY <1>2, JtagUartAssumption
  <2>2. Least(room, count) \in Nat /\ Least(room, count) <= room
    BY <1>1, <2>1, LeastFacts
  <2> QED
    BY <2>1, <2>2, JtagUartAssumption DEF Slots
<1>5. in' \in Slots /\ out' \in Slots /\ n' \in Slots
  BY <1>1, <1>3, <1>4
<1>6. ASSUME pc' = "copy"
      PROVE  /\ in' = tx_in /\ n' >= 1 /\ n' <= count /\ in' + n' <= BufLen
             /\ Used(tx_in, tx_out) + n' < BufLen
  <2>1. count > 0 /\ room > 0 /\ in' = tx_in /\ n' = Least(room, count)
    BY <1>3, <1>6
  <2>2. n' \in Nat /\ n' >= 1 /\ n' <= count /\ n' <= room
    BY <1>1, <1>2, <2>1, LeastFacts, JtagUartAssumption
  <2> DEFINE u == Used(tx_in, tx_out)
  <2>4. u \in Nat /\ tx_in \in Nat /\ room \in Nat /\ u + room < BufLen
    BY <1>1, <1>2, JtagUartAssumption DEF Slots
  <2>7. n' \in Nat /\ n' <= room /\ tx_in + room <= BufLen
    BY <1>2, <2>2
  <2> HIDE DEF u
  <2>8. \A a, b, c \in Nat : a <= b => /\ c + b < BufLen => c + a < BufLen
                                       /\ c + b <= BufLen => c + a <= BufLen
    BY JtagUartAssumption
  <2>5. u + n' < BufLen
    BY <2>4, <2>7, <2>8
  <2>6. tx_in + n' <= BufLen
    BY <2>4, <2>7, <2>8
  <2>3. tx_in + n' <= BufLen /\ Used(tx_in, tx_out) + n' < BufLen
    BY <2>5, <2>6 DEF u
  <2> QED
    BY <2>1, <2>2, <2>3
<1> QED
  BY <1>3, <1>5, <1>6

\* The block that read finds in the buffer.
LEMMA TakeStep ==
  ASSUME IInv, ReadTake
  PROVE  /\ pc = "take" /\ pc' \in {"fetch", "rearm", "idle", "empty"}
         /\ count' \in Nat /\ moved' \in Nat
         /\ in' \in Slots /\ out' \in Slots /\ n' \in Slots
         /\ IF pc' = "idle" THEN moved' = 0 /\ buffer' = <<>>
                            ELSE UNCHANGED <<count, moved, buffer>>
         /\ pc' = "fetch" => /\ out' = rx_out /\ n' >= 1 /\ n' <= count
                             /\ out' + n' <= BufLen
                             /\ n' <= Used(rx_in, rx_out)
         /\ pc' = "rearm" => moved > 0
         /\ pc' \in {"idle", "empty"} => moved = 0
<1> DEFINE avail == IF rx_in >= rx_out THEN rx_in - rx_out ELSE BufLen - rx_out
<1>1. /\ rx_in \in Slots /\ rx_out \in Slots /\ count \in Nat /\ moved \in Nat
      /\ in \in Slots /\ out \in Slots /\ n \in Slots
  BY DEF IInv, RxTypes, TaskTypes
<1>2. /\ avail \in Nat /\ rx_out + avail <= BufLen /\ avail <= Used(rx_in, rx_out)
      /\ Used(rx_in, rx_out) \in 0..BufLen - 1
  BY <1>1, UsedFacts, JtagUartAssumption DEF Used, Slots
<1>3. /\ pc = "take"
      /\ \/ avail > 0 /\ pc' = "fetch"
         \/ ~(avail > 0) /\ moved > 0 /\ pc' = "rearm"
         \/ ~(avail > 0) /\ ~(moved > 0) /\ pc' = "idle"
         \/ ~(avail > 0) /\ ~(moved > 0) /\ pc' = "empty"
  BY Zenon DEF ReadTake, Task
<1>4. IF pc' = "idle"
      THEN /\ count' = 0 /\ moved' = 0 /\ in' = 0 /\ out' = 0 /\ n' = 0 /\ buffer' = <<>>
      ELSE /\ in' = rx_in /\ out' = rx_out /\ n' = Least(avail, count)
           /\ UNCHANGED <<count, moved, buffer>>
  BY Zenon DEF ReadTake, Arguments
<1> HIDE DEF avail
<1>5. Least(avail, count) \in Slots /\ 0 \in Slots
  <2>1. avail \in Nat /\ avail <= BufLen - 1
    BY <1>2, JtagUartAssumption
  <2>2. Least(avail, count) \in Nat /\ Least(avail, count) <= avail
    BY <1>1, <2>1, LeastFacts
  <2> QED
    BY <2>1, <2>2, JtagUartAssumption DEF Slots
<1>6. count' \in Nat /\ moved' \in Nat /\ in' \in Slots /\ out' \in Slots /\ n' \in Slots
  BY <1>1, <1>4, <1>5
<1>7. ASSUME pc' = "fetch"
      PROVE  /\ out' = rx_out /\ n' >= 1 /\ n' <= count
             /\ out' + n' <= BufLen /\ n' <= Used(rx_in, rx_out)
  <2>1. avail > 0 /\ out' = rx_out /\ n' = Least(avail, count)
    BY <1>3, <1>4, <1>7
  <2>2. count >= 1
    BY <1>3 DEF IInv, ReaderInv
  <2>3. n' \in Nat /\ n' >= 1 /\ n' <= count /\ n' <= avail
    BY <1>1, <1>2, <2>1, <2>2, LeastFacts
  <2> QED
    BY <1>1, <1>2, <2>1, <2>3, JtagUartAssumption DEF Slots
<1> QED
  BY <1>1, <1>3, <1>4, <1>6, <1>7

\* The copy and fetch steps leave the block as it is; publish and free end it.
LEMMA BlockStep ==
  ASSUME WriteCopy \/ WritePublish \/ ReadFetch \/ ReadFree
  PROVE  /\ \/ pc = "copy" /\ pc' = "publish" /\ UNCHANGED <<count, moved, in, out, n, buffer>>
            \/ pc = "fetch" /\ pc' = "free" /\ UNCHANGED <<count, moved, in, out, n>>
               /\ buffer' = buffer \o [i \in 1..n |-> rx_buf[out + i - 1]]
            \/ /\ \/ pc = "publish" /\ pc' = "space"
                  \/ pc = "free" /\ count > n /\ pc' = "take"
                  \/ pc = "free" /\ ~(count > n) /\ pc' = "rearm"
               /\ moved' = moved + n /\ count' = count - n
               /\ in' = 0 /\ out' = 0 /\ n' = 0 /\ buffer' = buffer
<1>1. CASE WriteCopy
  BY <1>1, Zenon DEF WriteCopy, Task, locals
<1>2. CASE WritePublish
  BY <1>2, Zenon DEF WritePublish, Task, Moved
<1>3. CASE ReadFetch
  BY <1>3, Zenon DEF ReadFetch, Task
<1>4. CASE ReadFree
  BY <1>4, Zenon DEF ReadFree, Task, Moved
<1> QED
  BY <1>1, <1>2, <1>3, <1>4

LEMMA TaskStep ==
  ASSUME IInv, Next
  PROVE  TaskTypes'
<1>1. /\ pc \in {"idle", "drain"} \cup WritePcs \cup ReadPcs
      /\ count \in Nat /\ moved \in Nat
      /\ in \in Slots /\ out \in Slots /\ n \in Slots /\ buffer \in Seq(Nat)
  BY DEF IInv, TaskTypes
<1>2. 0 \in Slots /\ Slots \subseteq Nat /\ <<>> \in Seq(Nat)
  BY JtagUartAssumption DEF Slots
<1> SUFFICES /\ pc' \in {"idle", "drain"} \cup WritePcs \cup ReadPcs
             /\ count' \in Nat /\ moved' \in Nat
             /\ in' \in Slots /\ out' \in Slots /\ n' \in Slots /\ buffer' \in Seq(Nat)
  BY DEF TaskTypes
<1>3. CASE Call
  BY <1>2, <1>3, CallStep DEF WritePcs, ReadPcs
<1>4. CASE WriteSpace
  BY <1>1, <1>4, SpaceStep DEF WritePcs
<1>5. CASE ReadTake
  <2>1. /\ pc' \in {"fetch", "rearm", "idle", "empty"}
        /\ count' \in Nat /\ moved' \in Nat /\ in' \in Slots /\ out' \in Slots /\ n' \in Slots
        /\ buffer' = <<>> \/ buffer' = buffer
    BY <1>5, TakeStep
  <2>2. buffer' \in Seq(Nat)
    BY <1>1, <1>2, <2>1, Zenon
  <2> QED
    BY <2>1, <2>2 DEF ReadPcs
<1>6. CASE WriteCopy \/ WritePublish \/ ReadFetch \/ ReadFree
  <2>1. CASE pc = "copy" /\ pc' = "publish" /\ UNCHANGED <<count, moved, in, out, n, buffer>>
    BY <1>1, <2>1 DEF WritePcs
  <2>2. CASE /\ pc = "fetch" /\ pc' = "free" /\ UNCHANGED <<count, moved, in, out, n>>
             /\ buffer' = buffer \o [i \in 1..n |-> rx_buf[out + i - 1]]
    <3> DEFINE block == [i \in 1..n |-> rx_buf[out + i - 1]]
    <3>1. out \in Slots /\ n \in Nat /\ out + n <= BufLen /\ rx_buf \in [Slots -> Nat]
      BY <1>1, <1>2, <2>2 DEF IInv, ReaderInv, RxTypes
    <3>2. \A i \in 1..n : rx_buf[out + i - 1] \in Nat
      BY <3>1, JtagUartAssumption DEF Slots
    <3>3. block \in Seq(Nat)
      BY <3>1, <3>2
    <3> HIDE DEF block
    <3>4. buffer' \in Seq(Nat)
      BY <1>1, <2>2, <3>3 DEF block
    <3> QED
      BY <1>1, <2>2, <3>4 DEF ReadPcs
  <2>3. CASE /\ \/ pc = "publish" /\ pc' = "space"
                \/ pc = "free" /\ pc' \in {"take", "rearm"}
             /\ moved' = moved + n /\ count' = count - n
             /\ in' = 0 /\ out' = 0 /\ n' = 0 /\ buffer' = buffer
    <3>1. n <= count /\ n \in Nat
      BY <1>1, <1>2, <2>3 DEF IInv, WriterInv, ReaderInv
    <3> QED
      BY <1>1, <1>2, <2>3, <3>1 DEF WritePcs, ReadPcs
  <2> QED
    BY <1>6, <2>1, <2>2, <2>3, BlockStep
<1>7. CASE \/ WriteKick \/ WriteWait \/ WriteResume
           \/ ReadWait \/ ReadResume \/ ReadRearm \/ CloseReturn
  <2>1. pc' \in {"idle"} \cup WritePcs \cup ReadPcs
    BY <1>7, KeepStep DEF WritePcs, ReadPcs
  <2>2. IF pc' = "idle" THEN /\ count' = 0 /\ moved' = 0 /\ in' = 0 /\ out' = 0
                             /\ n' = 0 /\ buffer' = <<>>
                        ELSE UNCHANGED <<count, moved, in, out, n, buffer>>
    BY <1>7, KeepStep, KeepFacts
  <2>3. buffer' \in Seq(Nat)
    BY <1>1, <1>2, <2>2, Zenon
  <2> QED
    BY <1>1, <1>2, <2>1, <2>2, <2>3
<1>8. CASE ~Call /\ ~Running
  BY <1>1, <1>8, TaskUnchanged DEF taskVars, locals
<1> QED
  BY <1>3, <1>4, <1>5, <1>6, <1>7, <1>8 DEF Running

(***************************************************************************)
(* The writer's room can but grow while it is interrupted.                 *)
(***************************************************************************)
LEMMA UsedShrinks ==
  ASSUME IInv, Interrupt \/ Alarm \/ Host
  PROVE  /\ UNCHANGED <<tx_in, tx_buf, written>>
         /\ Used(tx_in, tx_out') <= Used(tx_in, tx_out)
<1>1. tx_in \in Slots /\ tx_out \in Slots /\ Used(tx_in, tx_out) \in Nat
  BY UsedFacts DEF IInv, TxTypes
<1>2. CASE IsrTransmit
  <2>1. tx_in # tx_out /\ tx_out' = Advance(tx_out) /\ UNCHANGED <<tx_in, tx_buf, written>>
    BY <1>2, Zenon DEF IsrTransmit, taskVars
  <2> QED
    BY <1>1, <2>1, UsedFacts
<1>3. CASE Interrupt /\ ~IsrTransmit
  <2>1. UNCHANGED <<tx_in, tx_out, tx_buf, written>>
    BY <1>3, Zenon DEF Interrupt, IsrControl, IsrReturn, IsrReceive, IsrReceiveEmpty,
       IsrReceiveFull, IsrTransmitEnd, ringVars, taskVars
  <2> QED
    BY <1>1, <2>1
<1>4. CASE Alarm \/ Host
  <2>1. UNCHANGED <<tx_in, tx_out, tx_buf, written>>
    BY <1>4, Zenon DEF Alarm, Host, HostGives, HostTakes, HostPolls, HostComesOrGoes,
       ringVars, taskVars
  <2> QED
    BY <1>1, <2>1
<1> QED
  BY <1>2, <1>3, <1>4

LEMMA WriterStep ==
  ASSUME IInv, Next
  PROVE  WriterInv'
<1>1. CASE Call \/ WritePublish \/ ReadTake \/ ReadFetch \/ ReadFree
  <2>1. pc' \notin {"copy", "publish"}
    BY <1>1, CallStep, TakeStep, Zenon DEF WritePublish, ReadFetch, ReadFree, Task
  <2> QED
    BY <2>1 DEF WriterInv
<1>2. CASE WriteSpace
  <2>1. UNCHANGED <<tx_in, tx_out>>
    BY <1>2, Zenon DEF WriteSpace, othersVars, ringVars
  <2> QED
    BY <1>2, <2>1, SpaceStep DEF WriterInv
<1>3. CASE WriteCopy
  <2>1. pc = "copy" /\ pc' = "publish" /\ UNCHANGED <<in, n, count, tx_in, tx_out, written>>
    BY <1>3, Zenon DEF WriteCopy, Task, locals
  <2>2. \A s \in in..in + n - 1 : tx_buf'[s] = written + 1 + (s - in)
    BY <1>3, CopyOutput
  <2> QED
    BY <2>1, <2>2 DEF IInv, WriterInv
<1>4. CASE \/ WriteKick \/ WriteWait \/ WriteResume
           \/ ReadWait \/ ReadResume \/ ReadRearm \/ CloseReturn
  <2>1. pc' \notin {"copy", "publish"}
    BY <1>4, KeepStep
  <2> QED
    BY <2>1 DEF WriterInv
<1>5. CASE Interrupt \/ Alarm \/ Host
  <2>1. UNCHANGED <<pc, in, n, count, tx_in, tx_buf, written>>
    <3>1. ~Call /\ ~Running => UNCHANGED <<pc, in, n, count>>
      BY TaskUnchanged DEF taskVars, locals
    <3>2. CASE Interrupt
      BY <3>2, Zenon DEF Interrupt, IsrControl, IsrReturn, IsrReceive, IsrReceiveEmpty,
         IsrReceiveFull, IsrTransmit, IsrTransmitEnd, ringVars, taskVars, locals
    <3>3. CASE Alarm \/ Host
      BY <3>3, Zenon DEF Alarm, Host, HostGives, HostTakes, HostPolls, HostComesOrGoes,
         ringVars, taskVars, locals
    <3> QED
      BY <1>5, <3>2, <3>3
  <2>2. /\ tx_in \in Slots /\ tx_out \in Slots /\ tx_out' \in Slots /\ n \in Slots
        /\ Used(tx_in, tx_out') \in Nat /\ Used(tx_in, tx_out) \in Nat
    <3>1. tx_in \in Slots /\ tx_out \in Slots /\ tx_out' \in Slots /\ n \in Slots
      BY TxStep DEF IInv, TxTypes, TaskTypes
    <3> QED
      BY <3>1, UsedFacts
  <2>3. pc \in {"copy", "publish"} => Used(tx_in, tx_out') + n < BufLen
    <3>1. pc \in {"copy", "publish"} => Used(tx_in, tx_out) + n < BufLen
      BY DEF IInv, WriterInv
    <3>2. Used(tx_in, tx_out') <= Used(tx_in, tx_out)
      BY <1>5, UsedShrinks
    <3> QED
      BY <2>2, <3>1, <3>2, JtagUartAssumption DEF Slots
  <2> QED
    BY <2>1, <2>3 DEF IInv, WriterInv
<1> QED
  BY <1>1, <1>2, <1>3, <1>4, <1>5 DEF Next, Running

(***************************************************************************)
(* The reader's characters can but become more while it is interrupted.    *)
(***************************************************************************)
ReadVars == <<rx_out, read>>

LEMMA UsedGrows ==
  ASSUME IInv, Next, ~ReadFree
  PROVE  /\ UNCHANGED ReadVars
         /\ Used(rx_in, rx_out) <= Used(rx_in', rx_out)
         /\ \A i \in 1..Used(rx_in, rx_out) : rx_buf'[Slot(rx_out, i)] = rx_buf[Slot(rx_out, i)]
<1>1. rx_in \in Slots /\ rx_out \in Slots /\ Used(rx_in, rx_out) \in Nat
  BY UsedFacts DEF IInv, RxTypes
<1>2. CASE IsrReceive
  <2>1. /\ Advance(rx_in) # rx_out /\ rx_in' = Advance(rx_in) /\ UNCHANGED ReadVars
        /\ rx_buf' = [rx_buf EXCEPT ![rx_in] = Head(rxf)]
    BY <1>2, Zenon DEF IsrReceive, RxFull, ReadVars, taskVars
  <2>2. Used(rx_in, rx_out) <= Used(rx_in', rx_out)
    BY <1>1, <2>1, UsedFacts
  <2>3. ASSUME NEW i \in 1..Used(rx_in, rx_out)
        PROVE  rx_buf'[Slot(rx_out, i)] = rx_buf[Slot(rx_out, i)]
    <3>1. Slot(rx_out, i) # rx_in
      BY <1>1, LastSlot
    <3>2. i \in 1..BufLen
      BY <1>1, UsedFacts, JtagUartAssumption
    <3>3. Slot(rx_out, i) \in Slots
      BY <1>1, <3>2, SlotFacts
    <3> QED
      BY <2>1, <3>1, <3>3 DEF IInv, RxTypes
  <2> QED
    BY <2>1, <2>2, <2>3
<1>3. CASE HostGives
  BY <1>1, <1>3 DEF HostGives, ringVars, taskVars, ReadVars
<1>4. CASE ~IsrReceive /\ ~HostGives
  BY <1>1, <1>4, RxUnchanged DEF RxVars, ReadVars
<1> QED
  BY <1>2, <1>3, <1>4

LEMMA ReaderStep ==
  ASSUME IInv, Next
  PROVE  ReaderInv' /\ BufferInOrder'
<1>1. /\ rx_in \in Slots /\ rx_out \in Slots /\ read \in Nat /\ moved \in Nat
      /\ count \in Nat /\ n \in Slots /\ n \in Nat /\ buffer \in Seq(Nat)
      /\ Used(rx_in, rx_out) \in Nat /\ BufferInOrder /\ Len(buffer) \in Nat
  <2>1. /\ rx_in \in Slots /\ rx_out \in Slots /\ read \in Nat /\ moved \in Nat
        /\ count \in Nat /\ n \in Slots /\ buffer \in Seq(Nat)
    BY DEF IInv, RxTypes, TaskTypes
  <2>2. Used(rx_in, rx_out) \in Nat
    BY <2>1, UsedFacts, JtagUartAssumption
  <2>3. n \in Nat
    BY <2>1 DEF Slots
  <2>4. Len(buffer) \in Nat
    BY <2>1
  <2>5. BufferInOrder
    BY InputTogether DEF IInv
  <2> QED
    BY <2>1, <2>2, <2>3, <2>4, <2>5
<1>e. Len(<<>>) = 0 /\ (buffer' = <<>> => BufferInOrder' /\ Len(buffer') = 0)
  BY DEF BufferInOrder
<1>2. CASE Call
  <2>1. pc' \in {"space", "take", "drain"} /\ moved' = 0 /\ buffer' = <<>>
        /\ (pc' = "take" => count' >= 1)
    BY <1>2, CallStep
  <2> QED
    BY <1>e, <2>1 DEF ReaderInv, ReadPcs
<1>3. CASE WriteSpace \/ WriteCopy \/ WritePublish
  <2>1. pc \in {"space", "copy", "publish"} /\ pc' \in {"copy", "kick", "publish", "space"}
        /\ buffer' = buffer
    BY <1>3, Zenon DEF WriteSpace, WriteCopy, WritePublish, Task, Moved, locals
  <2>2. Len(buffer) = 0
    BY <2>1 DEF IInv, ReaderInv, ReadPcs
  <2>3. BufferInOrder' /\ Len(buffer') = 0
    BY <2>1, <2>2 DEF BufferInOrder
  <2> QED
    BY <2>1, <2>3 DEF ReaderInv, ReadPcs
<1>4. CASE ReadTake
  <2>1. UNCHANGED <<rx_in, rx_out, read>>
    BY <1>4, Zenon DEF ReadTake, othersVars, ringVars
  <2>2. CASE pc' = "idle"
    BY <1>4, <1>e, <2>2, TakeStep DEF ReaderInv, ReadPcs
  <2>3. CASE pc' # "idle"
    <3>1. /\ pc = "take" /\ pc' \in {"fetch", "rearm", "empty"}
          /\ UNCHANGED <<count, moved, buffer>>
          /\ pc' = "fetch" => /\ out' = rx_out /\ n' >= 1 /\ n' <= count
                              /\ out' + n' <= BufLen /\ n' <= Used(rx_in, rx_out)
          /\ pc' = "empty" => moved = 0
      BY <1>4, <2>3, TakeStep
    <3>2. Len(buffer) = moved /\ count >= 1
      BY <3>1 DEF IInv, ReaderInv, ReadPcs
    <3>3. BufferInOrder'
      BY <1>1, <2>1, <3>1 DEF BufferInOrder
    <3> QED
      BY <2>1, <3>1, <3>2, <3>3 DEF ReaderInv, ReadPcs
  <2> QED
    BY <2>2, <2>3
<1>5. CASE ReadFetch
  <2> DEFINE block == [i \in 1..n |-> rx_buf[out + i - 1]]
  <2>1. /\ pc = "fetch" /\ pc' = "free" /\ UNCHANGED <<count, moved, in, out, n>>
        /\ UNCHANGED <<rx_in, rx_out, rx_buf, read>> /\ buffer' = buffer \o block
    BY <1>5, Zenon DEF ReadFetch, Task, othersVars, ringVars
  <2>2. /\ out = rx_out /\ n >= 1 /\ n <= count /\ out + n <= BufLen
        /\ n <= Used(rx_in, rx_out) /\ Len(buffer) = moved
    BY <2>1 DEF IInv, ReaderInv, ReadPcs
  <2>3. \A i \in 1..n : rx_buf[out + i - 1] = read + i /\ rx_buf[out + i - 1] \in Nat
    <3>1. n \in 1..BufLen - rx_out
      BY <1>1, <2>2, JtagUartAssumption DEF Slots
    <3>2. \A i \in 1..n : Slot(rx_out, i) = rx_out + i - 1
      BY <1>1, <2>2, <3>1, FreedBlock
    <3>3. \A i \in 1..Used(rx_in, rx_out) : rx_buf[Slot(rx_out, i)] = read + i
      BY DEF IInv, InputInOrder
    <3>4. \A i \in 1..n : i \in 1..Used(rx_in, rx_out)
      BY <1>1, <2>2
    <3>5. ASSUME NEW i \in 1..n
          PROVE  rx_buf[out + i - 1] = read + i
      <4>1. rx_buf[Slot(rx_out, i)] = read + i
        BY <3>3, <3>4
      <4>2. Slot(rx_out, i) = out + i - 1
        BY <2>2, <3>2
      <4> QED
        BY <4>1, <4>2
    <3> QED
      BY <1>1, <3>5
  <2>4. block \in Seq(Nat) /\ Len(block) = n /\ \A i \in 1..n : block[i] = read + i
    BY <1>1, <2>3
  <2> HIDE DEF block
  <2>5. /\ Len(buffer') = moved + n
        /\ \A i \in 1..Len(buffer') :
             buffer'[i] = IF i <= moved THEN buffer[i] ELSE block[i - moved]
    <3>1. Len(buffer') = moved + n
      <4>1. Len(buffer \o block) = Len(buffer) + Len(block)
        <5>1. buffer \in Seq(Nat) /\ block \in Seq(Nat)
          BY <1>1, <2>4
        <5> QED
          BY <5>1
      <4> QED
        BY <2>1, <2>2, <2>4, <4>1
    <3>2. \A i \in 1..Len(buffer) + Len(block) :
            (buffer \o block)[i] = IF i <= Len(buffer) THEN buffer[i] ELSE block[i - Len(buffer)]
      BY <1>1, <2>4
    <3> QED
      BY <2>1, <2>2, <2>4, <3>1, <3>2
  <2>6. \A i \in 1..Len(buffer') : buffer'[i] = read - moved + i
    BY <1>1, <2>2, <2>4, <2>5 DEF BufferInOrder
  <2>7. BufferInOrder'
    BY <2>1, <2>6 DEF BufferInOrder
  <2> QED
    BY <2>1, <2>2, <2>5, <2>7 DEF ReaderInv
<1>6. CASE ReadFree
  <2>1. /\ \/ pc' = "take" /\ count > n
           \/ pc' = "rearm"
        /\ pc = "free" /\ moved' = moved + n /\ count' = count - n /\ buffer' = buffer
        /\ read' = read + n
    BY <1>6, Zenon DEF ReadFree, Task, Moved
  <2>2. Len(buffer) = moved + n
    BY <2>1 DEF IInv, ReaderInv
  <2>3. BufferInOrder'
    BY <1>1, <2>1 DEF BufferInOrder
  <2>4. pc' = "take" => count' >= 1
    BY <1>1, <2>1
  <2> QED
    BY <1>1, <2>1, <2>2, <2>3, <2>4 DEF ReaderInv, ReadPcs
<1>7. CASE \/ WriteKick \/ WriteWait \/ WriteResume
           \/ ReadWait \/ ReadResume \/ ReadRearm \/ CloseReturn
  <2>0. ~ReadFree
    <3>1. pc # "free"
      BY <1>7, KeepStep
    <3> QED
      BY <3>1 DEF ReadFree, Task
  <2>1. UNCHANGED ReadVars
    BY <2>0, UsedGrows
  <2>2. CASE pc' = "idle"
    <3>1. moved' = 0 /\ buffer' = <<>>
      BY <1>7, <2>2, KeepStep, KeepFacts
    <3> QED
      BY <1>e, <2>2, <3>1 DEF ReaderInv, ReadPcs
  <2>3. CASE pc' # "idle"
    <3>1. UNCHANGED <<count, moved, buffer>>
      BY <1>7, <2>3, KeepStep, KeepFacts
    <3>2. \/ pc \in {"full", "room"} /\ pc' \in {"room", "space"}
          \/ pc = "kick" /\ pc' = "full"
          \/ pc = "empty" /\ pc' = "arrived"
          \/ pc = "arrived" /\ pc' = "take"
      BY <1>7, <2>3, KeepStep
    <3>3. BufferInOrder'
      BY <1>1, <2>1, <3>1 DEF BufferInOrder, ReadVars
    <3> QED
      BY <3>1, <3>2, <3>3 DEF IInv, ReaderInv, ReadPcs
  <2> QED
    BY <2>2, <2>3
<1>8. CASE ~Call /\ ~Running
  <2>1. UNCHANGED <<pc, count, moved, out, n, buffer>>
    BY <1>8, TaskUnchanged DEF taskVars, locals
  <2>2. UNCHANGED ReadVars /\ Used(rx_in, rx_out) <= Used(rx_in', rx_out)
    BY <1>8, UsedGrows DEF Running
  <2>3. rx_in' \in Slots /\ Used(rx_in', rx_out) \in Nat
    <3>1. rx_in' \in Slots
      BY RxStep DEF RxTypes
    <3>2. Used(rx_in', rx_out) \in 0..BufLen - 1
      BY <1>1, <3>1, UsedFacts
    <3> QED
      BY <3>1, <3>2, JtagUartAssumption
  <2>4. BufferInOrder'
    BY <1>1, <2>1, <2>2 DEF BufferInOrder, ReadVars
  <2>5. n <= Used(rx_in, rx_out) => n <= Used(rx_in', rx_out)
    BY <1>1, <2>2, <2>3
  <2> QED
    BY <2>1, <2>2, <2>4, <2>5 DEF IInv, ReaderInv, ReadVars
<1> QED
  BY <1>2, <1>3, <1>4, <1>5, <1>6, <1>7, <1>8 DEF Running

(***************************************************************************)
(* The interrupts that output and input wait for.                          *)
(***************************************************************************)
LEMMA ControlStep ==
  ASSUME IInv, Next
  PROVE  control' = control \/ WriteKick \/ ReadRearm \/ IsrReceiveFull \/ IsrTransmitEnd
<1> USE DEF deviceVars, asyncVars, othersVars
<1>1. CASE Call \/ WriteSpace \/ WriteCopy \/ WritePublish \/ WriteWait \/ WriteResume
  BY <1>1 DEF Call, WriteCall, ReadCall, CloseCall, WriteSpace, WriteCopy, WritePublish,
     WriteWait, WriteResume
<1>2. CASE ReadTake \/ ReadFetch \/ ReadFree \/ ReadWait \/ ReadResume \/ CloseReturn
  BY <1>2 DEF ReadTake, ReadFetch, ReadFree, ReadWait, ReadResume, CloseReturn
<1>3. CASE IsrControl \/ IsrReturn \/ IsrReceive \/ IsrReceiveEmpty \/ IsrTransmit
  BY <1>3, Zenon DEF IsrControl, IsrReturn, IsrReceive, IsrReceiveEmpty, IsrTransmit
<1>4. CASE Alarm
  BY <1>4 DEF Alarm, IInv, EnableTypes
<1>5. CASE Host
  BY <1>5 DEF Host, HostGives, HostTakes, HostPolls, HostComesOrGoes
<1> QED
  BY <1>1, <1>2, <1>3, <1>4, <1>5 DEF Next, Running, Interrupt

\* How far a call has got.
LEMMA MovedStep ==
  ASSUME IInv, Next
  PROVE  \/ UNCHANGED <<pc, moved>>
         \/ Call /\ pc = "idle" /\ pc' \in {"space", "take", "drain"}
         \/ WriteSpace /\ pc = "space" /\ pc' \in {"copy", "kick"} /\ moved' = moved
         \/ ReadTake /\ pc = "take"
            /\ \/ pc' \in {"fetch", "rearm"} /\ moved' = moved
               \/ pc' \in {"idle", "empty"} /\ moved = 0
         \/ WriteCopy /\ pc = "copy" /\ pc' = "publish" /\ moved' = moved
         \/ WritePublish /\ pc = "publish" /\ pc' = "space" /\ moved' > 0
         \/ ReadFetch /\ pc = "fetch" /\ pc' = "free" /\ moved' = moved
         \/ ReadFree /\ pc = "free" /\ pc' \in {"take", "rearm"} /\ moved' > 0
         \/ /\ \/ WriteKick \/ WriteWait \/ WriteResume
               \/ ReadWait \/ ReadResume \/ ReadRearm \/ CloseReturn
            /\ pc \in {"kick", "full", "room", "empty", "arrived", "rearm", "drain"}
<1>1. moved \in Nat /\ n \in Nat
  BY JtagUartAssumption DEF IInv, TaskTypes, Slots
<1>2. CASE Call
  BY <1>2, CallStep
<1>3. CASE WriteSpace
  <2>1. pc = "space"
    BY <1>3, Zenon DEF WriteSpace, Task
  <2> QED
    BY <1>3, <2>1, SpaceStep
<1>4. CASE ReadTake
  BY <1>4, TakeStep
<1>5. CASE WriteCopy
  BY <1>5, Zenon DEF WriteCopy, Task, locals
<1>6. CASE WritePublish
  <2>1. pc = "publish" /\ pc' = "space" /\ moved' = moved + n
    BY <1>6, Zenon DEF WritePublish, Task, Moved
  <2>2. n >= 1
    BY <2>1 DEF IInv, WriterInv
  <2> QED
    BY <1>1, <1>6, <2>1, <2>2
<1>7. CASE ReadFetch
  BY <1>7, Zenon DEF ReadFetch, Task
<1>8. CASE ReadFree
  <2>1. pc = "free" /\ pc' \in {"take", "rearm"} /\ moved' = moved + n
    BY <1>8, Zenon DEF ReadFree, Task, Moved
  <2>2. n >= 1
    BY <2>1 DEF IInv, ReaderInv
  <2> QED
    BY <1>1, <1>8, <2>1, <2>2
<1>9. CASE \/ WriteKick \/ WriteWait \/ WriteResume
           \/ ReadWait \/ ReadResume \/ ReadRearm \/ CloseReturn
  BY <1>9, KeepStep
<1>10. CASE ~Call /\ ~Running
  BY <1>10, TaskUnchanged DEF taskVars, locals
<1> QED
  BY <1>2, <1>3, <1>4, <1>5, <1>6, <1>7, <1>8, <1>9, <1>10 DEF Running

LEMMA PendingStep ==
  ASSUME IInv, Next
  PROVE  PendingOutputIsArmed'
<1> DEFINE Writing == pc \in {"space", "copy", "publish", "kick"} /\ moved > 0
<1> SUFFICES ASSUME tx_in' # tx_out', ~Writing'
             PROVE  "WE" \in control'
  BY DEF PendingOutputIsArmed
<1>1. /\ control = irq_enable
      /\ tx_in # tx_out /\ ~Writing => "WE" \in control
  BY DEF IInv, EnableTypes, PendingOutputIsArmed
<1>2. CASE WriteKick
  BY <1>2, Zenon DEF WriteKick
<1>3. CASE IsrTransmitEnd
  <2>1. /\ UNCHANGED <<tx_in, tx_out, pc, moved>>
        /\ control' = control \/ tx_out = tx_in
    BY <1>3, Zenon DEF IsrTransmitEnd, ringVars, taskVars, locals
  <2> QED
    BY <1>1, <2>1
<1>4. CASE IsrReceiveFull
  <2>1. /\ UNCHANGED <<tx_in, tx_out, pc, moved>>
        /\ control' = control \/ control' = irq_enable \ {"RE"}
    BY <1>4, Zenon DEF IsrReceiveFull, ringVars, taskVars, locals
  <2> QED
    BY <1>1, <2>1
<1>5. CASE ReadRearm
  <2>1. UNCHANGED <<tx_in, tx_out>> /\ pc = "rearm" /\ control' = irq_enable \cup {"RE"}
    BY <1>5, Zenon DEF ReadRearm, Task, ringVars
  <2> QED
    BY <1>1, <2>1
<1>6. CASE WritePublish
  <2>1. pc' = "space" /\ moved' > 0
    <3>1. pc = "publish" /\ pc' = "space"
      BY <1>6, Zenon DEF WritePublish, Task
    <3> QED
      BY <1>6, <3>1, MovedStep
  <2> QED
    BY <2>1
<1>7. CASE IsrTransmit
  <2>1. tx_in # tx_out /\ UNCHANGED <<control, pc, moved>>
    BY <1>7, Zenon DEF IsrTransmit, taskVars, locals
  <2> QED
    BY <1>1, <2>1
<1>8. CASE /\ ~WriteKick /\ ~IsrTransmitEnd /\ ~IsrReceiveFull /\ ~ReadRearm
           /\ ~WritePublish /\ ~IsrTransmit
  <2>1. control' = control
    BY <1>8, ControlStep
  <2>2. UNCHANGED <<tx_in, tx_out>>
    <3>1. CASE WriteCopy
      BY <3>1, Zenon DEF WriteCopy
    <3>2. CASE HostTakes
      BY <3>2, Zenon DEF HostTakes, ringVars
    <3>3. CASE ~WriteCopy /\ ~HostTakes
      BY <1>8, <3>3, TxUnchanged DEF TxVars
    <3> QED
      BY <3>1, <3>2, <3>3
  <2>3. ~Writing
    <3>1. WriteCopy => pc = "copy" /\ pc' = "publish" /\ moved' = moved
      BY Zenon DEF WriteCopy, Task, locals
    <3>2. \/ WriteWait \/ WriteResume \/ ReadWait \/ ReadResume \/ CloseReturn
          => pc \in {"full", "room", "empty", "arrived", "drain"}
      BY Zenon DEF WriteWait, WriteResume, ReadWait, ReadResume, CloseReturn, Task
    <3> QED
      BY <1>8, <3>1, <3>2, MovedStep
  <2> QED
    BY <1>1, <2>1, <2>2, <2>3
<1> QED
  BY <1>2, <1>3, <1>4, <1>5, <1>6, <1>7, <1>8

LEMMA InputStep ==
  ASSUME IInv, Next
  PROVE  InputIsArmed'
<1> DEFINE Reading == pc \in ReadPcs /\ moved > 0
<1> SUFFICES ASSUME "RE" \notin control'
             PROVE  RxFull' \/ Reading'
  BY DEF InputIsArmed
<1>1. /\ control = irq_enable
      /\ "RE" \notin control => RxFull \/ Reading
  BY DEF IInv, EnableTypes, InputIsArmed
<1>2. CASE ReadRearm
  BY <1>2, Zenon DEF ReadRearm
<1>3. CASE IsrReceiveFull
  <2>1. RxFull /\ UNCHANGED <<rx_in, rx_out>>
    BY <1>3, Zenon DEF IsrReceiveFull, ringVars
  <2> QED
    BY <2>1 DEF RxFull, Advance
<1>4. CASE WriteKick
  <2>1. UNCHANGED <<rx_in, rx_out>> /\ pc = "kick" /\ control' = irq_enable \cup {"WE"}
    BY <1>4, Zenon DEF WriteKick, Task, ringVars
  <2> QED
    BY <1>1, <2>1 DEF RxFull, Advance, ReadPcs
<1>5. CASE IsrTransmitEnd
  <2>1. /\ UNCHANGED <<rx_in, rx_out, pc, moved>>
        /\ control' = control \/ control' = irq_enable \ {"WE"}
    BY <1>5, Zenon DEF IsrTransmitEnd, ringVars, taskVars, locals
  <2> QED
    BY <1>1, <2>1 DEF RxFull, Advance
<1>6. CASE ReadFree
  <2>1. pc = "free" /\ pc' \in {"take", "rearm"}
    BY <1>6, Zenon DEF ReadFree, Task
  <2>2. moved' > 0
    BY <1>6, <2>1, MovedStep
  <2> QED
    BY <2>1, <2>2 DEF ReadPcs
<1>7. CASE IsrReceive
  <2>1. ~RxFull /\ UNCHANGED <<control, pc, moved>>
    BY <1>7, Zenon DEF IsrReceive, taskVars, locals
  <2> QED
    BY <1>1, <2>1
<1>8. CASE /\ ~ReadRearm /\ ~IsrReceiveFull /\ ~WriteKick /\ ~IsrTransmitEnd
           /\ ~ReadFree /\ ~IsrReceive
  <2>1. control' = control
    BY <1>8, ControlStep
  <2>2. UNCHANGED <<rx_in, rx_out>>
    <3>1. CASE HostGives
      BY <3>1, Zenon DEF HostGives, ringVars
    <3>2. CASE ~HostGives
      BY <1>8, <3>2, RxUnchanged DEF RxVars
    <3> QED
      BY <3>1, <3>2
  <2>3. Reading => Reading'
    <3>1. \/ WriteWait \/ WriteResume \/ ReadWait \/ ReadResume \/ CloseReturn
          => pc \in {"full", "room", "empty", "arrived", "drain"}
      BY Zenon DEF WriteWait, WriteResume, ReadWait, ReadResume, CloseReturn, Task
    <3>2. pc \in {"empty", "arrived"} => moved = 0
      BY DEF IInv, ReaderInv
    <3> QED
      BY <1>8, <3>1, <3>2, MovedStep DEF ReadPcs
  <2> QED
    BY <1>1, <2>1, <2>2, <2>3 DEF RxFull, Advance
<1> QED
  BY <1>2, <1>3, <1>4, <1>5, <1>6, <1>7, <1>8

(***************************************************************************)
(* The theorems.                                                           *)
(***************************************************************************)
LEMMA Invariant == Spec => []IInv
<1>1. IInv /\ [Next]_vars => IInv'
  <2> SUFFICES ASSUME IInv, [Next]_vars PROVE IInv'
    OBVIOUS
  <2>1. CASE Next
    <3>1. InputInOrder'
      BY <2>1, RxStep, ReaderStep, InputTogether, PTL
    <3> QED
      BY <2>1, <3>1, FlagStep, EnableStep, TxStep, RxStep, RoutineStep, TaskStep, WriterStep,
         ReaderStep, PendingStep, InputStep DEF IInv
  <2>2. CASE UNCHANGED vars
    <3>1. UNCHANGED <<irq_enable, host_inactive, rx_in, rx_out, tx_in, tx_out, rx_buf, tx_buf>>
      BY <2>2, Zenon DEF vars, ringVars
    <3>2. UNCHANGED <<control, ac, txf, rxf, attached, given, taken, isr, wi, space, ravail>>
      BY <2>2, Zenon DEF vars, deviceVars, hostVars, isrVars
    <3>3. UNCHANGED <<pc, nonblock, count, moved, in, out, n, buffer, written, read>>
      BY <2>2, Zenon DEF vars, taskVars, locals
    <3>4. (FlagTypes /\ EnableTypes /\ TxTypes /\ RxTypes /\ RoutineTypes /\ TaskTypes)'
      BY <3>1, <3>2, <3>3, Zenon
      DEF IInv, FlagTypes, EnableTypes, TxTypes, RxTypes, RoutineTypes, TaskTypes
    <3>5. (OutputInOrder /\ InputInOrder)'
      BY <3>1, <3>2, <3>3 DEF IInv, OutputInOrder, InputInOrder
    <3>6. (PendingOutputIsArmed /\ InputIsArmed)'
      BY <3>1, <3>2, <3>3 DEF IInv, PendingOutputIsArmed, InputIsArmed, RxFull, Advance
    <3>7. (WriterInv /\ ReaderInv)'
      BY <3>1, <3>2, <3>3 DEF IInv, WriterInv, ReaderInv
    <3>8. RoutineInv'
      BY <3>2, Zenon DEF IInv, RoutineInv
    <3> QED
      BY <3>4, <3>5, <3>6, <3>7, <3>8 DEF IInv
  <2> QED
    BY <2>1, <2>2
<1> QED
  BY InitInv, <1>1, PTL DEF Spec

\* Types: in particular the indices of both buffers stay within them, the
\* write FIFO is never given more than it holds, and the control register
\* has the enable bits of the driver's copy (altera_avalon_jtag_uart_irq).
THEOREM TypeCorrect == Spec => []TypeOK
<1>1. IInv => TypeOK
  BY TypesTogether, Zenon DEF IInv
<1> QED
  BY Invariant, <1>1, PTL

\* Nothing that was written is lost, repeated or overtaken on its way through
\* the transmit buffer and the FIFO (altera_avalon_jtag_uart_write and _irq).
THEOREM OutputOrder == Spec => []OutputInOrder
<1>1. IInv => OutputInOrder
  BY DEF IInv
<1> QED
  BY Invariant, <1>1, PTL

\* Nothing that the host sent is lost, repeated or overtaken on its way through
\* the FIFO and the receive buffer (altera_avalon_jtag_uart_irq and _read).
THEOREM InputOrder == Spec => []InputInOrder
<1>1. IInv => InputInOrder
  BY DEF IInv
<1> QED
  BY Invariant, <1>1, PTL

\* The routine never turns the transmit interrupt off under published output
\* that no writer is about to turn it on for (altera_avalon_jtag_uart_write).
THEOREM OutputArmed == Spec => []PendingOutputIsArmed
<1>1. IInv => PendingOutputIsArmed
  BY DEF IInv
<1> QED
  BY Invariant, <1>1, PTL

\* The receive interrupt stays off only while the buffer is full or a reader
\* that has made room is about to turn it on (altera_avalon_jtag_uart_read).
THEOREM InputArmed == Spec => []InputIsArmed
<1>1. IInv => InputIsArmed
  BY DEF IInv
<1> QED
  BY Invariant, <1>1, PTL
=============================================================================
