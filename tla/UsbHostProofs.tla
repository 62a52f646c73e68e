---------------------------- MODULE UsbHostProofs ----------------------------
(***************************************************************************)
(* Proofs about UsbHost for any set of devices and any number of addresses.*)
(***************************************************************************)
EXTENDS UsbHost, TLAPS

USE DeviceAssumption, TaskAssumption, KeyAssumption
    DEF INITIALIZE, WAIT_FOR_DEVICE, ILLEGAL, ATTACHED, SETTLE, RESET_DEVICE,
        WAIT_RESET_COMPLETE, WAIT_SOF, GET_DESCRIPTOR, ADDRESSING, CONFIGURING,
        RUNNING, ERROR, HID_K, HID_M, UNINIT, XferError, NoAddress, NoClientDriver

(***************************************************************************)
(* The device table.                                                       *)
(***************************************************************************)
TableType == [Addr -> [epinfo : {"NULL", "dev0ep", "hid_ep"}, devclass : {UNINIT, HID_K, HID_M}]]

\* GetDriverandReport returns the class of the last used entry.
LEMMA DriverClassOfLast ==
  ASSUME NEW h \in Addr, LastUsed(h)
  PROVE  DriverClass = devtable[h].devclass
<1>1. \A a \in Addr : LastUsed(a) <=> a = h
  BY DEF LastUsed, Addr
<1>2. \E a \in Addr : Used(a)
  BY DEF LastUsed
<1>3. (CHOOSE a \in Addr : LastUsed(a)) = h
  BY <1>1
<1> QED
  BY <1>2, <1>3 DEF DriverClass

\* A clear table is a prefix and of the right type.
LEMMA ClearTableFacts ==
  ASSUME USB_init
  PROVE  /\ devtable' \in TableType
         /\ \A a \in Addr : ~Used(a)'
BY DEF USB_init, ClearTable, FreeEntry, TableType, Used

\* The bus probe's results.
LEMMA ProbeResult ==
  ASSUME MAX_busprobe, TypeOK
  PROVE  /\ usb_task_state' \in {INITIALIZE, WAIT_FOR_DEVICE, ILLEGAL, ATTACHED, WAIT_RESET_COMPLETE}
         /\ usb_task_state' = WAIT_RESET_COMPLETE => usb_task_state = WAIT_RESET_COMPLETE
         /\ usb_task_state' = WAIT_FOR_DEVICE => Detached(usb_task_state)
         /\ lowspeed' \in BOOLEAN
<1>1. lowspeed' \in BOOLEAN
  BY Zenon DEF MAX_busprobe, OwnReset, TypeOK, FlagTypes
<1>2. \/ usb_task_state = WAIT_RESET_COMPLETE /\ usb_task_state' = usb_task_state
      \/ usb_task_state' \in {ATTACHED, ILLEGAL, INITIALIZE}
      \/ usb_task_state' = WAIT_FOR_DEVICE /\ Detached(usb_task_state)
  BY DEF MAX_busprobe, OwnReset
<1> QED
  BY <1>1, <1>2

\* The host starts with an empty table and nothing pending, as the invariant asks.
THEOREM InitIndInv == Init => IndInv
<1> SUFFICES ASSUME Init PROVE IndInv
  OBVIOUS
<1>1. TypeOK
  BY DEF Init, TypeOK, FlagTypes, ValueTypes, Addr, TaskStates, Labels, ClearTable, FreeEntry
<1>2. UsedIsPrefix /\ FlagInv /\ ConfiguringInv /\ ServingInv /\ CallInv
  BY DEF Init, UsedIsPrefix, FlagInv, ConfiguringInv, ServingInv, CallInv, Used, ClearTable, FreeEntry
<1> QED
  BY <1>1, <1>2 DEF IndInv

\* What an unchanged device table keeps.
LEMMA SameTable ==
  ASSUME devtable' = devtable
  PROVE  /\ \A a \in Addr : Used(a)' <=> Used(a)
         /\ \A a \in Addr : LastUsed(a)' <=> LastUsed(a)
         /\ UsedIsPrefix => UsedIsPrefix'
BY DEF Used, LastUsed, UsedIsPrefix

LEMMA MainInitResetStep ==
  ASSUME IndInv, MainInitReset PROVE IndInv'
<1> USE DEF IndInv, MainInitReset, Go, KeepsMain, InitChipReset, portVars
<1>1. FlagTypes'
  BY Zenon DEF TypeOK, FlagTypes, taskVars
<1>2. ValueTypes'
  BY DEF TypeOK, ValueTypes, taskVars, TaskStates, Labels, CallInv
<1>3. UsedIsPrefix'
  BY SameTable DEF taskVars
<1>4. CallInv'
  BY DEF CallInv, FlagInv, TypeOK, ValueTypes, taskVars
<1>5. FlagInv'
  BY DEF CallInv, FlagInv, TypeOK, FlagTypes, taskVars
<1>6. ConfiguringInv'
  BY SameTable DEF ConfiguringInv, CallInv, taskVars
<1>7. ServingInv'
  BY SameTable DEF ServingInv, CallInv, taskVars
<1> QED
  BY <1>1, <1>2, <1>3, <1>4, <1>5, <1>6, <1>7 DEF TypeOK

LEMMA MainInitProbeStep ==
  ASSUME IndInv, MainInitProbe PROVE IndInv'
<1> USE DEF IndInv, MainInitProbe, Go, KeepsMain, InitProbe, portVars
<1>1. FlagTypes'
  BY ProbeResult DEF TypeOK, FlagTypes, taskVars
<1>2. ValueTypes'
  BY ProbeResult DEF TypeOK, ValueTypes, taskVars, TaskStates, Labels, CallInv
<1>3. UsedIsPrefix'
  BY SameTable DEF taskVars
<1>4. CallInv'
  BY ProbeResult DEF CallInv, FlagInv, TypeOK, ValueTypes, taskVars
<1>5. FlagInv'
  BY ProbeResult DEF CallInv, FlagInv, TypeOK, FlagTypes, taskVars
<1>6. ConfiguringInv'
  BY ProbeResult, SameTable DEF ConfiguringInv, CallInv, taskVars
<1>7. ServingInv'
  BY ProbeResult, SameTable DEF ServingInv, CallInv, taskVars
<1> QED
  BY <1>1, <1>2, <1>3, <1>4, <1>5, <1>6, <1>7 DEF TypeOK

LEMMA MainInitAckStep ==
  ASSUME IndInv, MainInitAck PROVE IndInv'
<1> USE DEF IndInv, MainInitAck, Go, KeepsMain, InitClearCondet, portVars
<1>1. FlagTypes'
  BY Zenon DEF TypeOK, FlagTypes, taskVars
<1>2. ValueTypes'
  BY ClearTableFacts DEF TableType, TypeOK, ValueTypes, taskVars, TaskStates, Labels, CallInv
<1>3. UsedIsPrefix'
  BY ClearTableFacts DEF UsedIsPrefix
<1>4. CallInv'
  BY DEF CallInv, FlagInv, TypeOK, ValueTypes, taskVars
<1>5. FlagInv'
  BY DEF CallInv, FlagInv, TypeOK, FlagTypes, taskVars
<1>6. ConfiguringInv'
  BY ClearTableFacts DEF ConfiguringInv, CallInv, taskVars
<1>7. ServingInv'
  BY ClearTableFacts DEF ServingInv, CallInv, taskVars
<1> QED
  BY <1>1, <1>2, <1>3, <1>4, <1>5, <1>6, <1>7 DEF TypeOK

LEMMA NoInterruptStep ==
  ASSUME IndInv, NoInterrupt PROVE IndInv'
<1> USE DEF IndInv, NoInterrupt, Go, KeepsMain, maxVars, portVars, chipVars
<1>1. FlagTypes'
  BY Zenon DEF TypeOK, FlagTypes, taskVars
<1>2. ValueTypes'
  BY DEF TypeOK, ValueTypes, taskVars, TaskStates, Labels, CallInv
<1>3. UsedIsPrefix'
  BY SameTable DEF taskVars
<1>4. CallInv'
  BY DEF CallInv, FlagInv, TypeOK, ValueTypes, taskVars
<1>5. FlagInv'
  BY DEF CallInv, FlagInv, TypeOK, FlagTypes, taskVars
<1>6. ConfiguringInv'
  BY SameTable DEF ConfiguringInv, CallInv, taskVars
<1>7. ServingInv'
  BY SameTable DEF ServingInv, CallInv, taskVars
<1> QED
  BY <1>1, <1>2, <1>3, <1>4, <1>5, <1>6, <1>7 DEF TypeOK

LEMMA InterruptStep ==
  ASSUME IndInv, Interrupt PROVE IndInv'
<1> USE DEF IndInv, Interrupt, Go, KeepsMain, IntReadHirq, portVars, chipVars
<1>1. FlagTypes'
  BY Zenon DEF TypeOK, FlagTypes, taskVars
<1>2. ValueTypes'
  BY DEF TypeOK, ValueTypes, taskVars, TaskStates, Labels, CallInv
<1>3. UsedIsPrefix'
  BY SameTable DEF taskVars
<1>4. CallInv'
  BY DEF CallInv, FlagInv, TypeOK, ValueTypes, taskVars
<1>5. FlagInv'
  BY DEF CallInv, FlagInv, TypeOK, FlagTypes, taskVars
<1>6. ConfiguringInv'
  BY SameTable DEF ConfiguringInv, CallInv, taskVars
<1>7. ServingInv'
  BY SameTable DEF ServingInv, CallInv, taskVars
<1> QED
  BY <1>1, <1>2, <1>3, <1>4, <1>5, <1>6, <1>7 DEF TypeOK

LEMMA InterruptProbeStep ==
  ASSUME IndInv, InterruptProbe PROVE IndInv'
<1> USE DEF IndInv, InterruptProbe, Go, KeepsMain, IntProbe, portVars
<1>1. FlagTypes'
  BY ProbeResult DEF TypeOK, FlagTypes, taskVars
<1>2. ValueTypes'
  BY ProbeResult DEF TypeOK, ValueTypes, taskVars, TaskStates, Labels, CallInv
<1>3. UsedIsPrefix'
  BY SameTable DEF taskVars
<1>4. CallInv'
  BY ProbeResult DEF CallInv, FlagInv, TypeOK, ValueTypes, taskVars
<1>5. FlagInv'
  BY ProbeResult DEF CallInv, FlagInv, TypeOK, FlagTypes, taskVars
<1>6. ConfiguringInv'
  BY ProbeResult, SameTable DEF ConfiguringInv, CallInv, taskVars
<1>7. ServingInv'
  BY ProbeResult, SameTable DEF ServingInv, CallInv, taskVars
<1> QED
  BY <1>1, <1>2, <1>3, <1>4, <1>5, <1>6, <1>7 DEF TypeOK

LEMMA InterruptAckStep ==
  ASSUME IndInv, InterruptAck PROVE IndInv'
<1> USE DEF IndInv, InterruptAck, Go, KeepsMain, IntAck, portVars
<1>1. FlagTypes'
  BY Zenon DEF TypeOK, FlagTypes, taskVars
<1>2. ValueTypes'
  BY DEF TypeOK, ValueTypes, taskVars, TaskStates, Labels, CallInv
<1>3. UsedIsPrefix'
  BY SameTable DEF taskVars
<1>4. CallInv'
  BY DEF CallInv, FlagInv, TypeOK, ValueTypes, taskVars
<1>5. FlagInv'
  BY DEF CallInv, FlagInv, TypeOK, FlagTypes, taskVars
<1>6. ConfiguringInv'
  BY SameTable DEF ConfiguringInv, CallInv, taskVars
<1>7. ServingInv'
  BY SameTable DEF ServingInv, CallInv, taskVars
<1> QED
  BY <1>1, <1>2, <1>3, <1>4, <1>5, <1>6, <1>7 DEF TypeOK

LEMMA ReportDriverStep ==
  ASSUME IndInv, ReportDriver PROVE IndInv'
<1> USE DEF IndInv, ReportDriver, Go, KeepsMain, maxVars, portVars, chipVars
<1>d. DriverClass = devtable[hidaddr].devclass /\ hidaddr \in Addr
  BY DriverClassOfLast DEF ServingInv
<1>1. FlagTypes'
  BY Zenon DEF TypeOK, FlagTypes, taskVars
<1>2. ValueTypes'
  BY <1>d DEF TypeOK, ValueTypes, taskVars, TaskStates, Labels, CallInv
<1>3. UsedIsPrefix'
  BY SameTable DEF taskVars
<1>4. CallInv'
  BY DEF CallInv, FlagInv, TypeOK, ValueTypes, taskVars
<1>5. FlagInv'
  BY DEF CallInv, FlagInv, TypeOK, FlagTypes, taskVars
<1>6. ConfiguringInv'
  BY SameTable DEF ConfiguringInv, CallInv, taskVars
<1>7. ServingInv'
  BY SameTable, <1>d DEF ServingInv, taskVars
<1> QED
  BY <1>1, <1>2, <1>3, <1>4, <1>5, <1>6, <1>7 DEF TypeOK

LEMMA PollKeyboardStep ==
  ASSUME IndInv, PollKeyboard PROVE IndInv'
<1> USE DEF IndInv, PollKeyboard, Go, KeepsMain, maxVars, portVars, chipVars
<1>1. FlagTypes'
  BY Zenon DEF TypeOK, FlagTypes, taskVars
<1>2. ValueTypes'
  BY DEF TypeOK, ValueTypes, taskVars, TaskStates, Labels, CallInv
<1>3. UsedIsPrefix'
  BY SameTable DEF taskVars
<1>4. CallInv'
  BY DEF CallInv, FlagInv, TypeOK, ValueTypes, taskVars
<1>5. FlagInv'
  BY DEF CallInv, FlagInv, TypeOK, FlagTypes, taskVars
<1>6. ConfiguringInv'
  BY SameTable DEF ConfiguringInv, CallInv, taskVars
<1>7. ServingInv'
  BY SameTable DEF ServingInv, CallInv, taskVars
<1> QED
  BY <1>1, <1>2, <1>3, <1>4, <1>5, <1>6, <1>7 DEF TypeOK

LEMMA PollOtherStep ==
  ASSUME IndInv, PollOther PROVE IndInv'
<1> USE DEF IndInv, PollOther, Go, KeepsMain, maxVars, portVars, chipVars
<1>1. FlagTypes'
  BY Zenon DEF TypeOK, FlagTypes, taskVars
<1>2. ValueTypes'
  BY DEF TypeOK, ValueTypes, taskVars, TaskStates, Labels, CallInv
<1>3. UsedIsPrefix'
  BY SameTable DEF taskVars
<1>4. CallInv'
  BY DEF CallInv, FlagInv, TypeOK, ValueTypes, taskVars
<1>5. FlagInv'
  BY DEF CallInv, FlagInv, TypeOK, FlagTypes, taskVars
<1>6. ConfiguringInv'
  BY SameTable DEF ConfiguringInv, CallInv, taskVars
<1>7. ServingInv'
  BY SameTable DEF ServingInv, CallInv, taskVars
<1> QED
  BY <1>1, <1>2, <1>3, <1>4, <1>5, <1>6, <1>7 DEF TypeOK

LEMMA ErrorReportedStep ==
  ASSUME IndInv, ErrorReported PROVE IndInv'
<1> USE DEF IndInv, ErrorReported, Go, KeepsMain, maxVars, portVars, chipVars
<1>1. FlagTypes'
  BY Zenon DEF TypeOK, FlagTypes, taskVars
<1>2. ValueTypes'
  BY DEF TypeOK, ValueTypes, taskVars, TaskStates, Labels, CallInv
<1>3. UsedIsPrefix'
  BY SameTable DEF taskVars
<1>4. CallInv'
  BY DEF CallInv, FlagInv, TypeOK, ValueTypes, taskVars
<1>5. FlagInv'
  BY DEF CallInv, FlagInv, TypeOK, FlagTypes, taskVars
<1>6. ConfiguringInv'
  BY SameTable DEF ConfiguringInv, CallInv, taskVars
<1>7. ServingInv'
  BY SameTable DEF ServingInv, CallInv, taskVars
<1> QED
  BY <1>1, <1>2, <1>3, <1>4, <1>5, <1>6, <1>7 DEF TypeOK

LEMMA NotRunningStep ==
  ASSUME IndInv, NotRunning PROVE IndInv'
<1> USE DEF IndInv, NotRunning, Go, KeepsMain, maxVars, portVars, chipVars
<1>1. FlagTypes'
  BY Zenon DEF TypeOK, FlagTypes, taskVars
<1>2. ValueTypes'
  BY DEF TypeOK, ValueTypes, taskVars, TaskStates, Labels, CallInv
<1>3. UsedIsPrefix'
  BY SameTable DEF taskVars
<1>4. CallInv'
  BY DEF CallInv, FlagInv, TypeOK, ValueTypes, taskVars
<1>5. FlagInv'
  BY DEF CallInv, FlagInv, TypeOK, FlagTypes, taskVars
<1>6. ConfiguringInv'
  BY SameTable DEF ConfiguringInv, CallInv, taskVars
<1>7. ServingInv'
  BY SameTable DEF ServingInv, CallInv, taskVars
<1> QED
  BY <1>1, <1>2, <1>3, <1>4, <1>5, <1>6, <1>7 DEF TypeOK

LEMMA ReinitializeStep ==
  ASSUME IndInv, Reinitialize PROVE IndInv'
<1> USE DEF IndInv, Reinitialize, Go, KeepsMain, maxVars, portVars, chipVars
<1>1. FlagTypes'
  BY Zenon DEF TypeOK, FlagTypes, taskVars
<1>2. ValueTypes'
  BY DEF TypeOK, ValueTypes, taskVars, TaskStates, Labels, CallInv
<1>3. UsedIsPrefix'
  BY SameTable DEF taskVars
<1>4. CallInv'
  BY DEF CallInv, FlagInv, TypeOK, ValueTypes, taskVars
<1>5. FlagInv'
  BY DEF CallInv, FlagInv, TypeOK, FlagTypes, taskVars
<1>6. ConfiguringInv'
  BY SameTable DEF ConfiguringInv, CallInv, taskVars
<1>7. ServingInv'
  BY SameTable DEF ServingInv, CallInv, taskVars
<1> QED
  BY <1>1, <1>2, <1>3, <1>4, <1>5, <1>6, <1>7 DEF TypeOK

LEMMA PortStep ==
  ASSUME IndInv, Port PROVE IndInv'
<1> USE DEF IndInv, Port, Go, KeepsMain, LineChange, Plug, Unplug, LineFault, mainVars
<1>1. FlagTypes'
  BY Zenon DEF TypeOK, FlagTypes, taskVars
<1>2. ValueTypes'
  <2>1. CASE \E d \in Devices : Plug(d)
    BY <2>1 DEF TypeOK, ValueTypes, taskVars
  <2>2. CASE Unplug
    BY <2>2 DEF TypeOK, ValueTypes, taskVars
  <2>3. CASE LineFault
    BY <2>3 DEF TypeOK, ValueTypes, taskVars
  <2> QED
    BY <2>1, <2>2, <2>3
<1>3. UsedIsPrefix'
  BY SameTable DEF taskVars
<1>4. CallInv'
  BY DEF CallInv, FlagInv, TypeOK, ValueTypes, taskVars
<1>5. FlagInv'
  BY DEF CallInv, FlagInv, TypeOK, FlagTypes, taskVars
<1>6. ConfiguringInv'
  BY SameTable DEF ConfiguringInv, CallInv, taskVars
<1>7. ServingInv'
  BY SameTable DEF ServingInv, taskVars, TypeOK, ValueTypes, Addr
<1> QED
  BY <1>1, <1>2, <1>3, <1>4, <1>5, <1>6, <1>7 DEF TypeOK

LEMMA ChipStep ==
  ASSUME IndInv, Chip PROVE IndInv'
<1> USE DEF IndInv, Chip, Go, KeepsMain, BusResetDone, mainVars
<1>1. FlagTypes'
  BY Zenon DEF TypeOK, FlagTypes, taskVars
<1>2. ValueTypes'
  BY DEF TypeOK, ValueTypes, taskVars, TaskStates, Labels, CallInv
<1>3. UsedIsPrefix'
  BY SameTable DEF taskVars
<1>4. CallInv'
  BY DEF CallInv, FlagInv, TypeOK, ValueTypes, taskVars
<1>5. FlagInv'
  BY DEF CallInv, FlagInv, TypeOK, FlagTypes, taskVars
<1>6. ConfiguringInv'
  BY SameTable DEF ConfiguringInv, CallInv, taskVars
<1>7. ServingInv'
  BY SameTable DEF ServingInv, taskVars, TypeOK, ValueTypes, Addr
<1> QED
  BY <1>1, <1>2, <1>3, <1>4, <1>5, <1>6, <1>7 DEF TypeOK

LEMMA ClockStep ==
  ASSUME IndInv, Clock PROVE IndInv'
<1> USE DEF IndInv, Clock, Go, KeepsMain, DelayElapses, maxVars, portVars, chipVars, mainVars
<1>1. FlagTypes'
  BY Zenon DEF TypeOK, FlagTypes, taskVars
<1>2. ValueTypes'
  BY DEF TypeOK, ValueTypes, taskVars, TaskStates, Labels, CallInv
<1>3. UsedIsPrefix'
  BY SameTable DEF taskVars
<1>4. CallInv'
  BY DEF CallInv, FlagInv, TypeOK, ValueTypes, taskVars
<1>5. FlagInv'
  BY DEF CallInv, FlagInv, TypeOK, FlagTypes, taskVars
<1>6. ConfiguringInv'
  BY SameTable DEF ConfiguringInv, CallInv, taskVars
<1>7. ServingInv'
  BY SameTable DEF ServingInv, CallInv, taskVars
<1> QED
  BY <1>1, <1>2, <1>3, <1>4, <1>5, <1>6, <1>7 DEF TypeOK

LEMMA DetachedInitializeKeeps ==
  ASSUME IndInv, pc = "usb_task", pc' = "main", DetachedInitialize, KeepsMain PROVE IndInv'
<1> USE DEF IndInv, KeepsMain, KeepsPort, KeepsTable, GoTo, portVars, chipVars, DetachedInitialize
<1>1. FlagTypes'
  BY Zenon DEF TypeOK, FlagTypes
<1>2. ValueTypes'
  BY ClearTableFacts DEF TableType, TypeOK, ValueTypes, TaskStates, Labels
<1>3. UsedIsPrefix'
  BY ClearTableFacts DEF UsedIsPrefix
<1>4. CallInv'
  BY DEF CallInv
<1>5. FlagInv'
  BY DEF FlagInv
<1>6. ConfiguringInv'
  BY DEF ConfiguringInv
<1>7. ServingInv'
  BY DEF ServingInv
<1> QED
  BY <1>1, <1>2, <1>3, <1>4, <1>5, <1>6, <1>7 DEF TypeOK

LEMMA TaskIdleKeeps ==
  ASSUME IndInv, pc = "usb_task", pc' = "main", TaskIdle, KeepsMain PROVE IndInv'
<1> USE DEF IndInv, KeepsMain, KeepsPort, KeepsTable, GoTo, portVars, chipVars, TaskIdle, maxVars, taskVars
<1>1. FlagTypes'
  BY Zenon DEF TypeOK, FlagTypes
<1>2. ValueTypes'
  BY DEF TypeOK, ValueTypes, TaskStates, Labels
<1>3. UsedIsPrefix'
  BY SameTable
<1>4. CallInv'
  BY DEF CallInv
<1>5. FlagInv'
  BY DEF FlagInv, TypeOK, ValueTypes, TaskStates
<1>6. ConfiguringInv'
  BY SameTable DEF ConfiguringInv
<1>7. ServingInv'
  BY SameTable DEF ServingInv
<1> QED
  BY <1>1, <1>2, <1>3, <1>4, <1>5, <1>6, <1>7 DEF TypeOK

LEMMA AttachedStartSettleKeeps ==
  ASSUME IndInv, pc = "usb_task", pc' = "main", AttachedStartSettle, KeepsMain PROVE IndInv'
<1> USE DEF IndInv, KeepsMain, KeepsPort, KeepsTable, GoTo, portVars, chipVars, AttachedStartSettle
<1>1. FlagTypes'
  BY Zenon DEF TypeOK, FlagTypes
<1>2. ValueTypes'
  BY DEF TypeOK, ValueTypes, TaskStates, Labels
<1>3. UsedIsPrefix'
  BY SameTable
<1>4. CallInv'
  BY DEF CallInv
<1>5. FlagInv'
  BY DEF FlagInv
<1>6. ConfiguringInv'
  BY SameTable DEF ConfiguringInv
<1>7. ServingInv'
  BY SameTable DEF ServingInv
<1> QED
  BY <1>1, <1>2, <1>3, <1>4, <1>5, <1>6, <1>7 DEF TypeOK

LEMMA SettleWaitKeeps ==
  ASSUME IndInv, pc = "usb_task", pc' = "main", SettleWait, KeepsMain PROVE IndInv'
<1> USE DEF IndInv, KeepsMain, KeepsPort, KeepsTable, GoTo, portVars, chipVars, SettleWait
<1>1. FlagTypes'
  BY Zenon DEF TypeOK, FlagTypes
<1>2. ValueTypes'
  BY DEF TypeOK, ValueTypes, TaskStates, Labels
<1>3. UsedIsPrefix'
  BY SameTable
<1>4. CallInv'
  BY DEF CallInv
<1>5. FlagInv'
  BY DEF FlagInv
<1>6. ConfiguringInv'
  BY SameTable DEF ConfiguringInv
<1>7. ServingInv'
  BY SameTable DEF ServingInv
<1> QED
  BY <1>1, <1>2, <1>3, <1>4, <1>5, <1>6, <1>7 DEF TypeOK

LEMMA ResetDeviceKeeps ==
  ASSUME IndInv, pc = "usb_task", pc' = "main", ResetDevice, KeepsMain PROVE IndInv'
<1> USE DEF IndInv, KeepsMain, KeepsPort, KeepsTable, GoTo, portVars, chipVars, ResetDevice
<1>1. FlagTypes'
  BY Zenon DEF TypeOK, FlagTypes
<1>2. ValueTypes'
  BY DEF TypeOK, ValueTypes, TaskStates, Labels
<1>3. UsedIsPrefix'
  BY SameTable
<1>4. CallInv'
  BY DEF CallInv
<1>5. FlagInv'
  BY DEF FlagInv
<1>6. ConfiguringInv'
  BY SameTable DEF ConfiguringInv
<1>7. ServingInv'
  BY SameTable DEF ServingInv
<1> QED
  BY <1>1, <1>2, <1>3, <1>4, <1>5, <1>6, <1>7 DEF TypeOK

LEMMA WaitResetCompleteKeeps ==
  ASSUME IndInv, pc = "usb_task", pc' = "main", WaitResetComplete, KeepsMain PROVE IndInv'
<1> USE DEF IndInv, KeepsMain, KeepsPort, KeepsTable, GoTo, portVars, chipVars, WaitResetComplete
<1>1. FlagTypes'
  BY Zenon DEF TypeOK, FlagTypes
<1>2. ValueTypes'
  BY DEF TypeOK, ValueTypes, TaskStates, Labels
<1>3. UsedIsPrefix'
  BY SameTable
<1>4. CallInv'
  BY DEF CallInv
<1>5. FlagInv'
  BY DEF FlagInv
<1>6. ConfiguringInv'
  BY SameTable DEF ConfiguringInv
<1>7. ServingInv'
  BY SameTable DEF ServingInv
<1> QED
  BY <1>1, <1>2, <1>3, <1>4, <1>5, <1>6, <1>7 DEF TypeOK

LEMMA WaitSofKeeps ==
  ASSUME IndInv, pc = "usb_task", pc' = "main", WaitSof, KeepsMain PROVE IndInv'
<1> USE DEF IndInv, KeepsMain, KeepsPort, KeepsTable, GoTo, portVars, chipVars, WaitSof
<1>1. FlagTypes'
  BY Zenon DEF TypeOK, FlagTypes
<1>2. ValueTypes'
  BY DEF TypeOK, ValueTypes, TaskStates, Labels
<1>3. UsedIsPrefix'
  BY SameTable
<1>4. CallInv'
  BY DEF CallInv
<1>5. FlagInv'
  BY DEF FlagInv
<1>6. ConfiguringInv'
  BY SameTable DEF ConfiguringInv
<1>7. ServingInv'
  BY SameTable DEF ServingInv
<1> QED
  BY <1>1, <1>2, <1>3, <1>4, <1>5, <1>6, <1>7 DEF TypeOK

LEMMA GetDeviceDescriptorKeeps ==
  ASSUME IndInv, pc = "usb_task", pc' = "main", GetDeviceDescriptor, KeepsMain PROVE IndInv'
<1> USE DEF IndInv, KeepsMain, KeepsPort, KeepsTable, GoTo, portVars, chipVars, GetDeviceDescriptor, Fail
<1>1. FlagTypes'
  BY DEF TypeOK, FlagTypes
<1>2. ValueTypes'
  BY DEF TypeOK, ValueTypes, TaskStates, Labels
<1>3. UsedIsPrefix'
  BY SameTable
<1>4. CallInv'
  BY DEF CallInv
<1>5. FlagInv'
  BY DEF FlagInv
<1>6. ConfiguringInv'
  BY SameTable DEF ConfiguringInv
<1>7. ServingInv'
  BY SameTable DEF ServingInv
<1> QED
  BY <1>1, <1>2, <1>3, <1>4, <1>5, <1>6, <1>7 DEF TypeOK

LEMMA AddressingKeeps ==
  ASSUME IndInv, pc = "usb_task", pc' = "main", Addressing, KeepsMain PROVE IndInv'
<1> USE DEF IndInv, KeepsMain, GoTo, Fail, portVars, chipVars
<1>0. UNCHANGED <<plug, configured, chipVars, hirq, settled, hidaddr>>
  BY DEF Addressing
<1>1. FlagTypes'
  BY <1>0 DEF TypeOK, FlagTypes
<1>2. CASE /\ \A i \in Addr : Used(i)
           /\ Fail(NoAddress)
           /\ UNCHANGED <<devtable, devAddr, tmp_addr>>
  <2> USE <1>2 DEF Addressing
  <2>1. ValueTypes'
    BY DEF TypeOK, ValueTypes, TaskStates, Labels
  <2>2. UsedIsPrefix'
    BY SameTable
  <2>3. CallInv' /\ FlagInv'
    BY DEF CallInv, FlagInv
  <2>4. ConfiguringInv' /\ ServingInv'
    BY DEF ConfiguringInv, ServingInv
  <2> QED
    BY <1>1, <2>1, <2>2, <2>3, <2>4 DEF TypeOK
<1>3. ASSUME NEW i \in Addr, FirstFree(i),
             devtable' = [devtable EXCEPT ![i].epinfo = "dev0ep"],
             \/ devAddr' = i /\ tmp_addr' = i /\ GoTo(CONFIGURING)
             \/ devAddr' \in {devAddr, i} /\ Fail(XferError) /\ UNCHANGED tmp_addr
      PROVE  IndInv'
  <2> USE <1>3 DEF Addressing
  <2>1. ValueTypes'
    BY DEF TypeOK, ValueTypes, TaskStates, Labels
  <2>2. \A a \in Addr : Used(a)' <=> Used(a) \/ a = i
    BY DEF TypeOK, ValueTypes, Used
  <2>3. UsedIsPrefix' /\ LastUsed(i)'
    BY <2>2 DEF FirstFree, UsedIsPrefix, LastUsed, Addr
  <2>4. CallInv' /\ FlagInv'
    BY DEF CallInv, FlagInv
  <2>5. ConfiguringInv' /\ ServingInv'
    BY <2>3 DEF ConfiguringInv, ServingInv
  <2> QED
    BY <1>1, <2>1, <2>3, <2>4, <2>5 DEF TypeOK
<1> QED
  BY <1>2, <1>3 DEF Addressing

\* A probe that recognised its interface, and whether it returned TRUE.
LEMMA ProbeClaimsKeeps ==
  ASSUME NEW kind, NEW class \in {HID_K, HID_M}, IndInv, usb_task_state = CONFIGURING,
         ProbeClaims(kind, class), class = ClassOf(kind)
  PROVE  /\ devtable' \in TableType
         /\ hidaddr' \in Addr /\ tmp_addr' = tmp_addr
         /\ \A a \in Addr : Used(a)' <=> Used(a)
         /\ UsedIsPrefix'
         /\ LastUsed(hidaddr)'
         /\ devtable'[hidaddr'].epinfo = "hid_ep"
         /\ devtable'[hidaddr'].devclass = class
         /\ plug' \in Devices => devtable'[hidaddr'].devclass = ClassOf(Kind[plug'])
<1> USE DEF IndInv, ProbeClaims
<1>1. tmp_addr \in Addr /\ LastUsed(tmp_addr) /\ hidaddr' = tmp_addr /\ tmp_addr' = tmp_addr
  BY DEF ConfiguringInv
<1>2. devtable' \in TableType
  BY <1>1 DEF TableType, TypeOK, ValueTypes
<1>3. \A a \in Addr : Used(a)' <=> Used(a)
  BY <1>1 DEF TypeOK, ValueTypes, Used, LastUsed
<1>4. UsedIsPrefix' /\ LastUsed(hidaddr)'
  BY <1>1, <1>3 DEF UsedIsPrefix, LastUsed
<1>5. devtable'[tmp_addr] = [epinfo |-> "hid_ep", devclass |-> class]
  BY <1>1 DEF TypeOK, ValueTypes
<1> QED
  BY <1>1, <1>2, <1>3, <1>4, <1>5

LEMMA ProbeTrueKeeps ==
  ASSUME NEW kind, NEW class \in {HID_K, HID_M}, IndInv, usb_task_state = CONFIGURING,
         ProbeReturnsTrue(kind, class), class = ClassOf(kind),
         pc' = "main", KeepsMain
  PROVE  IndInv'
<1> USE DEF IndInv, ProbeReturnsTrue, GoTo, KeepsMain
<1>0. UNCHANGED <<plug, devAddr, chipVars, hirq, tmp_addr, settled>>
  BY DEF ProbeClaims
<1>1. FlagTypes'
  BY <1>0, Zenon DEF TypeOK, FlagTypes, chipVars
<1>a. devtable' \in TableType /\ hidaddr' \in Addr
  BY ProbeClaimsKeeps
<1>2. ValueTypes'
  BY <1>0, <1>a DEF TypeOK, ValueTypes, TaskStates, Labels, TableType, chipVars
<1>3. UsedIsPrefix' /\ ServingInv'
  BY <1>0, ProbeClaimsKeeps DEF ServingInv, FlagInv
<1>4. CallInv' /\ FlagInv' /\ ConfiguringInv'
  BY DEF CallInv, FlagInv, ConfiguringInv
<1> QED
  BY <1>1, <1>2, <1>3, <1>4 DEF TypeOK

LEMMA ProbeFalseKeeps ==
  ASSUME NEW kind, NEW class \in {HID_K, HID_M}, IndInv, usb_task_state = CONFIGURING,
         ProbeReturnsFalse(kind, class), class = ClassOf(kind), KeepsMain,
         \/ pc' = "hidk_probe" /\ usb_task_state' = CONFIGURING /\ UNCHANGED usb_error
         \/ pc' = "main" /\ Fail(NoClientDriver)
  PROVE  IndInv'
<1> USE DEF IndInv, ProbeReturnsFalse, Fail, KeepsMain
<1>0. UNCHANGED <<plug, devAddr, chipVars, hirq, tmp_addr, settled>>
  BY DEF ProbeClaims, ProbeDeclines, portVars
<1>a. configured' \in {configured, TRUE}
  BY DEF ProbeDeclines, portVars
<1>1. FlagTypes'
  <2>1. configured' \in BOOLEAN
    BY <1>a, Zenon DEF TypeOK, FlagTypes
  <2> QED
    BY <1>0, <2>1 DEF TypeOK, FlagTypes, chipVars
<1>b. ASSUME ProbeDeclines
      PROVE  /\ devtable' \in TableType /\ hidaddr' \in Addr \cup {0}
             /\ UsedIsPrefix' /\ (\A a \in Addr : Used(a)' <=> Used(a))
  <2>1. devtable' \in TableType /\ hidaddr' \in Addr \cup {0}
    BY <1>b DEF ProbeDeclines, TypeOK, ValueTypes, TableType
  <2>2. UsedIsPrefix' /\ (\A a \in Addr : Used(a)' <=> Used(a))
    BY <1>b, SameTable DEF ProbeDeclines
  <2> QED
    BY <2>1, <2>2
<1>c. ASSUME ProbeClaims(kind, class)
      PROVE  /\ devtable' \in TableType /\ hidaddr' \in Addr \cup {0}
             /\ UsedIsPrefix' /\ (\A a \in Addr : Used(a)' <=> Used(a))
  <2>1. /\ devtable' \in TableType /\ hidaddr' \in Addr
        /\ UsedIsPrefix' /\ (\A a \in Addr : Used(a)' <=> Used(a))
    BY <1>c, ProbeClaimsKeeps
  <2> QED
    BY <2>1
<1>2. /\ devtable' \in TableType /\ hidaddr' \in Addr \cup {0}
      /\ UsedIsPrefix' /\ (\A a \in Addr : Used(a)' <=> Used(a))
  BY <1>b, <1>c
<1>3. ValueTypes'
  BY <1>0, <1>2 DEF TypeOK, ValueTypes, TaskStates, Labels, TableType, chipVars
<1>5. ConfiguringInv'
  BY <1>0, <1>2 DEF ConfiguringInv, LastUsed
<1>6. CallInv' /\ FlagInv' /\ ServingInv'
  BY DEF CallInv, FlagInv, ServingInv
<1> QED
  BY <1>1, <1>2, <1>3, <1>5, <1>6 DEF TypeOK

LEMMA TaskStepKeeps ==
  ASSUME IndInv, TaskStep PROVE IndInv'
<1>1. ASSUME HIDMProbeTrue PROVE IndInv'
  BY <1>1, ProbeTrueKeeps DEF TaskStep, Go, HIDMProbeTrue, ClassOf
<1> QED
  BY <1>1, DetachedInitializeKeeps, TaskIdleKeeps, AttachedStartSettleKeeps, SettleWaitKeeps,
     ResetDeviceKeeps, WaitResetCompleteKeeps, WaitSofKeeps, GetDeviceDescriptorKeeps,
     AddressingKeeps
     DEF TaskStep, Go

LEMMA TryKeyboardDriverStep ==
  ASSUME IndInv, TryKeyboardDriver PROVE IndInv'
BY ProbeFalseKeeps DEF TryKeyboardDriver, HIDMProbeFalse, Go, GoTo, ClassOf

LEMMA KeyboardDriverStep ==
  ASSUME IndInv, KeyboardDriver PROVE IndInv'
<1>1. CASE HIDKProbeTrue
  BY <1>1, ProbeTrueKeeps DEF KeyboardDriver, HIDKProbeTrue, Go, ClassOf
<1>2. CASE HIDKProbeFalse
  BY <1>2, ProbeFalseKeeps DEF KeyboardDriver, HIDKProbeFalse, Go, ClassOf
<1> QED
  BY <1>1, <1>2 DEF KeyboardDriver

(***************************************************************************)
(* The invariant, and what follows from it.                                *)
(***************************************************************************)
\* IndInv holds in every state of every behaviour.
THEOREM IndInvHolds == Spec => []IndInv
<1>1. IndInv /\ [Next]_vars => IndInv'
  <2> SUFFICES ASSUME IndInv, [Next]_vars PROVE IndInv'
    OBVIOUS
  <2>1. CASE MainLoop
    BY <2>1, MainInitResetStep, MainInitProbeStep, MainInitAckStep, NoInterruptStep, InterruptStep,
       InterruptProbeStep, InterruptAckStep, TaskStepKeeps, TryKeyboardDriverStep,
       KeyboardDriverStep, ReportDriverStep, PollKeyboardStep, PollOtherStep,
       ErrorReportedStep, NotRunningStep, ReinitializeStep
       DEF MainLoop
  <2>2. CASE Port \/ Chip \/ Clock
    BY <2>2, PortStep, ChipStep, ClockStep
  <2>3. CASE UNCHANGED vars
    BY <2>3 DEF vars, maxVars, portVars, chipVars, taskVars, mainVars, IndInv, TypeOK, FlagTypes,
       ValueTypes, UsedIsPrefix, CallInv, FlagInv, ConfiguringInv, ServingInv, Used, LastUsed
  <2> QED
    BY <2>1, <2>2, <2>3 DEF Next
<1> QED
  BY InitIndInv, <1>1, PTL DEF Spec

\* usb_task_state takes no value outside TaskStates, addresses stay in range.
THEOREM TypeCorrect == Spec => []TypeOK
<1>1. IndInv => TypeOK
  BY DEF IndInv
<1> QED
  BY <1>1, IndInvHolds, PTL

\* A poll or a request to address 1 never follows a NULL epinfo, for any
\* number of addresses.
THEOREM ServedEntry == Spec => []ServedEntryIsLast
<1>1. IndInv => ServedEntryIsLast
  <2> SUFFICES ASSUME IndInv, usb_task_state = RUNNING
               PROVE  hidaddr \in Addr /\ devtable[hidaddr].epinfo = "hid_ep" /\ LastUsed(hidaddr) /\ Used(1)
    BY DEF ServedEntryIsLast
  <2>1. hidaddr \in Addr /\ devtable[hidaddr].epinfo = "hid_ep" /\ LastUsed(hidaddr)
    BY DEF IndInv, ServingInv
  <2>2. Used(1)
    BY <2>1 DEF IndInv, UsedIsPrefix, LastUsed, Addr
  <2> QED
    BY <2>1, <2>2
<1> QED
  BY <1>1, IndInvHolds, PTL

\* The remembered class is the class of the device being served.
THEOREM PolledClass == Spec => []PolledClassIsServed
<1>1. IndInv => PolledClassIsServed
  BY DEF IndInv, ServingInv, PolledClassIsServed
<1> QED
  BY <1>1, IndInvHolds, PTL

\* Only a keyboard that is plugged in changes the key code.
THEOREM KeycodeSource == Spec => KeycodeComesFromKeyboard
<1>1. IndInv /\ [Next]_vars => [keycode' # keycode => plug \in Devices /\ Kind[plug] = "kbd"]_vars
  <2> SUFFICES ASSUME IndInv, Next, keycode' # keycode
               PROVE  plug \in Devices /\ Kind[plug] = "kbd"
    OBVIOUS
  <2>1. PollKeyboard
    BY DEF Next, MainLoop, MainInitReset, MainInitProbe, MainInitAck, NoInterrupt, Interrupt,
       InterruptProbe, InterruptAck, TaskStep, TryKeyboardDriver, KeyboardDriver, ReportDriver,
       PollOther, ErrorReported, NotRunning, Reinitialize, Port, Chip, Clock, KeepsMain, mainVars
  <2>2. plug \in Devices /\ devAddr = hidaddr /\ device = HID_K /\ runningdebugflag /\ usb_task_state = RUNNING
    BY <2>1 DEF PollKeyboard, Answers
  <2>3. ClassOf(Kind[plug]) = HID_K
    BY <2>2 DEF IndInv, ServingInv
  <2> QED
    BY <2>2, <2>3 DEF ClassOf
<1> QED
  BY <1>1, IndInvHolds, PTL DEF Spec, KeycodeComesFromKeyboard

(***************************************************************************)
(* Refinement: UsbHost implements HidService under Phase and Class.        *)
(***************************************************************************)
\* The phase of each state, and the class outside RUNNING.
LEMMA PhaseOf ==
  ASSUME TypeOK
  PROVE  /\ usb_task_state \in 1..5 => Phase = "down"
         /\ usb_task_state \in {ATTACHED, SETTLE, RESET_DEVICE, WAIT_RESET_COMPLETE, WAIT_SOF,
              GET_DESCRIPTOR, ADDRESSING, CONFIGURING} => Phase = "enumerating"
         /\ usb_task_state = RUNNING => Phase = "up" /\ Class = devtable[hidaddr].devclass
         /\ usb_task_state = ERROR => Phase = "failed"
         /\ usb_task_state # RUNNING => Class = UNINIT
BY DEF TypeOK, ValueTypes, TaskStates, Phase, Class, Detached, Enumerating

LEMMA PhaseOfNext ==
  ASSUME TypeOK'
  PROVE  /\ usb_task_state' \in 1..5 => Phase' = "down"
         /\ usb_task_state' \in {ATTACHED, SETTLE, RESET_DEVICE, WAIT_RESET_COMPLETE, WAIT_SOF,
              GET_DESCRIPTOR, ADDRESSING, CONFIGURING} => Phase' = "enumerating"
         /\ usb_task_state' = RUNNING => Phase' = "up" /\ Class' = devtable'[hidaddr'].devclass
         /\ usb_task_state' = ERROR => Phase' = "failed"
         /\ usb_task_state' # RUNNING => Class' = UNINIT
BY DEF TypeOK, ValueTypes, TaskStates, Phase, Class, Detached, Enumerating

\* A step that keeps the state and what RUNNING serves is a stuttering step.
LEMMA SameService ==
  ASSUME UNCHANGED <<usb_task_state, devtable, hidaddr, keycode>>
  PROVE  UNCHANGED <<Phase, Class, keycode>>
BY DEF Phase, Class, Detached, Enumerating

\* USB_Task and the probes.
LEMMA TaskRefines ==
  ASSUME IndInv, IndInv', TaskStep \/ TryKeyboardDriver \/ KeyboardDriver
  PROVE  Service!Next \/ UNCHANGED <<Phase, Class, keycode>>
<1>0. TypeOK /\ TypeOK' /\ keycode' = keycode
  BY DEF IndInv, TaskStep, TryKeyboardDriver, KeyboardDriver, KeepsMain
<1>1. ASSUME \/ DetachedInitialize \/ AttachedStartSettle \/ SettleWait \/ ResetDevice
             \/ WaitResetComplete \/ WaitSof \/ HIDMProbeFalse
      PROVE  UNCHANGED <<Phase, Class, keycode>>
  BY <1>0, <1>1, PhaseOf, PhaseOfNext
     DEF DetachedInitialize, AttachedStartSettle, SettleWait, ResetDevice, WaitResetComplete,
         WaitSof, HIDMProbeFalse, GoTo
<1>2. ASSUME TaskIdle PROVE UNCHANGED <<Phase, Class, keycode>>
  BY <1>0, <1>2, SameService DEF TaskIdle, maxVars, taskVars
<1>3. ASSUME GetDeviceDescriptor \/ Addressing
      PROVE  Service!GiveUp \/ UNCHANGED <<Phase, Class, keycode>>
  <2>1. /\ usb_task_state \in {GET_DESCRIPTOR, ADDRESSING}
        /\ usb_task_state' \in {ADDRESSING, CONFIGURING, ERROR}
    BY <1>3 DEF GetDeviceDescriptor, Addressing, GoTo, Fail
  <2> QED
    BY <1>0, <2>1, PhaseOf, PhaseOfNext DEF Service!GiveUp
<1>4. ASSUME HIDMProbeTrue \/ HIDKProbeTrue
      PROVE  \E c \in {HID_K, HID_M} : Service!Serve(c)
  <2>1. usb_task_state = CONFIGURING /\ usb_task_state' = RUNNING
    BY <1>4 DEF HIDMProbeTrue, HIDKProbeTrue, ProbeReturnsTrue, GoTo
  <2>2. Phase = "enumerating" /\ Phase' = "up" /\ Class' \in {HID_K, HID_M}
    BY <1>0, <2>1, PhaseOf, PhaseOfNext DEF IndInv, ServingInv
  <2> QED
    BY <1>0, <2>2 DEF Service!Serve
<1>5. ASSUME HIDKProbeFalse PROVE Service!GiveUp
  <2>1. usb_task_state = CONFIGURING /\ usb_task_state' = ERROR
    BY <1>5 DEF HIDKProbeFalse, Fail
  <2> QED
    BY <1>0, <2>1, PhaseOf, PhaseOfNext DEF Service!GiveUp
<1> QED
  BY <1>1, <1>2, <1>3, <1>4, <1>5 DEF TaskStep, TryKeyboardDriver, KeyboardDriver, Service!Next

\* The interrupt handler and MAX3421E_init.
LEMMA DriverRefines ==
  ASSUME IndInv, IndInv', \/ MainInitReset \/ MainInitProbe \/ MainInitAck
                          \/ Interrupt \/ InterruptProbe \/ InterruptAck
  PROVE  Service!Next \/ UNCHANGED <<Phase, Class, keycode>>
<1>0. TypeOK /\ TypeOK' /\ keycode' = keycode
  BY DEF IndInv, MainInitReset, MainInitProbe, MainInitAck, Interrupt, InterruptProbe,
     InterruptAck, KeepsMain
<1>1. ASSUME MainInitProbe \/ InterruptProbe
      PROVE  Service!Attach \/ Service!Detach \/ UNCHANGED <<Phase, Class, keycode>>
  <2>1. MAX_busprobe
    BY <1>1 DEF MainInitProbe, InterruptProbe, InitProbe, IntProbe
  <2> QED
    BY <1>0, <2>1, ProbeResult, PhaseOf, PhaseOfNext DEF Service!Attach, Service!Detach
<1>2. ASSUME InterruptAck PROVE UNCHANGED <<Phase, Class, keycode>>
  BY <1>0, <1>2, PhaseOf, PhaseOfNext DEF InterruptAck, IntAck, Go, IndInv, CallInv
<1>3. ASSUME MainInitAck PROVE UNCHANGED <<Phase, Class, keycode>>
  BY <1>0, <1>3, PhaseOf, PhaseOfNext DEF MainInitAck, InitClearCondet, Go, IndInv, CallInv
<1>4. ASSUME MainInitReset \/ Interrupt PROVE UNCHANGED <<Phase, Class, keycode>>
  BY <1>0, <1>4, SameService DEF MainInitReset, Interrupt, InitChipReset, IntReadHirq, taskVars
<1> QED
  BY <1>1, <1>2, <1>3, <1>4 DEF Service!Next

\* Whatever the interrupts do, what is served and when follows HidService.
THEOREM HostImplementsService == Spec => ServiceSpec
<1>1. Init => Service!Init
  BY PhaseOf, InitIndInv DEF Init, Service!Init, IndInv
<1>2. IndInv /\ IndInv' /\ [Next]_vars => [Service!Next]_<<Phase, Class, keycode>>
  <2> SUFFICES ASSUME IndInv, IndInv', [Next]_vars
               PROVE  Service!Next \/ UNCHANGED <<Phase, Class, keycode>>
    OBVIOUS
  <2>1. ASSUME PollKeyboard PROVE Service!Report \/ UNCHANGED <<Phase, Class, keycode>>
    <3>1. UNCHANGED <<Phase, Class>>
      BY <2>1 DEF PollKeyboard, maxVars, taskVars, Phase, Class, Detached, Enumerating
    <3>2. Phase = "up" /\ Class = HID_K
      BY <2>1, PhaseOf DEF PollKeyboard, IndInv, ServingInv
    <3> QED
      BY <2>1, <3>1, <3>2 DEF PollKeyboard, Service!Report
  <2>2. ASSUME \/ NoInterrupt \/ ReportDriver \/ PollOther \/ ErrorReported \/ NotRunning
               \/ Reinitialize \/ Port \/ Chip \/ Clock \/ UNCHANGED vars
        PROVE  UNCHANGED <<usb_task_state, devtable, hidaddr, keycode>>
    BY <2>2 DEF NoInterrupt, ReportDriver, PollOther, ErrorReported, NotRunning, Reinitialize,
       Port, Chip, Clock, vars, maxVars, taskVars, mainVars, KeepsMain, LineChange, Plug, Unplug,
       LineFault, BusResetDone, DelayElapses
  <2> QED
    BY <2>1, <2>2, SameService, TaskRefines, DriverRefines DEF Next, MainLoop, Service!Next
<1> QED
  BY <1>1, <1>2, IndInvHolds, PTL DEF Spec, ServiceSpec, Service!Spec, Service!serviceVars

=============================================================================
