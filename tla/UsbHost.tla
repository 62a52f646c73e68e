------------------------------- MODULE UsbHost -------------------------------
(***************************************************************************)
(* The NIOS II program: main.c's loop runs MAX3421E_Task, USB_Task and the *)
(* report polling one after the other, while the port, the chip and the    *)
(* clock move at any time.  pc says which call of the loop comes next.     *)
(***************************************************************************)
EXTENDS UsbTask

CONSTANT Keys       \* key codes a keyboard report may carry first; 0 is "no key"

ASSUME KeyAssumption == 0 \in Keys

VARIABLES
  pc,
  runningdebugflag,   \* RUNNING has been reported and device is set
  device,             \* the class main polls
  keycode             \* KEYCODE_BASE, the PIO the game reads

mainVars == <<pc, runningdebugflag, device, keycode>>
vars == <<maxVars, taskVars, mainVars>>

Labels == {"init_reset", "init_probe", "init_ack",       \* MAX3421E_init, USB_init
           "max_task", "int_probe", "int_ack",           \* MAX3421E_Task
           "usb_task", "hidk_probe",                     \* USB_Task
           "main"}                                       \* the rest of the loop body

Init ==
  /\ plug \in Devices \cup {NoDevice}
  /\ devAddr = 0 /\ configured = FALSE
  /\ condet = {} /\ busevent = FALSE /\ busrst = FALSE /\ lowspeed = FALSE
  /\ hirq = FALSE
  /\ usb_task_state = INITIALIZE
  /\ usb_error = 0
  /\ settled = TRUE                             \* usb_delay = 0
  /\ devtable = ClearTable
  /\ hidaddr = 0 /\ tmp_addr = 0
  /\ pc = "init_reset"
  /\ runningdebugflag = FALSE
  /\ device = 255
  /\ keycode = 0

Go(from, to) == pc = from /\ pc' = to
KeepsMain == UNCHANGED <<runningdebugflag, device, keycode>>

(***************************************************************************)
(* MAX3421E_init(); USB_init(): before the loop and from its last branch.  *)
(***************************************************************************)
MainInitReset ==
  /\ Go("init_reset", "init_probe")
  /\ InitChipReset
  /\ UNCHANGED taskVars /\ KeepsMain

MainInitProbe ==
  /\ Go("init_probe", "init_ack")
  /\ InitProbe
  /\ UNCHANGED taskVars /\ KeepsMain

MainInitAck ==
  /\ Go("init_ack", "max_task")
  /\ InitClearCondet
  /\ USB_init
  /\ UNCHANGED <<usb_error, settled, hidaddr, tmp_addr>>
  /\ KeepsMain

(***************************************************************************)
(* MAX3421E_Task().                                                        *)
(***************************************************************************)
NoInterrupt ==
  /\ Go("max_task", "usb_task")
  /\ ~IntPending
  /\ UNCHANGED <<maxVars, taskVars>> /\ KeepsMain

Interrupt ==
  /\ Go("max_task", "int_probe")
  /\ IntReadHirq
  /\ UNCHANGED taskVars /\ KeepsMain

InterruptProbe ==
  /\ Go("int_probe", "int_ack")
  /\ IntProbe
  /\ UNCHANGED taskVars /\ KeepsMain

InterruptAck ==
  /\ Go("int_ack", "usb_task")
  /\ IntAck
  /\ UNCHANGED taskVars /\ KeepsMain

(***************************************************************************)
(* USB_Task().                                                             *)
(***************************************************************************)
TaskStep ==
  /\ Go("usb_task", "main")
  /\ \/ DetachedInitialize
     \/ TaskIdle
     \/ AttachedStartSettle
     \/ SettleWait
     \/ ResetDevice
     \/ WaitResetComplete
     \/ WaitSof
     \/ GetDeviceDescriptor
     \/ Addressing
     \/ HIDMProbeTrue
  /\ KeepsMain

TryKeyboardDriver ==
  /\ Go("usb_task", "hidk_probe")
  /\ HIDMProbeFalse
  /\ KeepsMain

KeyboardDriver ==
  /\ Go("hidk_probe", "main")
  /\ HIDKProbeTrue \/ HIDKProbeFalse
  /\ KeepsMain

(***************************************************************************)
(* The rest of the loop body.                                              *)
(***************************************************************************)
\* GetDriverandReport: the class of the last used entry; 0xFF without one.
LastUsed(a) == Used(a) /\ \A b \in Addr : b > a => ~Used(b)

\* Mutant: the first used entry wins.
FirstUsedClass ==
  IF \E a \in Addr : Used(a)
  THEN devtable[CHOOSE a \in Addr : Used(a) /\ \A b \in Addr : b < a => ~Used(b)].devclass
  ELSE 255

DriverClass ==
  IF \E a \in Addr : Used(a)
  THEN devtable[CHOOSE a \in Addr : LastUsed(a)].devclass
  ELSE 255

ReportDriver ==
  /\ Go("main", "max_task")
  /\ usb_task_state = RUNNING
  /\ ~runningdebugflag
  /\ runningdebugflag' = TRUE
  /\ device' = DriverClass
  /\ UNCHANGED <<maxVars, taskVars, keycode>>

\* Mutant: every class is polled as a keyboard.
PollAnyClass ==
  /\ Go("main", "max_task")
  /\ usb_task_state = RUNNING
  /\ runningdebugflag
  /\ \/ Answers(hidaddr) /\ configured /\ keycode' \in Keys
     \/ UNCHANGED keycode
  /\ UNCHANGED <<maxVars, taskVars, runningdebugflag, device>>

\* kbdPoll: a report arrives only from a configured device at hid_device.addr.
PollKeyboard ==
  /\ Go("main", "max_task")
  /\ usb_task_state = RUNNING
  /\ runningdebugflag
  /\ device = HID_K
  /\ \/ Answers(hidaddr) /\ configured /\ keycode' \in Keys
     \/ UNCHANGED keycode                       \* NAK or an error code
  /\ UNCHANGED <<maxVars, taskVars, runningdebugflag, device>>

\* mousePoll, which only drives LEDs, and classes main does not poll.
PollOther ==
  /\ Go("main", "max_task")
  /\ usb_task_state = RUNNING
  /\ runningdebugflag
  /\ device # HID_K
  /\ UNCHANGED <<maxVars, taskVars>> /\ KeepsMain

ErrorReported ==
  /\ Go("main", "max_task")
  /\ usb_task_state = ERROR
  /\ UNCHANGED <<maxVars, taskVars>> /\ KeepsMain

NotRunning ==
  /\ Go("main", "max_task")
  /\ usb_task_state \notin {RUNNING, ERROR}
  /\ ~runningdebugflag
  /\ UNCHANGED <<maxVars, taskVars>> /\ KeepsMain

\* "previously running, reset USB hardware"
Reinitialize ==
  /\ Go("main", "init_reset")
  /\ usb_task_state \notin {RUNNING, ERROR}
  /\ runningdebugflag
  /\ runningdebugflag' = FALSE
  /\ UNCHANGED <<maxVars, taskVars, device, keycode>>

MainLoop ==
  \/ MainInitReset \/ MainInitProbe \/ MainInitAck
  \/ NoInterrupt \/ Interrupt \/ InterruptProbe \/ InterruptAck
  \/ TaskStep \/ TryKeyboardDriver \/ KeyboardDriver
  \/ ReportDriver \/ PollKeyboard \/ PollOther
  \/ ErrorReported \/ NotRunning \/ Reinitialize

LineChange == (\E d \in Devices : Plug(d)) \/ Unplug \/ LineFault

Port == LineChange /\ UNCHANGED <<taskVars, mainVars>>
Chip == BusResetDone /\ UNCHANGED <<taskVars, mainVars>>
Clock == DelayElapses /\ UNCHANGED mainVars

Next == MainLoop \/ Port \/ Chip \/ Clock

Spec == Init /\ [][Next]_vars

\* The processor keeps executing, the chip ends every bus reset and the clock
\* advances; nobody is obliged to plug or unplug anything.
FairSpec == Spec /\ WF_vars(MainLoop) /\ WF_vars(Chip) /\ WF_vars(Clock)

(***************************************************************************)
(* Properties.                                                             *)
(***************************************************************************)
TaskStates == {INITIALIZE, INITIALIZE + 1, WAIT_FOR_DEVICE, ILLEGAL, ILLEGAL + 1,
  ATTACHED, SETTLE, RESET_DEVICE, WAIT_RESET_COMPLETE, WAIT_SOF, GET_DESCRIPTOR,
  ADDRESSING, CONFIGURING, RUNNING, ERROR}

Enumerating == usb_task_state \in ATTACHED .. CONFIGURING

FlagTypes ==
  /\ configured \in BOOLEAN /\ busevent \in BOOLEAN /\ busrst \in BOOLEAN
  /\ lowspeed \in BOOLEAN /\ hirq \in BOOLEAN
  /\ settled \in BOOLEAN /\ runningdebugflag \in BOOLEAN

ValueTypes ==
  /\ plug \in Devices \cup {NoDevice, BadLine}
  /\ devAddr \in Addr \cup {0}
  /\ condet \in SUBSET {"line", "reset"}
  /\ usb_task_state \in TaskStates
  /\ usb_error \in {0, XferError, NoAddress, NoClientDriver}
  /\ devtable \in [Addr -> [epinfo : {"NULL", "dev0ep", "hid_ep"}, devclass : {UNINIT, HID_K, HID_M}]]
  /\ hidaddr \in Addr \cup {0}
  /\ tmp_addr \in Addr \cup {0}
  /\ pc \in Labels
  /\ device \in {255, UNINIT, HID_K, HID_M}
  /\ keycode \in Keys

\* Types; usb_task_state may also hold the two values without a name that
\* MaxIntHandler's usb_task_state++ (MAX3421E.c:262) produces.
TypeOK == FlagTypes /\ ValueTypes

\* While a device is served, hid_device.addr is the last used entry of the
\* device table, the one whose class GetDriverandReport returns (main.c:33-40),
\* that entry owns hid_ep, so a poll never follows a NULL epinfo, and so does
\* not the request to the hard-wired address 1 (main.c:22, 42) either.
ServedEntryIsLast ==
  usb_task_state = RUNNING =>
    /\ hidaddr \in Addr
    /\ devtable[hidaddr].epinfo = "hid_ep"
    /\ LastUsed(hidaddr)
    /\ Used(1)

\* main polls with the class it remembered: across disconnections, swaps and
\* failed probes, that class is the one of the device being served (main.c:155).
PolledClassIsServed ==
  usb_task_state = RUNNING /\ runningdebugflag =>
    device = devtable[hidaddr].devclass /\ device \in {HID_K, HID_M}

\* A key code reaches the game only from a keyboard that is plugged in at that
\* moment, never from a mouse that took its place (main.c:170).
KeycodeComesFromKeyboard ==
  [][keycode' # keycode => plug \in Devices /\ Kind[plug] = "kbd"]_vars

(***************************************************************************)
(* The inductive invariant behind the three invariants above.              *)
(***************************************************************************)
\* Entries of the device table are taken in order and freed together.
UsedIsPrefix == \A a, b \in Addr : b < a /\ Used(a) => Used(b)

\* What the calls in progress know of the state.
CallInv ==
  /\ pc \in {"init_reset", "init_probe", "init_ack"} =>
       usb_task_state \in 1..5 \cup {ATTACHED, SETTLE, RESET_DEVICE} /\ ~runningdebugflag
  /\ pc = "int_ack" => usb_task_state \in {INITIALIZE, WAIT_FOR_DEVICE, ILLEGAL, ATTACHED, WAIT_RESET_COMPLETE}
  /\ pc = "hidk_probe" => usb_task_state = CONFIGURING

\* The flag outlives RUNNING only until the loop body sees another state.
FlagInv ==
  runningdebugflag =>
    \/ usb_task_state = RUNNING
    \/ pc \in {"int_ack", "usb_task"} /\ usb_task_state \in 1..5 \cup {ATTACHED, SETTLE}
    \/ pc = "main" /\ usb_task_state \in 1..5 \cup {ATTACHED, SETTLE, RESET_DEVICE}

\* The entry being configured is the last one.
ConfiguringInv == usb_task_state = CONFIGURING => tmp_addr \in Addr /\ LastUsed(tmp_addr)

ClassOf(kind) == CASE kind = "kbd" -> HID_K [] kind = "mouse" -> HID_M [] OTHER -> UNINIT

\* The entry being served is the last one and describes the device that
\* answers at its address, if one does.
ServingInv ==
  usb_task_state = RUNNING =>
    /\ hidaddr \in Addr
    /\ devtable[hidaddr].epinfo = "hid_ep"
    /\ devtable[hidaddr].devclass \in {HID_K, HID_M}
    /\ LastUsed(hidaddr)
    /\ runningdebugflag => device = devtable[hidaddr].devclass
    /\ plug \in Devices /\ devAddr = hidaddr => devtable[hidaddr].devclass = ClassOf(Kind[plug])

IndInv == TypeOK /\ UsedIsPrefix /\ CallInv /\ FlagInv /\ ConfiguringInv /\ ServingInv

\* Once the cable is left alone the host comes to rest, and no enumeration
\* step waits or is repeated for ever, unless the interrupts of its own resets
\* go on being handled late, after WAIT_RESET_COMPLETE: MAX_busprobe takes
\* them for connections then (MAX3421E.c:175).  Nothing in the code ends that,
\* and this says that nothing else repeats an enumeration for ever.
CableRests == <>[][plug' = plug]_vars
ResetHandledLate ==
  pc = "int_probe" /\ "reset" \in condet /\ usb_task_state # WAIT_RESET_COMPLETE
EnumerationEnds ==
  (CableRests /\ <>[](~ResetHandledLate)) => <>[](~Enumerating)

\* The service the game relies on (HidService).
Phase ==
  CASE Detached(usb_task_state)  -> "down"
    [] Enumerating               -> "enumerating"
    [] usb_task_state = RUNNING  -> "up"
    [] usb_task_state = ERROR    -> "failed"
Class == IF usb_task_state = RUNNING THEN devtable[hidaddr].devclass ELSE UNINIT
Service == INSTANCE HidService WITH phase <- Phase, class <- Class

\* The host implements HidService: what it serves, and when, follows from the
\* enumeration, whatever the interrupts do in between.
ServiceSpec == Service!Spec

(***************************************************************************)
(* Statements of the sources that the code does not live up to.            *)
(***************************************************************************)
\* MAX3421E.c:203 "clear device data structures": a connection found after a
\* disconnection starts from a clear device table.
ReattachFindsTableClear ==
  [][pc = "int_probe" /\ Detached(usb_task_state) /\ usb_task_state' = ATTACHED
       => devtable = ClearTable]_vars

\* transfer.c:256 "when nothing is connected": the host does not wait for a
\* device for ever while one is plugged in.
DetachedMeansUnplugged ==
  ~<>[](plug \in Devices /\ usb_task_state = WAIT_FOR_DEVICE)
=============================================================================
