------------------------------- MODULE UsbTask -------------------------------
(***************************************************************************)
(* The enumeration task of usb_kb/transfer.c (USB_Task, USB_init) and the  *)
(* class drivers' probes it runs (HIDMProbe and HIDKProbe of usb_kb/HID.c),*)
(* on top of the port and chip of Max3421e.  A control transfer is one     *)
(* step: it succeeds only when the addressed device answers, and may fail  *)
(* at any time (NAK limit, bus timeout, stall).  Transfer models the       *)
(* packets below that step.                                                *)
(***************************************************************************)
EXTENDS Max3421e

CONSTANTS
  USB_NUMDEVICES,   \* devtable entries scanned, entry 0 included
  Kind              \* what a device's first interface descriptor says

HID_K  == 1         \* transfer.h: devclass of a boot keyboard
HID_M  == 2         \* transfer.h: devclass of a boot mouse
UNINIT == 0
Kinds  == {"kbd", "mouse", "other"}

Addr == 1 .. (USB_NUMDEVICES - 1)

ASSUME TaskAssumption ==
  /\ USB_NUMDEVICES \in Nat
  /\ USB_NUMDEVICES > 1
  /\ Kind \in [Devices -> Kinds]

XferError      == 14        \* any non-zero rcode of a transfer (0x0e: hrTIMEOUT)
NoAddress      == 254       \* usb_error 0xfe
NoClientDriver == 253       \* usb_error 0xfd

VARIABLES
  usb_error,
  settled,          \* the clock has passed USB_Task's static usb_delay
  devtable,         \* [Addr -> [epinfo, devclass]]; devtable[0] is always dev0ep
  hidaddr,          \* hid_device.addr
  tmp_addr          \* USB_Task's static tmp_addr

taskVars == <<usb_error, settled, devtable, hidaddr, tmp_addr>>

FreeEntry  == [epinfo |-> "NULL", devclass |-> UNINIT]
ClearTable == [a \in Addr |-> FreeEntry]
Used(a)    == devtable[a].epinfo # "NULL"

USB_init == devtable' = ClearTable

Fail(rcode) ==
  /\ usb_error' = rcode
  /\ usb_task_state' = ERROR

GoTo(s) ==
  /\ usb_task_state' = s
  /\ UNCHANGED usb_error

\* What a step of USB_Task leaves alone unless it says otherwise.
KeepsPort == UNCHANGED <<portVars, chipVars, hirq>>
KeepsTable == UNCHANGED <<devtable, hidaddr, tmp_addr>>

(***************************************************************************)
(* External: the millisecond clock passes usb_delay.  A delay armed in the *)
(* last 200 ms before its readings wrap (Millis) never elapses; that is    *)
(* left out here, and Transfer has the same wrap for its own deadlines.    *)
(***************************************************************************)
DelayElapses ==
  /\ ~settled
  /\ settled' = TRUE
  /\ UNCHANGED <<maxVars, usb_error, devtable, hidaddr, tmp_addr>>

(***************************************************************************)
(* Detached.                                                               *)
(***************************************************************************)
DetachedInitialize ==
  /\ usb_task_state = INITIALIZE
  /\ USB_init
  /\ GoTo(WAIT_FOR_DEVICE)
  /\ KeepsPort
  /\ UNCHANGED <<settled, hidaddr, tmp_addr>>

\* WAIT_FOR_DEVICE (samples the bus), ILLEGAL, RUNNING, ERROR, and every value
\* with no case of its own: USB_Task does nothing.
TaskIdle ==
  /\ usb_task_state \notin {INITIALIZE, ATTACHED, SETTLE, RESET_DEVICE,
       WAIT_RESET_COMPLETE, WAIT_SOF, GET_DESCRIPTOR, ADDRESSING, CONFIGURING}
  /\ UNCHANGED <<maxVars, taskVars>>

(***************************************************************************)
(* Attached: settle, reset the device, start SOFs, read its descriptor.    *)
(***************************************************************************)
AttachedStartSettle ==
  /\ usb_task_state = ATTACHED
  /\ settled' = FALSE
  /\ GoTo(SETTLE)
  /\ KeepsPort /\ KeepsTable

SettleWait ==
  /\ usb_task_state = SETTLE
  /\ GoTo(IF settled THEN RESET_DEVICE ELSE SETTLE)
  /\ KeepsPort /\ KeepsTable
  /\ UNCHANGED settled

\* Driving SE0 may itself raise the connection detect interrupt.
ResetDevice ==
  /\ usb_task_state = RESET_DEVICE
  /\ busevent' = FALSE
  /\ busrst' = TRUE
  /\ condet' \in {condet} \cup {condet \cup {"reset"} : d \in Devices \cap {plug}}
  /\ GoTo(WAIT_RESET_COMPLETE)
  /\ KeepsTable
  /\ UNCHANGED <<portVars, lowspeed, hirq, settled>>

WaitResetComplete ==
  /\ usb_task_state = WAIT_RESET_COMPLETE
  /\ GoTo(IF busrst THEN WAIT_RESET_COMPLETE ELSE WAIT_SOF)
  /\ KeepsPort /\ KeepsTable
  /\ UNCHANGED settled

\* transfer.c:298 tests HIRQ | bmFRAMEIRQ, which is never zero.
WaitSof ==
  /\ usb_task_state = WAIT_SOF
  /\ GoTo(GET_DESCRIPTOR)
  /\ KeepsPort /\ KeepsTable
  /\ UNCHANGED settled

\* Only the rcode of the first 8 bytes decides; the full descriptor and the
\* string descriptors may fail unnoticed.
GetDeviceDescriptor ==
  /\ usb_task_state = GET_DESCRIPTOR
  /\ \/ Answers(0) /\ GoTo(ADDRESSING)
     \/ Fail(XferError)
  /\ KeepsPort /\ KeepsTable
  /\ UNCHANGED settled

(***************************************************************************)
(* Addressing: take the first free entry, then ask for the address.  The   *)
(* entry stays taken when the request fails, and the device may have       *)
(* accepted an address whose status stage was lost.                        *)
(***************************************************************************)
FirstFree(i) == ~Used(i) /\ \A j \in Addr : j < i => Used(j)

\* Mutant: the scan runs to i <= USB_NUMDEVICES, devtable's spare last entry.
AddressingOneTooFar ==
  /\ usb_task_state = ADDRESSING
  /\ \E i \in Addr \cup {USB_NUMDEVICES} :
       /\ \A j \in Addr : j < i => Used(j)
       /\ i \in Addr => ~Used(i)
       /\ devtable' = [a \in Addr |-> IF a = i THEN [devtable[a] EXCEPT !.epinfo = "dev0ep"] ELSE devtable[a]]
       /\ Answers(0)
       /\ devAddr' = i /\ tmp_addr' = i
       /\ GoTo(CONFIGURING)
  /\ UNCHANGED <<plug, configured, chipVars, hirq, settled, hidaddr>>

Addressing ==
  /\ usb_task_state = ADDRESSING
  /\ \/ \E i \in Addr :
          /\ FirstFree(i)
          /\ devtable' = [devtable EXCEPT ![i].epinfo = "dev0ep"]
          /\ \/ /\ Answers(0)
                /\ devAddr' = i
                /\ tmp_addr' = i
                /\ GoTo(CONFIGURING)
             \/ /\ devAddr' \in {devAddr} \cup {a \in {i} : Answers(0)}
                /\ Fail(XferError)
                /\ UNCHANGED tmp_addr
     \/ /\ \A i \in Addr : Used(i)
        /\ Fail(NoAddress)
        /\ UNCHANGED <<devtable, devAddr, tmp_addr>>
  /\ UNCHANGED <<plug, configured, chipVars, hirq, settled, hidaddr>>

(***************************************************************************)
(* Configuring: the drivers of ClientDriverTable in order.  MSDProbe and   *)
(* DummyProbe return FALSE.  A HID probe that recognises its interface     *)
(* fills devtable and hid_device before the requests that may still fail.  *)
(***************************************************************************)
\* The probe ends before it changes anything.
ProbeDeclines ==
  /\ UNCHANGED <<portVars, chipVars, hirq, devtable, hidaddr, tmp_addr, settled>>

\* Mutant: hid_device.addr is not filled in.
ProbeForgetsAddress(kind, class) ==
  /\ Answers(tmp_addr)
  /\ Kind[plug] = kind
  /\ devtable' = [devtable EXCEPT ![tmp_addr] = [epinfo |-> "hid_ep", devclass |-> class]]
  /\ UNCHANGED <<plug, devAddr, chipVars, hirq, hidaddr, tmp_addr, settled>>

\* HIDMProbe and HIDKProbe after the interface descriptor matched.
ProbeClaims(kind, class) ==
  /\ Answers(tmp_addr)
  /\ Kind[plug] = kind
  /\ devtable' = [devtable EXCEPT ![tmp_addr] = [epinfo |-> "hid_ep", devclass |-> class]]
  /\ hidaddr' = tmp_addr
  /\ UNCHANGED <<plug, devAddr, chipVars, hirq, tmp_addr, settled>>

ProbeReturnsTrue(kind, class) ==
  /\ ProbeClaims(kind, class)
  /\ configured' = TRUE
  /\ GoTo(RUNNING)

\* FALSE, with or without the changes of a recognised interface.
ProbeReturnsFalse(kind, class) ==
  \/ ProbeDeclines
  \/ ProbeClaims(kind, class) /\ configured' \in {configured, TRUE}

\* Mutant: the mouse probe registers a keyboard.
HIDMProbeClaimsKeyboard == usb_task_state = CONFIGURING /\ ProbeReturnsTrue("mouse", HID_K)

HIDMProbeTrue  == usb_task_state = CONFIGURING /\ ProbeReturnsTrue("mouse", HID_M)
HIDMProbeFalse == usb_task_state = CONFIGURING /\ ProbeReturnsFalse("mouse", HID_M) /\ GoTo(CONFIGURING)
HIDKProbeTrue  == usb_task_state = CONFIGURING /\ ProbeReturnsTrue("kbd", HID_K)
HIDKProbeFalse == usb_task_state = CONFIGURING /\ ProbeReturnsFalse("kbd", HID_K) /\ Fail(NoClientDriver)
=============================================================================
