# Verification of the two-player FPGA platform game

The repository is a platform game with Mario and Luigi on an FPGA. A NIOS II C
program serves a USB keyboard (or mouse) through a MAX3421E host controller and
writes the pressed key to a PIO; SystemVerilog circuits read the PIO once per
video frame and move the players, the gomba and the coins. The program reaches
the USB chip through an SPI master and prints on a JTAG console, both with
drivers of the board support package. All sources are under
`src/finalproj(test1)/`; paths below are relative to it.

Contents: 1 inventory, 2 modules and how they correspond to the code, 3 runs and
bounds, 4 fairness, 5 proofs, 6 disagreements between code and comments,
7 what is not modelled, 8 plan.

## 1. Inventory

### USB side (C, one thread, polling; `software/usb_kb/`)

| Component | State | Operations | Hard part | Correct when |
|---|---|---|---|---|
| MAX3421E driver (`usb_kb/MAX3421E.c`) | chip registers (CONDETIRQ, BUSEVENTIRQ, BUSRST, speed), `usb_task_state` | `MAX3421E_init`, `MAX_busprobe`, `MaxIntHandler`, `MAX3421E_Task` | the chip and the plug change between two register accesses of one handler | a change of the port is noticed; a reset's own interrupt is told from a connection |
| Enumeration task (`usb_kb/transfer.c`) | `usb_task_state`, `devtable[7]`, `usb_delay`, `usb_error` | the states of `USB_Task`, `USB_init` | states changed from under it by the handler; attempts that fail half way and leave table entries | every attempt ends in RUNNING or ERROR; the table stays a prefix |
| HID class drivers (`usb_kb/HID.c`) | `bigbuf`, `hid_device`, `hid_ep`, entry of the device being configured | `HIDMProbe`, `HIDKProbe`, `kbdPoll`, `mousePoll` | one buffer for all devices, walked by lengths found in it; a probe that fails after it has changed the entry | a walk sees the device's own bytes only and ends; the entry served describes the device served |
| Register access (`usb_kb/MAX3421E.c:26-136`) | none | `SPI_wr`, `MAXreg_wr`, `MAXreg_rd`, `MAXbytes_wr`, `MAXbytes_rd` | see the SPI driver below | a call is one exchange with the chip |
| Transfers (`usb_kb/transfer.c:53-227`) | chip transfer state, `rcvToggle`, NAK and retry counters, deadline | `XferCtrlReq`, `XferCtrlData`, `XferCtrlND`, `XferInTransfer`, `XferDispatchPkt` | lost packets and handshakes, NAKs, a silent chip, a wrapping clock | reports once and in order, whole answers, every call returns, nothing left in the chip |
| Main loop (`main.c`) | `runningdebugflag`, `device`, keycode PIO | `GetDriverandReport`, polling, re-initialisation | the remembered class is used while devices are swapped | polls the class that is served; only a keyboard sets the key |

The main loop calls `MAX3421E_Task`, `USB_Task` and the polling in turn; they
share `usb_task_state`, `devtable` and `hid_device`. The circuits see one thing
of all this: the keycode PIO.

### Board support package (C; `software/usb_kb_bsp/`)

| Component | State | Operations | Hard part | Correct when |
|---|---|---|---|---|
| SPI driver (`drivers/src/altera_avalon_spi.c`) | credit, counts of bytes; the SPI master's registers | `alt_avalon_spi_command` | status read first, registers used later, while the shift register runs | no byte lost, repeated or cut off; it returns |
| Console (`drivers/src/altera_avalon_jtag_uart_*.c`) | two ring buffers, `irq_enable`, `host_inactive` | `init`, `read`, `write`, `close`, `ioctl`, interrupt routine, `timeout` alarm | indices, buffers and the enable word shared by task, interrupt routine and alarm; a host that comes and goes | characters arrive once and in order; no wake-up is lost; nothing waits for ever |
| System clock (`HAL/src/alt_tick.c`, `alt_alarm_start.c`, `drivers/src/altera_avalon_timer_sc.c`) | `_alt_nticks`, alarm list, `time` and `rollover` of each alarm | `alt_tick`, `alt_alarm_start`, `alt_alarm_stop` | the counter and the alarms' times wrap | a callback runs at the tick asked for |
| Rest (`crt0`, file descriptors, profiling, logging, caches, generated headers) | | | | (not modelled) |

The console's alarm is one of the system clock's alarms; `alt_nticks` is the clock of
the deadlines in `transfer.c`; every access to the USB chip is an SPI command.

### Game side (SystemVerilog, all registers clocked)

| Component | State | Operations | Hard part | Correct when |
|---|---|---|---|---|
| Players (`mario_d.sv`, `luigi.sv`) | position and motion (10 bits), FSM, `already_jump`; `process` (Mario) and `at_edge` (Luigi) | one frame | each reads the other's registers of the frame before; 10-bit sums of positions and motions; position lags the motion by a frame | nobody sinks, one press one jump, players keep apart, the screen stays in the level |
| Gomba (`gomba.sv`) | position, motion, FSM, decision counter, `disappear` | one frame, and at each clock after it disappears | state and motion turned round in different places | it stays between its pipes and disappears when dead |
| Collisions (`collision.sv`) | three death registers | one 50 MHz clock | follows the clock, not the frame | a fall on the gomba is a stomp |
| Coins and score (`coin.sv`, `eat_coin.sv`, `score.sv`) | position, FSM, `eaten`, `coin_alive` | one frame; one clock | `coin_alive` goes back to 1 between frames | a touched coin is taken and counts |
| Video timing (`VGA_controller.sv`) | pixel and line counters, two sync registers | one pixel | its vertical sync is the game's frame clock | no frame edge inside the picture |
| Picture (`Color_Mapper.sv`, `font_rom.sv`, `is_pipe.sv`, ...) | none | combinational | none | (not modelled) |

The circuits share wires: positions of both players go to each other, to the
gomba, the coins and the collision circuit; `process` goes to everybody;
`at_edge` from Luigi to Mario; the death registers back to the state machines.

## 2. Modules

```
Max3421e <- UsbTask <- UsbHost <- MCUsbHost        (TLC)
                          |    <- UsbHostProofs    (TLAPS)
                          `-- INSTANCE HidService
HidProbe <- MCHidProbe                             (TLC)
    |    <- HidProbeProofs                         (TLAPS)
    `-- INSTANCE UsbTask
Millis <- Transfer <- TransferProofs               (TLAPS)
Spi <- SpiProofs                                   (TLAPS)
  `-- INSTANCE RegisterAccess
JtagUart <- JtagUartProofs                         (TLAPS)
Alarms <- AlarmsProofs                             (TLAPS)
  `-- INSTANCE Countdown
Arena <- Players <- Gomba <--------.
           |     <- Coins <--------|
           `---- <- PlayersProofs <- GameProofs    (TLAPS, both)
Vga
```

**Max3421e** models the port, the chip and the driver. Each handler is split
where the chip can change a register between two SPI accesses: interrupt
handling is *read HIRQ*, *probe the bus and set the state*, *advance the state
on a bus event and acknowledge*. `condet` is the set of reasons for which the
connection interrupt is pending, so that an interrupt caused by the host's own
bus reset can be told from a change of the line (the code cannot). Device
descriptors, speeds and addresses are reduced to what decides the control flow:
the plugged device, the address it listens to, whether it is configured.

**UsbTask** has one action per state of `USB_Task` and per result of the two
probes. A request succeeds only if the device answers at that address
(`Answers`), and may fail at any point; a probe that fails leaves the entry as far
changed as the code has got. `devtable[a]` keeps `epinfo` (NULL, the control
endpoint's, or `hid_ep`) and `devclass`.

**UsbHost** adds `main.c`. `pc` names the call of the loop that comes next, so
that plugging, the end of a bus reset and the clock can come between any two of
them. **HidService** is the abstract specification: phases *down*,
*enumerating*, *up* and *failed*, the class served, the keycode. `UsbHost`
refines it with `Phase`, `Class` and `keycode` as the mapping.

**HidProbe** looks inside the two probes, which UsbTask takes as one step each
with an arbitrary result: the two requests that fill `bigbuf`, the walk to the
first interface and on to its first endpoint, the changes of table and endpoint
record, and the two requests that configure the device, each of which may fail
before or after the device has done what it asks. `bigbuf` keeps of each byte
whose configuration it is from, so bytes that an earlier device, an earlier request
or the extra byte of `MAXbytes_rd` left behind are told apart, and a descriptor read over
such bytes may be anything (`Reads`). A configuration is a map from offsets to
descriptors; `WellFormed` says what the standard guarantees of it. Between
two calls the variables are those of UsbTask, and `ProbeIsTaskStep` states that each
call does what one of UsbTask's four probe actions does.

**Transfer** looks inside one request, which UsbTask and UsbHost take as one step: SETUP,
data and status stages, the toggle loaded from and saved to the table, the
counters and the deadline. Chip, bus and device are the environment: any packet
or handshake may be lost, refused (NAK, STALL) or repeated. Time passes while the chip
works on an attempt, at most `ChipTime`, and the driver's one deadline goes on over all its
attempts; or the chip comes to no result at all (`Hang`) and does nothing until
the next launch. Bytes are counted in packets. **Millis** is the clock it
reads, `(alt_nticks()*1000)/alt_ticks_per_second()`, which wraps; deadlines do
not.

**Spi** is `alt_avalon_spi_command` with one action per access to the SPI master's
registers, called as the five functions of `MAX3421E.c` call it. The
master itself (`Load`, `Latch`, `Finish`) is external: it has a transmit register, a shift
register and a receive register, loads and finishes when it likes, and sets the
overrun flag when it latches a byte over one not taken. **RegisterAccess**
is the promise: a command is one exchange, the chip gets its bytes and the
caller gets the answers that follow them.

**JtagUart** is the console's driver. A step of the task is one access to what it
shares with the interrupt routine; the routine runs in steps as well, because the
FIFOs and the host move under it, while the task waits. The characters written and
sent are numbered, so that order, loss and repetition show in the buffers'
contents. The host may leave and come back at any moment; the alarm counts the
seconds in which it was not seen.

**Alarms** is the system clock with its alarms in words of `Wrap` values, each call
one step because it disables interrupts. **Countdown** is the promise: so many ticks
from now, counted down.

**Arena** holds the 10-bit arithmetic, the geometry and the states that
`mario_d.sv` and `luigi.sv` have in common; **Players** what differs, and the
composition of both in one frame. A `Frame` updates all registers from their old
values, as the circuits do. RUN stands for RUN_1 to RUN_3, which differ in the
sprite only. `Kill` is the collision circuit seen from the players, and is
replaced by the real one in Gomba. All literals of the circuits are constants;
the code's value stands beside each declaration.

**Gomba** and **Coins** each compose a component with the players. Registers on
the 50 MHz clock settle between two frames: `Clock` and `CoinClock` are single
clock edges, and a frame happens when a further edge would change nothing
(there are over 800000 edges in a frame).

**Vga** is the pixel counter with both sync registers.

`PROJECT.json` maps every definition to its source lines. Definitions marked
*mutant* are plausible bugs used to see that each property can fail; the
specifications do not use them.

## 3. Runs

| Run | Checks | Bounds |
|---|---|---|
| `usb_host` | `TypeOK`, `ServedEntryIsLast`, `PolledClassIsServed`, `KeycodeComesFromKeyboard`, refinement `ServiceSpec`, liveness `EnumerationEnds` | one full speed keyboard, one low speed mouse, three table entries, key codes {0, 26} |
| `hid_probe` | `ReadsOwnBytes`, `ServedAsDescribed`, refinement `ProbeIsTaskStep`, liveness `WalkEnds` | a mouse, a keyboard with two interfaces that does not fit, a device without an interface; buffer of 40 bytes, two addresses |
| `transfer` | `InOrder`, `WholeAnswer`, `NothingLeftOver`, `TypeOK`, liveness `CallReturns` | 2 reports, answers up to 3 packets, limits of 2 NAKs and 2 lost packets, up to 1 tick an attempt, timeout 4, clock wraps at 6 |
| `spi` | `NoOverrun`, `SelectCoversCommand`, refinement `AtomicAccess`, liveness `CommandReturns` | every command of up to 8 data bytes |
| `console` | `TypeOK`, `OutputInOrder`, `InputInOrder`, `PendingOutputIsArmed`, `InputIsArmed`, liveness `WriteReturns`, `ReadGetsInput`, `OutputReachesHost` | buffers of 3 slots, FIFOs of 1 character, a timeout of 2 seconds, 3 characters each way |
| `alarms` | refinement `AlarmsCountDown` | two alarms, words of 8 values, intervals up to 6 |
| `players` | `AboveGround`, `OnePressOneJump`, `ScreenInLevel` | arena of modulus 32, steps of 8, one pipe, Luigi jumps, one death |
| `gomba` | `Penned`, `FallOnGombaStomps`, `StandingLuigiOnScreen`, `PlayersKeepApart`, liveness `GombaVanishes`, `Lands` | modulus 128, an arena of an eighth of the size, two pipes, decisions every second frame, standing Luigi |
| `coins` | `TouchedCoinIsTaken`, `ScoreCountsCollected` | three coins in reach of each other over a pipe, modulus 40 |
| `vga` | `FrameEdgeInBlank` | none: the code's numbers |
| `usb_stale_table`, `usb_missed_connect` | one violated statement each, see section 6 | as `usb_host`, keyboard only |

What each shows:

- `usb_host`: however devices are plugged and swapped, the table, the remembered class
  and the key fit the device that is there; and with the cable left alone attempts end, but for
  interrupts of the host's own resets that go on being handled late (section 6).
- `hid_probe`: what `usb_host` assumes of a probe is what the code does with
  the descriptors' bytes, failures included.
- `transfer`: over a bus that loses, refuses and repeats packets, reports come
  once and in order, a successful answer is whole, and a call leaves nothing behind in a chip
  whose attempts fit the deadline.
- `spi`: the register reads and writes that all of the above take as atomic are.
- `console`: the driver needs no lock between task and interrupt routine beyond the
  one around `irq_enable`; losing an interrupt would lose characters or block for ever. A read
  that finds a character in the buffer returns with one, and so does a blocking read for
  whom one has come, unless the host is taken for absent before it is in the buffer
  (`jtag_uart_read.c:174`). A non-blocking read does not see what is still in the FIFO.
- `alarms`: `rollover` is enough to carry alarms across the wrap.
- `players`, `gomba`, `coins`, `vga`: what the circuits compute from
  registers one frame old keeps the game's rules.

Why the bounds are enough:

- *Devices and addresses.* A swap needs two devices of different class and speed.
  Three entries allow two failed attempts before a success and the exhaustion
  of the table; `UsbHostProofs` removes both bounds for the safety properties.
- *Transfer.* One NAK and one lost packet fit below the limits, in either order, and with the attempt that
  ends the call they may take 3 of the 4 ticks, the most `ChipAssumption` allows. `TransferProofs` removes the limits. Three packets
  give a first, a middle and a last one, and both values of the toggle. The
  second report has the other toggle, and the first one may be repeated.
  `PollPackets` is 1 because a boot device's report fits into one packet. (With
  two packets per report `InOrder` would not hold: `XferInTransfer` saves the
  toggle only when all packets have arrived, so a failure between them loses it.)
- *Probes.* The buffer is smaller than the keyboard's configuration and larger than the
  mouse's, so a device's bytes stay behind the next one's; a walk over the third device
  reaches the end of the buffer without an interface to claim. `HidProbeProofs` removes the bounds.
- *SPI.* A command's steps depend on whether a byte is the first, one of
  the middle or the last of the write or the read part; 8 bytes have all of them. `SpiProofs`
  removes the bound.
- *Console.* The buffers wrap, fill and empty within the characters allowed, in one call
  and over several, and the FIFO fills before the buffer is empty; two seconds separate
  a host not yet seen from an absent one. `JtagUartProofs` removes all bounds
  for the safety properties.
- *Alarms.* Words of 8 values wrap between any two calls; `AlarmsProofs` removes the bounds.
- *Arenas.* The circuits' control depends on comparisons of sums and differences,
  so an arena keeps the order and the divisibility of the code's numbers (screen +
  scrolling = modulus, walls between ground and pipe top, the bottom of the
  screen below the ground) at a smaller scale; jumps still reach the pipe and
  other player's head. `PlayersProofs` and `GameProofs` remove the arena, the number of keys, coins
  and deaths from the safety properties, up to the relations of the constants listed there.
- *Keys.* `MaxKeys = 1`: `main.c` writes one of the four key codes, so at most one key
  is down at a frame. `LuigiMoves` limits what is pressed for Luigi.
- *Deaths.* `MaxDeaths` limits the deaths between two resets. Gomba stops at more deaths
  than that and Coins when a dead player is out of sight: the game is over then.
  (A dead player's motion keeps growing and wraps, which brings it back into
  sight after some 545 frames; what it touches then is not followed.)

What some properties leave open on purpose. `KeycodeComesFromKeyboard` is about changes
of the key: the last key stays when the keyboard goes, and no text of the repository says otherwise.
`PlayersKeepApart` and
`StandingLuigiOnScreen` are for a Luigi who stays put: when both players move at
once each tests a position that is one frame old, and they can end up inside each other.
`Lands` is for the same case: two players who lift each other to the ceiling
can reach a motion of 0 there, which the turn-round leaves at 0, and hover.
`TouchedCoinIsTaken` does not say that the score keeps the coin:
`coin_alive` goes back to 1 when the player leaves the column of the taken coin.
A Luigi beside a coin is not seen while Mario is at the coin's height. `ScoreCountsCollected`
is about the coins collected at that moment, without one given back.

## 4. Fairness

- `UsbHost.FairSpec`: weak fairness of the main loop (an endless `while (1)` on
  a processor that runs nothing else), of the end of a bus reset (the chip ends it
  after 50 ms) and of the clock. None of plugging and unplugging: nobody is
  obliged to touch the cable. `EnumerationEnds` assumes that the cable is left alone in the end:
  while someone keeps unplugging the device the enumeration may rightly restart for ever. It also assumes
  that interrupts of the host's own resets are handled late only finitely often (section 6).
- `Transfer.FairSpec`: weak fairness of the program, of the chip's answer (which
  may be `Hang`) and of the clock. An attempt is over, its result read, within `ChipTime`:
  the chip's part of that is `ChipAssumption`, the program's that it reads the interrupt register
  far more often than once a millisecond. Strong fairness of `TimedOut`: the waiting loop
  reads the clock many times per millisecond, so a reading at or past the
  deadline is seen. Past the wrap such readings stop existing, which is why `CallReturns`
  asks for a deadline below it.
- `HidProbe.FairSpec`: weak fairness of the calls by `USB_Task` and of the steps of a
  probe: the processor runs on, and every request returns (`CallReturns`).
- `Spi.FairSpec`: weak fairness of the driver, which spins, and of the SPI master, whose
  clock does not stop.
- `JtagUart.FairSpec`: weak fairness of the running call, of the interrupt routine (a pending
  interrupt is taken, and the routine goes on) and of the alarm, which `Alarms` shows to
  come round; strong fairness of `HostTakes`: a host that is attached again and
  again takes what is in the FIFO. None of calls, of input and of the host's presence.
- `Gomba`: weak fairness of the frame and of the clock edge,
  which are clocks of the board. None of keys, deaths or the reset button.

## 5. Proofs

`UsbHostProofs` proves, for any set of devices, any assignment of speeds and
classes, any key codes and any number of table entries (`TaskAssumption`):

| Theorem | Statement |
|---|---|
| `TypeCorrect` | `Spec => []TypeOK`, which includes the values `usb_task_state++` may produce |
| `ServedEntry` | `Spec => []ServedEntryIsLast` |
| `PolledClass` | `Spec => []PolledClassIsServed` |
| `KeycodeSource` | `Spec => KeycodeComesFromKeyboard` |
| `HostImplementsService` | `Spec => ServiceSpec` |

The invariants are not inductive as they stand: that the device in RUNNING is the
one described by the last used entry depends on what was true while it was being
configured, and that depends on how entries are taken. The inductive
invariant `IndInv` adds: the used entries are a prefix of the table
(`UsedIsPrefix`); the state the interrupt handler and the interrupted
call leave behind at each `pc` (`CallInv`, needed because `usb_task_state++` comes one
step after the probe); that `runningdebugflag` outlives RUNNING only up to the
loop body that re-initialises (`FlagInv`); that the entry being configured is the last one
(`ConfiguringInv`); and that the entry served belongs to the device that answers
at its address (`ServingInv`). There is one lemma per action, one step per
conjunct the action can disturb, and lemmas for the probe's results, a cleared
table and an unchanged table. The refinement uses `IndInv` and shows that each
action is a step of `HidService` or leaves phase, class and keycode unchanged.

`TransferProofs` proves, for any limits, timeout, wrap of the clock, length of
answers and number of reports (`WrapAssumption`, `TransferAssumption`), and for a chip all of whose attempts
under one deadline fit into it (`ChipAssumption`: 202 times `ChipTime` below 5000 ms, so up to 24 ms where a transaction
takes at most a frame or two of 1 ms):

| Theorem | Statement |
|---|---|
| `TypeCorrect` | `Spec => []TypeOK` |
| `NothingLeft` | `Spec => []NothingLeftOver` |
| `ReportsInOrder` | `PollPackets = 1` implies `Spec => []InOrder` |
| `AnswersWhole` | `Spec => []WholeAnswer` |

A call that times out clears nothing in the chip, so `NothingLeftOver` depends on the deadline not
passing while the chip works, although the deadline is not put off when a packet is sent again. It is
strengthened to `ChipInv`: while the chip works on an attempt or holds its result, the time since
the call's begin is at most what its attempts can have taken (`Spent`, from the two counters), and it holds
a packet only as the result of an IN. The counters stay below their limits, so `Spent` is
below the timeout (`InTime`), and a call that times out is one whose chip came to no result.
If either counter were forgotten when the other is used, a call of alternating NAKs and losses
would time out on a working chip; that is the mutant. For
`InOrder`, `ToggleInv` relates the three toggles (table, chip, device) and the
device's position with the number of reports delivered: between polls the
device is at the next report or still at the one delivered last, and only the toggle
tells the two apart. For `WholeAnswer`, `AnswerInv` says the same of the packets of one
answer: those stored are its first ones, in order; between two INs the device is at the next
packet or, its handshake lost, at the one stored last; the chip drops the latter for its toggle;
and a packet in the FIFO is short exactly if it ends an answer below the limit.

`HidProbeProofs` proves, for any devices that obey the standard, any buffer size from 9 bytes on
and any number of addresses (`ProbeAssumption`):

| Theorem | Statement |
|---|---|
| `ProbeInvariant` | `Spec => []IndInv` |
| `OwnBytes` | `Spec => []ReadsOwnBytes` |
| `Served` | `Spec => []ServedAsDescribed` |
| `ProbesAreTaskSteps` | `Spec => ProbeIsTaskStep` |

`IndInv` says where the walk is: the buffer holds the device's configuration as far as it
fits (`BufferInv`), `byte_ptr` is at the start of a descriptor and no interface, or
after it no endpoint, has been passed (`WalkInv`), and the entry still leads to
the packet size the device announced (`DeviceInv`). For the refinement, the
history variable `before` remembers what `USB_Task` saw at the call, and
`HistoryInv` says what has changed since.

`SpiProofs`, for commands of any length (`SpiAssumption`):

| Theorem | Statement |
|---|---|
| `TypeCorrect` | `Spec => []TypeOK` |
| `OverrunFree` | `Spec => []NoOverrun` |
| `Covered` | `Spec => []SelectCoversCommand` |
| `CommandIsAtomic` | `Spec => AtomicAccess` |

The invariant: one byte is in one place at a time (`OneUnderWay`), a status bit the
driver has read still holds when it acts on it (`StatusStands`), and the bytes on the
wire and in the registers are those of the command at the positions its counts say.

`JtagUartProofs`, for buffers, FIFOs, thresholds and timeouts of any size (`JtagUartAssumption`):

| Theorem | Statement |
|---|---|
| `TypeCorrect` | `Spec => []TypeOK` |
| `OutputOrder` | `Spec => []OutputInOrder` |
| `InputOrder` | `Spec => []InputInOrder` |
| `OutputArmed` | `Spec => []PendingOutputIsArmed` |
| `InputArmed` | `Spec => []InputIsArmed` |

The inductive invariant adds what the task's copies of the indices still mean while the
routine moves the others (`WriterInv`, `ReaderInv`: room only grows, what is
there stays there) and what the routine's copies of the control register mean (`RoutineInv`:
no more space than there is, because only the routine fills the FIFO).

`AlarmsProofs`, for any alarms, word size and intervals below `Wrap - 1` (`AlarmAssumption`):

| Theorem | Statement |
|---|---|
| `AlarmsAhead` | `Spec => []IndInv`: each alarm is ahead of the counter by at most an interval, on the side of the wrap its flag says |
| `AlarmsKeepPromise` | `Spec => AlarmsCountDown` |

`PlayersProofs` is about any game in which the players take part (`AnyGame`: whatever else
decides who dies, so that the results hold alone and beside the gomba), for any arena of `ArenaAssumption`,
`PlayersAssumption` and `ScreenAssumption`:

| Theorem | Statement | Hypotheses, beyond the assumptions |
|---|---|---|
| `NobodySinks` | `AnyGame => []AboveGround` | |
| `ScreenStaysInLevel` | `AnyGame => []ScreenInLevel` | |
| `HeldKeyJumpsOnce` | `AnyGame => []OnePressOneJump` | `MaxKeys = 1` |
| `LuigiStaysOnScreen` | `AnyGame => []StandingLuigiOnScreen` | `Unattended` |
| `PlayersStayApart` | `AnyGame => []PlayersKeepApart` | `Unattended`, `FlightFits`, `RoomBeside` |
| `PlayersAlone` | all five for `Spec` | as above |

`ArenaAssumption` asks that a step to the left has bit 9 set (`0 < Step`, `2 * Step < Modulus`), `ScreenAssumption`
that the last allowed scrolling step leaves the screen in the level (384 + 640 = 1024). The hypotheses of the theorems are
definitions with the code's numbers beside them. One key at a time is necessary for `HeldKeyJumpsOnce`: STAND
clears `already_jump` when "a" or "d" is down, "w" beside it or not. `Unattended` is the case the properties are about (section 3).

- `Scrolled` strengthens `ScreenInLevel` by what the late comparison needs: `process` is a multiple of `Step`, because
  the motion that scrolls is `Step` or 0.
- `OneJump` says in which states `already_jump` must be set while the key has been down since the
  take-off; there is one lemma per state of the FSM, and `Follows` says for both players what all of them keep.
- `EdgeSeen` bounds the frame by which `at_edge` is late: the scrolling stops within a step of Luigi.
- `PlayersKeepApart` depends on how fast Mario comes down on Luigi's head: a landing is noticed only if a frame's
  fall is shorter than a player is high. `MarioFlies` has the quantity a flight conserves, `2*y - v*(v-1)`
  for the upward motion `v`, which is at least what it is at a take-off from a pipe (`Origin`); so a faller
  above the ground is no faster than `Height` (`FlightFits`, in the code `32*33 > 2*64 + 15*16`). `MarioLandsApart` is
  the step that needs it.

`GameProofs`, for any arena with a pen between two pipes (`PenAssumption`) and any coins:

| Theorem | Statement | Hypotheses, beyond the assumptions |
|---|---|---|
| `GombaStaysPenned` | `GombaSpec => []Penned` | |
| `FallIsStomp` | `GombaSpec => FallOnGombaStomps` | `BehindPipe`, `FlightFits` |
| `PlayersBesideGomba` | the five of `PlayersProofs` for `GombaSpec` | as there |
| `CoinsAreTaken` | `CoinSpec => TouchedCoinIsTaken` | |
| `ScoreIsCollected` | `CoinSpec => []ScoreCountsCollected` | 3 or 7 coins |

- `Penned` speaks of the position; the inductive `InPen` also of the motion to come, because
  state and motion are turned round in different places: how near to a pipe the gomba may be depends on
  which way it still moves. `PenAssumption` says why a frame's delay does no harm: two frames of motion do not carry it across a pipe.
- `FallOnGombaStomps` is about the collision circuit reading what one frame wrote, and needs the bound on the fall
  again, for Mario above the gomba. `BehindPipe` holds in the code (`107 <= 162`): a standing Luigi is kept from the gomba
  by the left pipe and therefore does not die (`LuigiLives`).
- The adder of `score.sv` extends each `coin_alive` to 3 bits before it inverts it, so that a coin left counts 6 and
  one collected 7; less 2 and cut to 3 bits, that is the number of collected coins for three coins and for the code's seven, but
  not for six or eight.

Only model-checked: liveness (`EnumerationEnds`, `CallReturns`, `WalkEnds`, `CommandReturns`,
`WriteReturns`, `ReadGetsInput`, `OutputReachesHost`, `Lands`, `GombaVanishes`), which the proof system does not
cover, and `FrameEdgeInBlank`, whose run is exhaustive at the code's own numbers. `InOrder` for polls of several packets,
`OnePressOneJump` for several keys, and `StandingLuigiOnScreen` and `PlayersKeepApart` for a Luigi who moves are not claimed (sections 3 and 5).

## 6. Where the code disagrees with its comments

| Run | Comment | What the code does |
|---|---|---|
| `usb_stale_table` | `MAX3421E.c:203` "clear device data structures" | a bus event pending since an earlier reset makes the handler increment INITIALIZE to a value without a case; the table is not cleared and the old entries stay used |
| `usb_missed_connect` | `transfer.c:256` "when nothing is connected" | a device plugged in between the bus probe and the write that clears CONDETIRQ is never noticed |

True of the code and of the models, without a run of their own:

- `MAX3421E.c:175` guards against "bus reset causes connection detect interrupt" by the state
  WAIT_RESET_COMPLETE, which `USB_Task` leaves as soon as BUSRST reads 0: an interrupt
  of the reset handled one loop later restarts the attachment, with another reset. Nothing in the code
  bounds how often this happens: without its second premise `EnumerationEnds` does not hold. With it, it
  shows that nothing else repeats an enumeration for ever, and that the guard is enough for
  interrupts handled in time.
- `transfer.c:141` says "0xff means timeout", but `(alt_nticks()*1000)/alt_ticks_per_second()`
  wraps every 71 minutes and a deadline computed before does not: a packet dispatched in the
  last 5 s before the wrap waits for a silent chip without end. `CallReturns` is stated for the
  deadlines below the wrap.
- The "air wall" of `mario_d.sv:435` and `:156` is tested only while the key is down, and the
  position follows the motion a frame later: tapping a key walks a player into a pipe. The gomba's
  wall is tested at every frame, and `Penned` holds.
- `MAXbytes_rd` (`MAX3421E.c:131`) reads `nbytes + 1` bytes and stores them all, so the position
  whose address it returns, "after last written" (`:117`), is written too; a full `bigbuf` is
  overrun by a byte. `MAXreg_rd` (`:108`) does the same with a local variable. `Stored` in HidProbe has the extra byte.
- A descriptor of length 0 makes the walks of `HID.c:48` and `:75` endless; `wMaxPacketSize` (`HID.c:85`) is
  read at an odd address, which C leaves undefined.
- An alarm asked for in `2^32 - 1` ticks runs at the next one (`alt_alarm_start.c`).
- A long flight to the left passes x = 0 and wraps (`mario_d.sv:950`); `process + 640` wraps to 0 at the
  level's end, where Luigi loses his motion on landing (`luigi.sv:1113`); a Luigi who dies at the left
  edge leaves `at_edge` set until the reset (`luigi.sv:1232`).
- `XferInTransfer` returns 0xff on a timeout where `transfer.c:190` says `fe`; a poll that fails between
  two packets loses the toggle, without effect while reports fit one packet; the 256 attempts of
  `MAX3421E.c:148` do not end the wait for the oscillator (`:147`); an attachment that finds a bus event
  pending skips the "initial settle 200ms" of `transfer.c:277`; the vertical sync
  pulse covers lines 489 and 490, not the 490 and 491 of `VGA_controller.sv:98`.

## 7. Not modelled, and why

- GPX interrupt (never raised) and the unused functions for GPIO and VBUS.
- In the SPI driver the flags MERGE and TOGGLE_SS_N, which no caller sets, and the branch
  `credits = -1024`, which is reached only with a credit left when all bytes are sent which
  the invariant of `SpiProofs` rules out.
- In the console driver `ioctl`, which nothing calls, the small driver and the event flags of a multi-tasking
  system, which this build does not have; and a failure of `alt_alarm_start`.
- Descriptors of length 0 or without an end, configurations in the middle of which the plug is pulled
  (UsbHost has that), string descriptors: read, printed and dropped.
- LEDs, hex digits, `errorflag`, `last_usb_task_state`, printf: output only.
- The mouse's report and all keys of a report but one: `main.c` passes one key on.
- A chip that comes to a result of an attempt later than `ChipTime`, after the call's deadline: the result would be taken for
  the next packet's.
- A wait for the oscillator that never ends, and the settle delay at the clock's wrap.
- `Color_Mapper`, fonts, sprites, HEX displays: pictures of state modelled elsewhere.
- `mario.sv`, `sdcard_init.sv`, `FRAME_BUFFER.sv`, `BUFFER_TOP.sv`,
  `SCREEN_CONTROL.sv`, `VGA.sv`: not instantiated in the design, or vendored.
- The rest of the board support package (start-up, file descriptors, newlib glue, profiling, logging, caches, headers
  of register masks), the Qsys system, PLL and SDRAM controllers: vendor code of which the program uses start-up and printf,
  and generated address maps. They and the sprite tables are most of the repository's lines.
- Sprite conversion tools: third-party, offline.
- Sprite flags, animation counters and Luigi's own copy of `process`: nothing
  in the modelled state depends on them.

## 8. Plan

Done: the USB host with its refinement and proofs, down to the bytes of the descriptors, the packets of a transfer
and the registers of the SPI master; console and system clock; players, gomba, coins with their
safety properties proved for every arena; video timing.

What would come next:

1. An abstract channel of numbered reports that `Transfer` implements, in the
   style of `HidService`, and the composition of both.
2. Composition of the keycode PIO with the players: a frame that samples the
   PIO while the main loop changes it, in place of the free choice of keys.
3. Gomba and coins with a moving Luigi, by a smaller arena or by symmetry of the
   coins.
