# A TLA+ model of the riot SAMR core

This directory holds TLA+ models of the Arduino core for the SAM R34 / SAMD21
(`cores/arduino`, `libraries`, `bootloaders/r34`), the TLC configurations that
check them on small instances, and TLAPS proofs about most of them. Paths
below are relative to the repository's root; `core/` stands for `cores/arduino/`.

    tlasany M.tla                      parse a module
    tlc -config X.cfg M                check the run X of module M
    tlapm M_proofs.tla                 check the proofs about M (eight modules)

`PROJECT.json` maps each definition to the lines it models, and lists the runs,
the hazards of the code, the faulty variants that show each property can fail,
the observed disagreements between code and comments, and the theorems.

## 1. Inventory

The processor is a Cortex-M0+: one core, no threads, nested interrupts. The
concurrency of the core is between

| context | priority | runs |
|---|---|---|
| sketch | - | between interrupts; every API call |
| USB interrupt | 0 | `UDD_Handler`, `USBDeviceClass::ISRHandler`, `Serial_::setup` |
| EIC, Tone, RTC interrupts | 0 | user callbacks, pin toggling, alarm |
| SysTick | 2 | `SysTick_DefaultHandler`: `tickReset()`, the millisecond counter |
| SERCOM (UART, I2C slave) | 3 | `Uart::IrqHandler`, `TwoWire::onService` |
| peripherals, host, line | - | USB endpoint DMA, USART shift registers and FIFO |

A handler is preempted by a numerically lower priority, never by the sketch. The
only lock is `synchronized` (`core/sync.h`): it saves PRIMASK, disables
interrupts and restores. Almost no shared variable is atomic beyond one load or
store.

| component | state | operations | what makes it correct |
|---|---|---|---|
| USB OUT endpoint (`core/USB/SAMD21_USBDevice.h`, `RingBuffer.h`) | two banks with `ready`, `last`, `first`; `current`, `incoming`, `notify`; ring buffer; descriptor and flags | `recv`, `available`, `peek`, `handleEndpoint`, packet from the host | a bank has one owner; banks in order; no byte lost, repeated or reordered; the endpoint always accepts again |
| USB configuration (`core/USB/USBCore.cpp`) | `_usbConfiguration`, the endpoint handler objects | SET_CONFIGURATION, bus reset | a new handler object leaves both sides in agreement |
| USB IN endpoint (`USBCore.cpp` `send`, `clear`, `flush`) | cache buffer, `LastTransmitTimedOut`, bank 1 descriptor and flags | `send`, `clear`, poll by the host, frame interrupt | a packet under transfer is not rewritten; no byte twice; loss only by timeout or clear; recovers when the host returns |
| USB CDC data (`core/USB/CDC.cpp`) | `_serialPeek`, `breakValue` | `read`, `peek`, `readBytes`, `readBreak`, SEND_BREAK | every byte once and in order; most recent break at most once |
| CDC line state, auto-reset (`CDC.cpp`, `Reset.cpp`, `delay.c`) | `_usbLineInfo`, `ticks` | SET_LINE_CODING, SET_CONTROL_LINE_STATE, `end`, `tickReset`, `banzai` | erased only when closed at 1200 bps and after the whole delay |
| USB control endpoint (`USBCore.cpp`, `SAMD21_USBDevice.h`) | address, setup packet, EP0 buffers | standard requests, data stages | agrees with the host on address and configuration; a wait in the interrupt ends for its own stage |
| Pluggable USB, HID (`core/api/PluggableUSB.cpp`, `libraries/HID`) | list of modules, endpoint and interface counters | `plug`, descriptors | disjoint interfaces and endpoints within `totalEP` |
| UART transmitter (`core/Uart.cpp`, `SERCOM.cpp`) | `txBuffer`, the DRE interrupt, DATA and shift register | `write`, `flush`, `IrqHandler` | order, nothing left behind, no deadlock with interrupts masked |
| UART receiver (same files) | `rxBuffer`, RTS pin, receive FIFO | `read`, `IrqHandler`, characters of the line | no overflow with flow control, bad characters dropped, sender restarted |
| Reset cause, time (`Reset.cpp`, `delay.c`) | `_ulTickCount`, SysTick registers | `millis`, `micros`, `delay` | a reading lies between its call and its return |
| External interrupts (`WInterrupts.c`) | dense list of masks and callbacks, `nints` | attach, detach, `EIC_Handler` | the callback of a line, never another's; every enabled line is served |
| Tone (`Tone.cpp`) | `toneIsActive`, `lastOutputPin`, `toggleCount`, timer | `tone`, `noTone`, `Tone_Handler` | ends after its duration; one pin at a time; the frequency asked for |
| I2C (`libraries/Wire`, `SERCOM.cpp`) | buffers, `transmissionBegun`, bus state | master transfers, slave handler | success means delivered; a lost arbitration ends; the slave reports one write at a time |
| SPI (`libraries/SPI`) | interrupt masks, mode | transactions | no callback within a transaction |
| RTC, low power (`libraries/RTC`, `StampLowPower`) | calendar registers, alarm, callbacks | set, epoch conversions, alarm, sleep | the time set is the time kept; a sleep ends |
| Text and numbers (`core/api/Stream.cpp`, `Print.cpp`, `String.cpp`) | text, indices of the search, digits | `findMulti`, `parseInt`, `readBytesUntil`, `print`, `replace` | what is found, written and replaced is what the text has |
| Bootloader: start (`bootloaders/r34/main.c`) | double-tap word in RAM, the flash | start decision after any reset | starts an application that is whole, stays for the second tap |
| Bootloader: monitor (`sam_ba_monitor.c`) | parser, `ptr_data`, packet buffer | commands, erasure, writing | memory and answers as commanded, as far as the host ends a packet with each line and with the data of `S` |
| Bootloader: XMODEM (`sam_ba_serial.c`) | block number, `size_of_data`, retries | send, receive | each block once, in order, as it was |
| Bootloader: USB (`sam_ba_usb.c`, `sam_ba_cdc.c`, `board_driver_usb.c`) | address, configuration, `read_job` | one polled loop | agrees with the host; answers every packet |
| Others | - | digital and analog I/O, board tables, updaters | one context, no protocol |

How they interact: `SerialUSB` calls `USBDevice.recv/send`, which call the
endpoint handler; the USB interrupt calls the same handler object from the other
side, and `Serial_::setup` for class requests; `setup` sets `ticks`, which
SysTick counts down to `banzai()`, which erases the first row of the
application, so that the bootloader's start decision finds no application; the
monitor then writes a new one, and the sketch starts again. The UART and the I2C
master and slave share `SERCOM` and the ring buffers; SPI masks the interrupts
that `WInterrupts.c` serves; the timed sleep is the alarm of the clock.

The hard behaviours are interleavings of the sketch with the interrupts inside
multi-step updates, flags that the hardware changes between a test and its use,
timeouts that race with late completions, waits inside an interrupt or inside
the only loop there is, a bus reset, a new configuration, a reset of the board
or a power failure in the middle of anything, and buffers at their limit.
`PROJECT.json` lists each one at its line with the properties that watch it.

## 2. Modules

| module | models | state and actions |
|---|---|---|
| `UsbStream` | the promise of a bulk OUT endpoint | abstract: two counters and the answer of the last call |
| `UsbOutEndpoint` | `DoubleBufferedEPOutHandler` | sketch: `Call*`, `ReadLen`, `CheckReady`, `CopyByte`, `SwapBank`/`StopCopy`, `FreeBank`, `*Body`; handler: `IsrZlp`, `IsrPacket`, `IsrAck`; peripheral: `Bus*` |
| `UsbReconfigure` | extends `UsbOutEndpoint` with SET_CONFIGURATION | `SetConfiguration`: delete, construct and `init()` in the interrupt |
| `UsbControl` | `ISRHandler`, `handleStandardSetup`, `Serial_::setup` | `IsrSetup`, `Serve`, the waits `SetAddress`/`AddressIsSet`, `RecvControl`/`DataReceived`; `Host*`, `BusReset` |
| `UsbModules` | `PluggableUSB_::plug`, `sendConfiguration`, `armSend`, `initEndpoints`, HID descriptors and reports | `Plug`, `AppendDescriptor`, `Get*`, `SetConfiguration`, `Sends`, `HostTakes` |
| `UsbInEndpoint` | `USBDeviceClass::send`, `clear`, `ISRHandler` | sketch steps of `send` and `clear`, `FrameInterrupt`, `Bus*` |
| `UsbSerial` | `Serial_` reading, over `UsbStream` and the configuration | `Read`, `Peek`, `readBytes` byte by byte, `readBreak` step by step, `Host*` |
| `AutoReset` | `Serial_::setup`, `end`, `tickReset`, `banzai` | `HostRequest` (USB interrupt), `EndRate`/`EndLineState` (sketch), `TickLoad`/`TickStore` (SysTick), `SystemReset` |
| `UartTx`, `UartRx` | `Uart::write`, `flush`, `read`, the two halves of `IrqHandler` | sketch steps, `DreInterrupt`, `Usart`; `Read` in three steps, `IrqHandler`, a sender that obeys RTS |
| `ExtInterrupts` | `attachInterrupt`, `detachInterrupt`, `EIC_Handler`, transactions of SPI | one action per write of the list, and per load and store of INTENSET; `Handler` entry by entry; `Edge` |
| `Tone` | `tone`, `noTone`, `Tone_Handler` | the calls are one step each (their interrupt is off), with the search for a prescaler (`Turns`, `CcValue`, `Prescaler`); `Toggle`, `Stop` |
| `Micros` | `micros`, `delay`, `SysTick_DefaultHandler` | `ReadTicks`, `ReadPend`, `ReadCount`, `Stable`/`Again`; time goes on at every step; `Scaled` makes microseconds of clocks |
| `WireSlave` | `TwoWire::onService` | `Report`, `AddressMatch`, `SendByte`, `StoreByte`; the master |
| `WireMaster` | `endTransmission`, `requestFrom` over `SERCOM` | `Start`, the waits with and without their timeout, `SendByte`, `ReadByte`; slave and other master |
| `Rtc` | `RTCR34.cpp`, the timed sleep | a field of the clock is read (`LoadField`) and written (`SetField`) with its register, a field of the alarm written; `Tick`, `Handler`, `Wake`, `Reset` |
| `TextStream`, `PrintNumber`, `Strings` | `Stream.cpp`, `Print.cpp`, `String.cpp` | one action per turn of a loop; `*GivesUp` is a timeout |
| `Boot` | `check_start_application`, commands X and Y | `CheckStart`, `WaitOver`, `EraseRow`, `WritePage`; `Press`, `PowerFailure`, `HostGivesUp` |
| `Lifecycle` | composes `AutoReset` and `Boot` over the flash | `Sketch`, `TouchReset`, `BootPart` |
| `Monitor` | `sam_ba_monitor_loop`, `cdc_read_buf`, `cdc_read_buf_xmd` | `Parse*` one character, `Execute*` one command, `ReadXmd`; `Send` cuts the packets |
| `Transfer` | the promise of a stop-and-wait transfer | abstract: `Deliver`, `Confirm`, `Succeed`, `Fail` |
| `XmodemSend`, `XmodemReceive` | `serial_putdata_xmd`, `serial_getdata_xmd`, `putPacket`, `getPacket` | the device packet by packet; host and line with faults |
| `BootUsb` | `sam_ba_usb.c`, `sam_ba_cdc.c`, `board_driver_usb.c` | `Poll`, `EndOfReset`, `Enumerate`, `Taken`, `Read`, `Answered`; `Host*` |
| `UsbDevice` | composes `UsbReconfigure`, `UsbControl`, `UsbInEndpoint`, `UsbSerial` and `UsbModules` | each part with its own variables (`ctl_`, `in_`, `se_`, `mo_`); what the device promises |
| `Core` | extends `UartRx` with `UartTx`, the other half of the port, `ExtInterrupts`, `Tone` and `Micros` | each its own variables (`ext_`, `tone_`, `mi_`) |
| `Libraries` | extends `WireMaster` with `WireSlave`, the other role of the object, `Rtc`, `TextStream`, `PrintNumber` and `Strings` | each its own variables (`rtc_`, `tx_`, `nu_`, `st_`) |
| `Bootloader` | extends `Lifecycle` with `XmodemSend`, `XmodemReceive`, `Monitor` and `BootUsb` | each its own variables (`put_`, `get_`, `mon_`, `usb_`); what transfers, monitor and port promise |
| `UsbOutEndpoint_proofs`, `UsbDevice_proofs`, `Uart_proofs`, `Core_proofs`, `Libraries_proofs`, `Monitor_proofs`, `Bootloader_proofs` | - | inductive invariants, lemmas and theorems, see section 5 |
| `FoldLemmas` | - | what `FoldLeft` computes, for every sequence: lemmas that the proof modules cite |
| `MCMonitor` | - | values of the constants for TLC |
| `MCUsb`, `MCCore`, `MCLibraries`, `MCBootloader` | - | several modules in one run, see below |

Which composes which: `UsbReconfigure` and `UsbSerial` stand on the OUT endpoint
(the second on its abstract specification), `Lifecycle` joins sketch, reset,
bootloader and upload over one flash, `ExtInterrupts` joins the interrupt list
with the transactions of SPI, `Rtc` the clock with the sleep; `XmodemSend` and
`XmodemReceive` implement `Transfer` by a refinement mapping, as `UsbOutEndpoint`
implements `UsbStream`. `UsbDevice`, `Core`, `Libraries` and
`Bootloader` each hold the parts of one object, or of one processor, with their
constants, their assumptions and what they promise; the run modules and the proofs
extend the same composition, so that a property of a run and the statement of a
theorem are one definition.

*Granularity.* A step is what an interrupt of the modelled actors cannot divide,
or what no other actor can observe: each read or write of a shared variable
outside `synchronized` is a step of its own, a whole `synchronized` section is
one step, and steps on private data are joined to their neighbours. An
interrupt handler blocks the steps of the sketch (and of handlers of lower
priority), not those of the hardware. In the bootloader, which has no
interrupts, a step is one look at the hardware.

*Data.* A byte is its position in the stream or the number of its transfer, so
losing, repeating or reordering is visible without modelling contents. Numbers
keep their width and wrap: those of `Print` and `Tone` (`Word`, `Max16`, `ByteMod` for
the base), the `long` of `parseInt()` (`LongHalf`), the length of an XMODEM transfer
(`SizeMod`), the microseconds.

*Runs of several modules.* `MCUsb`, `MCCore`, `MCLibraries` and `MCBootloader`
each check modules that share no state. A variable `part` is chosen in the
initial state and says which module a behaviour is about; the others keep their
initial state. The states of such a run are the sum of the states of its parts,
not their product, and a property about a part holds of the run if and only if
it holds of the part. Every fairness condition is guarded by its part: without
the guard an action of a part that never moves would be enabled for ever and no
behaviour would be fair. A property of such a run is the conjunction of what its
parts state, named for what it says.

Definitions whose comment begins with *Faulty variant* are not used by the
specifications. Each is an operator of the module with a plausible mistake, and
stands as the evidence that the property named with it in `PROJECT.json` notices
the mistake.

## 3. What the runs show

| run | configuration | question | states |
|---|---|---|---|
| `out_safety` | `UsbOutEndpoint.cfg` (module `UsbOutEndpoint_proofs`) | ownership, order and conservation of the OUT endpoint; the inductive invariant; refinement of `UsbStream` | 1,245,522 |
| `usb` | `MCUsb.cfg` | control endpoint, configuration, modules, IN endpoint, serial port: agreement with the host, order, and that every call and request ends | 238,868 |
| `core` | `MCCore.cfg` | UART, external interrupts, tone, time: order, no callback of another line, no lost edge, whole tones of the right frequency, right readings | 128,750 |
| `libraries` | `MCLibraries.cfg` | I2C both ways, clock and sleep, text: success means delivered, waits end, the text is right | 287,865 |
| `bootloader` | `MCBootloader.cfg` | touch, start, upload with resets and power failures; XMODEM with faults; commands; polled USB | 213,821 |
| `reconfigure_race` | `UsbReconfigure_race.cfg` | no bank is filled while it is copied, with SET_CONFIGURATION inside a call: **violated** | - |
| `in_wait` | `UsbInEndpoint_wait.cfg` | the wait of `send()` sees the completion: **violated** | - |
| `serial_count` | `UsbSerial_count.cfg` | `readBytes()` counts what it placed: **violated** | - |
| `autoreset_lost` | `AutoReset_lost.cfg` | an open port is kept: **violated** | - |
| `xmodem_repeat` | `XmodemSend_repeat.cfg` | the host gets the bytes of the buffer: **violated** | - |
| `exti_list` | `ExtInterrupts_list.cfg` | the handler calls the callback of its line: **violated** | - |
| `monitor_split` | `Monitor_split.cfg` | the rest of the data of S follows what came with the command: **violated** | - |

### OUT endpoint (`out_safety`, part "out" of `usb`)

The handler and the sketch each believe in a next bank (`incoming`, `current`)
and hand banks over through `ready`; with both banks full, whichever comes
second releases the endpoint, arranged through `notify`. The dangerous step is
between `SwapBank` and `FreeBank`: `current` has changed and the flag of the
drained bank has not. `NotFilledWhileReady`, `ReadyBankStable` and `IInv` say
that the arrangement survives every interrupt there; `NothingLost` that every
byte is in one place, also when the ring buffer fills in the middle of a bank and
when a packet with a bad CRC has scribbled in it.

*Bounds.* `Size = 2`, `RingSize = 3`, `MaxSent = 6`: three full packets go
through two banks, so both banks are full with a third packet refused; a ring of
3 and banks of 2 make it fill with a bank half drained; short packets and empty
packets occur. The run takes its module from the proofs, so that `IInv` is the invariant
proved there. The part "out" of `usb` uses a ring of 2 and 3 bytes, and checks
that the sketch catches up.

*AckWindow.* `handleEndpoint()` releases the endpoint before it acknowledges
TRCPT0. If a packet completed in between, its flag would be cleared, the handler
never run for it, and the endpoint stay closed. Safety is checked and proved with that
window open (nothing is damaged or handed out wrongly, and nothing more comes in);
liveness is checked with it closed, because an OUT transaction takes at least about
6 us of bus time and the window about 0.5 us at 48 MHz.

*Configuration.* `initEP()` deletes the handler and constructs a new one in the
interrupt. The model assumes that the allocator returns the chunk just freed
(same size, no allocation in between), which makes the old `this` the new object;
with any other allocator the sketch would read freed memory. Between calls this
is right (`BanksAgree`). Inside a call it is not (`reconfigure_race`): the
constructor hands `data0` to the peripheral while the sketch's loop copies from it.

### Control endpoint and modules (`usb`)

`SET_ADDRESS` and `SET_LINE_CODING` wait for the host inside the USB interrupt,
for flags that a transfer before them may have left set, because the handler
acknowledges them only when it runs again. `WaitsAreForThisRequest` says that
what they wait for is always their own stage, `HostAndDeviceAgree` that address
and configuration are what the host believes, through bus resets between any two
stages. Both rest on two assumptions, in the header of `UsbControl`: the host is
slower than the few instructions from the last `epBank1SetReady()` to the end of
the handler, and it does not give a transfer up while the handler waits. (If it
did, the handler would wait until the host's next transfer, with every interrupt
of the same or a lower priority off.) A bus reset is served before the next SETUP: one
that the handler finds together with the SETUP behind it is not modelled.

The requests are those with a branch of their own, those that are refused (a
GET_DESCRIPTOR of an unknown kind among them, `USBCore.cpp:239`) and those that fall
through to a `return true` (`Unhandled`): another feature, an unknown standard request
(`USBCore.cpp:783`, 824), another class request to the port (`CDC.cpp:145`). The last
arm nothing, and are answered with as many bytes as the answer before left in the
count, whatever is in the buffer (`CountFor`). The model keeps that count; no property
is about what such an answer holds, and none says that an answer stays within the
length the host asked for. A SET_CONFIGURATION of 0 takes the configuration back.

`UsbModules` plugs modules in any order of their constructors. `DescribedAsIs`:
the interfaces are numbered without gap or overlap, as many as the descriptor
counts, and every endpoint gets the type of the module that owns it; a module
that has no room left is refused. `armSend()` copies an answer of any length into
a buffer of 64 bytes: an answer of up to 256 bytes runs on into the buffers of the
next endpoints. `NothingSpilled` says that no waiting packet is rewritten **if the
serial port is plugged first**, whose first two endpoints send nothing that
matters; otherwise it is. Not modelled: `_cdcComposite` in `sendDescriptor()` is
read uninitialised unless the host has asked for 8 bytes (`USBCore.cpp:193`,
214), so which of two device descriptors is sent depends on the stack.

*Bounds.* Two addresses, one configuration, four requests and one bus reset: two
transfers leave flags for two more. Four modules, more than there are endpoints.

### IN endpoint (`usb`)

`send()` waits for the previous transfer by looking at TRCPT1 after it has
tested BK1RDY; after a timeout it abandons the packet and fails at once until
the bank is free. `PacketsStable` says that a late transfer of an abandoned packet
never turns into a repeated or a rewritten one and that no byte is lost but by a
timeout or a clear, `Recovers` (in `CallsEnd`) that the fast failures end.
`FrameInterrupt` is the acknowledgement of all pending flags by `ISRHandler()` for
an endpoint without a handler object, which any USB interrupt performs, start of
frame included. It causes `in_wait`: the completion `send()` waits for is
acknowledged under it, and it waits for its whole timeout with the bank free.

One more window is excluded by the history variable `raced`: a transfer that
completes inside `clear()` after its acknowledgement leaves TRCPT1 set, and the
next `send()` takes the empty packet that `clear()` made ready for sent. Without
that exemption `CacheStable` and `InOrder` fail; so what can go wrong when a late
transfer meets `clear()` is named here and caught by no property.

*Bounds.* Packets of 2, sends of up to 3 bytes (so one send spans packets), 5
bytes, a timeout of 2 iterations, one `clear()`. Not modelled: the early returns
for a device without configuration and for `len > 16384`.

### Serial port (`usb`)

The endpoint is replaced by its abstract specification, which `UsbOutEndpoint`
is proved to implement: `recv(n)` returns any number of next bytes. On top,
`_serialPeek` holds a byte back, `readBytes()` loops on `recv()` until its
timeout, and a bus reset may take the configuration away anywhere.

`readBytes()` adds the -1 of an unconfigured `recv()` to its unsigned count
(`serial_count`). The runs use a word of 8 values for the 2^32 of `size_t`, more
than any count reached. `disturbed` marks a behaviour in which this happened with
bytes placed, after which the order of the overwritten bytes is not claimed; that
no byte comes twice is claimed always. `readBytes()` also does not look at
`_serialPeek`: a peeked byte comes after the bytes `readBytes()` takes (contrast
`core/api/Stream.h:97`), which `OnceAndInOrder` allows explicitly.

### UART (`core`)

`write()` goes to DATA directly if DATA and the buffer are empty, otherwise
through the buffer, and serves the interrupt itself when interrupts are masked
and the buffer full. `TransmitterSound`: bytes in order, and whenever a byte waits
somebody will send it (the handler disables its interrupt only when it finds the
buffer empty, `write()` enables it after storing). `UartEnds`: calls return, all
bytes are sent. A buffer of 3 and 8 bytes fill, drain and wrap. `flush()` is called
only with interrupts on (with them masked it never returns, by construction of
the API). A second writer in a handler of higher priority is not modelled: it can
write DATA between the wait for the empty register and the write
(`SERCOM.cpp:193`).

`RxSound` says that de-asserting RTS at the threshold leaves room, although
`read()` asserts RTS on a check that received characters may have made stale. It
rests on two named assumptions: `Slack` (characters the sender still sends after
RTS is de-asserted), and `Stall` (handler runs between the check and the
assertion: at most the two characters the FIFO holds). It needs `Enough`, which is
`FifoSize + Slack <= Threshold` (what the FIFO holds when RTS is de-asserted still
has to go into the buffer) and `Slack + Stall + 1 <= Threshold`; for the real
threshold of 10 and a FIFO of 2 that is a sender with at most 7 characters in
flight. Framing errors are the status of the
character at the head of the FIFO (comment at `core/Uart.cpp:94`). Only the head
is checked, so a bad character right behind another bad one reaches the sketch:
`BadOnlyBehindBad` says that is the only case. `RxSound` does not say that no character is
lost: the FIFO may overrun while the handler is late, and bad characters are discarded; it
says that nothing is lost in another way.

### External interrupts, SPI, tone and time (`core`)

With `Guarded` the sketch calls `attachInterrupt()` and `detachInterrupt()` with
the interrupts masked: then `InterruptsSound` holds. Without, `OwnCallback` is
violated (`exti_list`): a line is attached, detached (by the sketch or by its own
callback) and attached again. `nints++` exposes the place at the end of the list, which
still holds the line with its old callback; an edge of the line enters `EIC_Handler()`
there, and the callback that was detached is about to run. The code does call it
unmasked: `StampLowPower.cpp:242`.

INTENSET is changed with `|=` and `&= ~`, a load and a store of their own each
(`AttachLoad`/`AttachWakeup`, `DetachLoad`/`DetachStore`): as a register that sets bits, it
sets again what the load found. A transaction masks the lines of SPI's mask, or, once
`usingInterrupt()` was told of an interrupt that is no line (SPI_IMODE_GLOBAL,
`SPI.cpp:132`), all interrupts through PRIMASK (`UsingGlobal`, `BeginTransaction`,
`EndTransaction`); `notUsingInterrupt()` cannot take that back. Two exemptions are in the
properties. `shifted`: a callback that detaches its own line makes the handler clear the
flag of the line that moved into its place, and that edge is lost. And a line of which SPI
was not told runs the handler within a transaction, and with it the callbacks of all lines
whose flag is set, those of SPI's mask included (the handler does not look at INTEN). A NULL
callback, for a wakeup, enables the interrupt (`WInterrupts.c:80`) without an entry of the
list that would clear its flag (all of the rest, the mode of the line included, stands
inside `if (callback)`, although the comment at `WInterrupts.c:86` announces "all needed
register"): after an edge at such a line the handler is entered for ever and the sketch does
not go on, although the comment there says that the line "won't service the interrupt";
`HandlersServe` exempts the states in which that has happened (`NeverCleared`).

`ToneSound` and `ToneEnds`: the pin of no other tone is high, a tone with a duration has all
its changes and ends, and the timer comes round in half a period of the frequency that was
asked for (`PlaysFrequency`). The last does **not** hold where the search ends with a
divisor of 16, 64 or 256, which the property exempts: behind the loop `i` has been stepped
over 4, 6 or 8, the `switch` is on `i-1`, which has no such case (`Tone.cpp:106`), and the
prescaler stays DIV1, although the comment at `Tone.cpp:91` announces the "best prescaler
divider and comparator value". With a timer clock of 48 MHz and a 16-bit counter a tone of
20 Hz, for which 64 is chosen, comes 64 times too fast. `stray` marks the case of `noTone()`
and a second `tone()` on the same pin, after which `toneIsActive` is false and a tone on
another pin does not stop the first (`Tone.cpp:154`); a duration whose product wraps at
`Word` is exempt, and frequencies above the maximum, whose quotient is 0, are outside of
`ToneAssumption`. So is a clock so fast that even the largest prescaler leaves a period
above the top of the counter: the search of `tone()` would not end (24 MHz / 1024 is 23437,
the top 65535). *Bounds.* Two pins, four calls; frequencies whose search ends without a
divisor, with one that is set and with one that is not, `Word = 512` so that one of the
products wraps.

`InWindow`: what `micros()` returns are the microseconds of a time between its call and its
return, as the multiplication and the shift of `delay.c:58` make them of the clocks (`Us`,
rounded down), with interrupts on, masked (the tick that is pending is counted once) or in a
handler. In a handler of a priority above SysTick, entered while the tick handler has begun,
it may be one period behind; the property says so. `DelayLasts`: `delay()` takes at least
what it was asked for in these microseconds, across the wrap; of true time it may miss what
the scaling rounds off, less than one microsecond at each end. `MaxStolen` bounds the clocks
that others take within one reading; `MicrosAssumption` asks that they, and the six reads,
are fewer than the microseconds need to go round (71 minutes), and that the clocks of a ms
scale to less than a ms. `Clock` assumes that handlers and masked stretches are shorter than
a tick: two ticks pending as one no protocol could tell. *Bounds.* A period of 8 clocks and
of 4 microseconds, a word of 9 of them (not a multiple, as 2^32 is none of 1000), 27 clocks:
over three periods and one wrap.

### I2C, clock, sleep and text (`libraries`)

Slave: the handler may be late, so the flags of a stop and of the next address come
together. `ReportsOneWrite`: `onReceive()` finds the bytes of one write that were
acknowledged, never of two. `FreshAnswers`: the master never reads bytes of an
earlier request, but when the stop before was still unserved (`joined`): the branch
of the stop then answers the address too, and `onRequest()` is not called at all.

Master: the slave answers, refuses or holds the clock until the timeout, and another
master takes the bus or wins it. `SuccessIsDelivered` exempts two cases that the code
does not see: arbitration lost with the last byte, and with the address when there is
nothing to send, because `startTransmissionWIRE()` drops the result of its second try
and then looks at the status bits (`SERCOM.cpp:542`). `BusReleased` exempts a request
of one byte, where `busOwner` has no value (`Wire.cpp:102`): the model lets it have
either. `requestFrom()` counts a byte although `rxBuffer` is full and `store_char()` drops it
(`RingBuffer.h:76`, 256 bytes; `BufSize = 2` in the run): the model drops and counts it too, and
`ReadIsReceived` claims only the bytes that fit. So a request of more than 256 bytes says that
it has read what cannot be read; no property is against it.

Clock: fields are written one by one while the seconds go on, and each is a read and a write
of the whole register (`RTCR34.cpp:222`), so that a tick between the two is undone.
`TimeIsSet`: the time set is the time kept, or one second more, unless second 59 is set,
whose carry goes wrong. `SleepEnds`: the alarm for a whole second in the future is armed
before it comes, for sleeps of at least one second and a clock that does not reach the end
of its calendar. What `sleep()` does behind WFI, starting the clocks again and waiting for
them, is one step (`Wake`) without fairness: it waits for a bit to read 0 that it has just
set (`StampLowPower.cpp:141`), which only the hardware could end, so that nothing is claimed
of the way out of a sleep. That it detaches and attaches USB is left out. Seen in the code
and not a property: `begin(false)` is to keep the time over a reset and reads it after the
software reset of the RTC (`RTCR34.cpp:51`, 68), so it keeps nothing; `setBackup()` and its
counterpart mask the count with 3, so that four values, of which their comment speaks, are
none (`RTCR34.cpp:500`).

Text: `TakesWhatItFinds` compares `findMulti()` with its definition over all texts of up to
five characters of two letters and pairs of strings, `parseInt()` over texts with signs,
separators and digits (the number is a `long`: one that it does not hold wraps,
`Stream.cpp:149`, and is not claimed), and `readBytesUntil()`; a timeout may come before any
character. `PrintsTheDigits` compares both ways of printing with the number, on both sides
of zero, of a chunk and of the largest number, in bases of which `printNumber()` gets the
low byte (`Print.cpp:240`, 283: base 266 prints as base 10); the long long 0 is exempt,
which prints nothing (`Print.cpp:319` has no digit to write; the reference version in the
comment above prints "0"). `ReplacesOnce` compares `replace()` with replacing each
occurrence of the original text once (`Substituted`, from left to right). It says nothing of
a shorter replacement and an even number of occurrences (`CountedAsNone`): the comment at
`String.cpp:663` says "compute size needed for result", but the difference changes its sign
at every occurrence (666), the size comes out as it was, and `replace()` returns with
nothing replaced. The code is wrong there, and the property would hold of a repaired one.
Strings that overlap themselves are outside of `StringsAssumption`: the way back then
replaces other occurrences than the way forth has counted.

### The life of a board (`bootloader`, part "board")

`tickReset()` loads `ticks` once and stores it once, as the compiler produces
for the non-volatile variable, and the USB interrupt preempts it.
`ErasedAfterDelay` holds as long as no request falls in between (`overtaken`); when
one does, the cancellation is overwritten and the application erased with the port
open (`autoreset_lost`). `SerialUSB.end()` clears the line's data without cancelling a
countdown. A SET_LINE_CODING of 1200 on a port never opened starts the countdown too
(the code tests state, not the step from open to closed); `Closed` is therefore
defined on what the host last asked for. A build linked without a bootloader resets
without erasing (`APP_START` below 0x204); the model is of the build with one.

After the reset: `CheckStart`, the wait for a second tap, the monitor that erases a
row at a time, the vectors first, and writes a page at a time, the sketch again.
A press of the button or a power failure (which may or may not keep the RAM) comes at
any step, a host can stop between two commands. `NeverMixed`: the application that
starts has no page of the old one beside new or erased ones. It does **not** say that
it is complete: the vectors are written first, so an upload cut short behind page 0
starts an incomplete application (`main.c:69` looks at the vectors only).
`OnlyTwoTaps`: with an application in flash the monitor starts only at a second reset
since the application ran. `TouchReachesMonitor`, `UploadEnds`: a touch leads to the
monitor, every upload to an application.

*Bounds.* A countdown of 2 for 250, two requests and one `end()` per start of the
sketch, 4 pages in 2 rows, 3 resets: one in the erasure, one in the writing, one in the
wait.

### XMODEM, monitor and port of the bootloader (`bootloader`)

Both directions implement `Transfer`: each block is delivered once and in order, the sender
never believes more than was delivered, and success means all of it. Packets and answers are
lost, damaged and repeated, three times. In the direction to the host the *bytes* are right
only as long as no block was repeated (`ExactUnlessRepeated`): `putPacket()` counts
`size_of_data` down for the repetition too (`xmodem_repeat`), which then ends a block too
early. With 5 bytes in blocks of 2 the ACK of block 1 is damaged, block 1 is sent again as
it was (`<1,2>`), and the first sending of block 2 is `<3,0>`; or block 2 is damaged and its
repetition is `<3,0>`: which of the two TLC reports depends on its workers. In the other
direction `AcceptedIsExact` holds although `getbytes()` stores before it knows the checksum.
Both hold for lengths that fit `size_of_data` (`SizeHolds`): it is a `uint16_t`
(`sam_ba_serial.c:46`) that takes the 32-bit length (286, 426), so that a longer transfer
sends zeros, and acknowledges bytes that it does not store, once it has come down to 0; the
model keeps it modulo `SizeMod`. A length of 0 (a transfer without a length) is left out.
Block numbers have 3 values and blocks 2 bytes, with 5 bytes to send: the number wraps and
the last block is padded.

`AsCommanded`: between two commands memory and answers are what the commands that were taken
make of them, those and no others, for a host that ends a packet with each `#` and with the
data of `S` (`Flushes`), as the uploading programs do, and cuts what is longer than a
packet. Without that, `monitor_split`.

`PortSound`, and `RequestsEnd` and `PacketsAnswered` in `LoopsEnd`: the polled port
agrees with the host on address and configuration through bus resets, answers each packet
once and every request. Exempt (`orphaned`): after a second SET_CONFIGURATION while
`read_job` is set the endpoint is closed and nobody opens it (`board_driver_usb.c:347`).
Also seen: GET_STATUS of an endpoint tests `wIndex & 80` where 0x80 is the direction
(`sam_ba_usb.c:270`), so the status of one direction is reported for the other at some
endpoints; `HostAndDeviceAgree` claims it for the OUT endpoint only. `USB_Write()` waits
without a timeout: a host that stops reading stops the bootloader.

### Deadlock

The runs of several modules and those of `UsbInEndpoint`, `AutoReset`, `ExtInterrupts`,
`XmodemSend` and `MCMonitor` switch the deadlock check off: at their bounds nothing is
left to do (all bytes sent, a call returned, the script at its end, a system reset).
That no call hangs is stated as liveness there. The others keep the check.

## 4. Fairness

- Steps of a call and of interrupt handlers are fair: the processor runs. For
  the sketch it is strong fairness where interrupts may disable a step again and
  again, because each handler is far shorter than the interval between two
  events that raise it (a packet, a character, a millisecond).
- The sketch keeps calling `recv()` (or `read()`, `send()`) where a property is
  about what happens if it does.
- The host keeps polling an IN endpoint and does not reject every packet
  (strong fairness of completion: a line that never carries a packet is a dead
  one); it goes on with a control transfer it has begun, and sends a start of frame
  every millisecond. It need not begin one.
- A sketch does not keep interrupts masked for ever, and ends the transactions of SPI
  that it begins (they may mask all interrupts); an enabled interrupt is
  taken; shift registers shift; SysTick and the clock tick.
- I2C: only the steps of the driver are fair. The slave and the other master owe
  nothing; the timeouts are what ends a call.
- XMODEM: device and host are fair, the line is not; faults are bounded. An
  uploading host goes on until it is stopped; presses, power failures and given-up
  sessions are bounded.
- The host is under no obligation to send, to open or to close the port.

## 5. Proofs

Seven modules, `*_proofs`, and `FoldLemmas` hold what TLAPS proves: for every value of the
constants that the named assumptions of the modules allow, every number of steps, and every
bound. Constants such as `MaxBytes` or `MaxRequests` bound the runs; the theorems hold for
every value of them. The others are sizes of the code.

| module | theorem | statement |
|---|---|---|
| `UsbOutEndpoint_proofs` | `Invariance`, `TypeCorrect` | `Spec => []IInv`, `[]TypeOK` |
| | `Ownership` | `Spec => [](NotFilledWhileReady /\ NotifyExact /\ BanksInOrder)` |
| | `Conservation` | `Spec => []NothingLost` |
| | `BankStability` | `Spec => ReadyBankStable` |
| | `Implementation` | `Spec => StreamSpec`: the endpoint implements `UsbStream` |
| `UsbDevice_proofs` | `Reconfiguration` | `CallsDone` implies `RSpec => []BanksAgree` |
| | `ControlInvariance`, `ControlTypes` | `Control!Spec => []CInv`, `[]Control!TypeOK` |
| | `Agreement` | `Control!Spec => []HostAndDeviceAgree` |
| | `OwnWaits` | `Control!Spec => WaitsAreForThisRequest` |
| | `SendingInvariance`, `SendingTyped` | `In!Spec => []SendingInv`, `[]In!TypeOK` |
| | `PacketsKept` | `In!Spec => PacketsStable` |
| | `SerialInvariance`, `SerialTyped` | `Se!Spec => []SerialInv`, `[]Se!TypeOK` |
| | `StreamReaches` | `Se!Spec => OnceAndInOrder` |
| | `BreaksReach` | `Se!Spec => BreaksKept` |
| | `ModulesInvariance`, `ModulesTyped` | `ReportsFit` implies `Mo!Spec => []ModInv`, `[]Mo!TypeOK` |
| | `ModulesAgreeWithHost` | `ReportsFit` implies `Mo!Spec => []ModulesAgree` |
| | `DeviceTypes` | all parts together: `[]TypesOK` |
| `Uart_proofs` | `RxInvariance`, `RxTypes` | `Spec => []RxInv`, `[]TypeOK` |
| | `ReadsInOrder` | `Spec => [](NoneVanishes /\ BadOnlyBehindBad)` |
| | `NeverOverflows` | `Enough` implies `Spec => []RxSound` |
| | `TxInvariance`, `TxTypes` | `Tx!Spec => []TxInv`, `[]Tx!TypeOK` |
| | `TransmitsInOrder` | `Tx!Spec => []TransmitterSound` |
| `Core_proofs` | `Invariance` | `Guarded` implies `Ext!Spec => []IInv` |
| | `InterruptsAreSound` | `Guarded` implies `Ext!Spec => []InterruptsSound` |
| | `ToneInvariance` | `Tn!Spec => []TInv` |
| | `Tones` | `Tn!Spec => ToneSound` |
| | `TimeInvariance`, `TimeTypes` | `Mi!Spec => []TimeInv`, `[]Mi!TypeOK` |
| | `TimeIsRight` | `Mi!Spec => TimeRight` |
| | `CoreTypes` | `Guarded` implies, for all parts together, `[]TypesOK` |
| `Libraries_proofs` | `MasterInvariance`, `MasterTypes` | `Spec => []MasterInv`, `[]TypeOK` |
| | `MasterReports` | `Spec => []MasterSound` |
| | `SlaveInvariance`, `SlaveTypes` | `Slave!Spec => []SlaveInv`, `[]Slave!TypeOK` |
| | `SlaveReports` | `Slave!Spec => []SlaveSound` |
| | `RtcInvariance`, `RtcTypes` | `Rtc!Spec => []RtcInv`, `[]Rtc!TypeOK` |
| | `SetTimeSetsTheTime` | `Rtc!Spec => TimeIsSet` |
| | `PrintInvariance`, `PrintTyped` | `Nu!Spec => []PrintInv`, `[]Nu!TypeOK` |
| | `PrintsDigits` | `Nu!Spec => []PrintsTheDigits` |
| | `TextInvariance`, `TextTyped` | `Tx!Spec => []TextInv`, `[]Tx!TypeOK` |
| | `TakesWhatIsFound` | `Tx!Spec => []TakesWhatItFinds` |
| | `StringInvariance`, `StringTyped` | `St!Spec => []StringInv`, `[]St!TypeOK` |
| | `ReplacesEachOnce` | `St!Spec => []ReplacesOnce` |
| | `LibraryTypes` | all parts together: `[]TypesOK` |
| `Monitor_proofs` | `MonitorInvariance`, `MonitorTypes` | `MonitorAssumption` and `Flushes` imply `Spec => []MonInv`, `[]TypeOK` |
| | `DoesAsCommanded` | `MonitorAssumption` and `Flushes` imply `Spec => []AsCommanded` |
| `Bootloader_proofs` | `CycleInvariance`, `CycleTypes` | `LSpec => []LInv`, `[]LTypeOK` |
| | `ErasureWaits` | `LSpec => []ErasedAfterDelay` |
| | `ApplicationWhole` | `LSpec => []NeverMixed` |
| | `TwoTaps` | `LSpec => OnlyTwoTaps` |
| | `SendInvariance`, `SendTypes` | `Put!Spec => []SendInv`, `[]Put!TypeOK` |
| | `SendsTheData` | `SizeHolds` implies `Put!Spec => []Put!ExactUnlessRepeated` |
| | `Sends` | `Put!Spec => Put!SendTransfer`: sending implements `Transfer` |
| | `ReceiveInvariance`, `ReceiveTypes` | `SizeHolds` implies `Get!Spec => []ReceiveInv`, `[]Get!TypeOK` |
| | `ReceivesTheData` | `SizeHolds` implies `Get!Spec => []Get!AcceptedIsExact` |
| | `Receives` | `SizeHolds` implies `Get!Spec => Get!ReceiveTransfer`: receiving implements `Transfer` |
| | `TransfersAreRight` | `SizeHolds` implies `Put!Spec /\ Get!Spec => BlocksOnceAndInOrder` |
| | `PortInvariance`, `PortTypes` | `Port!Spec => []PortInv`, `[]Port!TypeOK` |
| | `PortIsSound` | `Port!Spec => []PortSound` |
| | `MonitorObeys` | `Mon!Spec => []AsCommanded`, for the monitor of `Bootloader`, whose host flushes |
| | `BootloaderTypes` | `SizeHolds` implies, for all parts together, `[]TypesOK` |

*From which assumptions.* The named ASSUMEs of the modules (TLC evaluates each in a run),
and six hypotheses that the theorems state and the runs satisfy: `CallsDone` (the host
selects a configuration between two calls of the sketch; `reconfigure_race` shows that it is
needed), `Guarded` (the sketch masks the interrupts around `attachInterrupt()` and
`detachInterrupt()`; `exti_list` shows that it is needed), `Enough` (the threshold of RTS
covers what still comes; the FIFO may still overrun, and bad characters are dropped),
`SizeHolds` (the length of a transfer is below 65536), `ReportsFit` (the report descriptors
fill at most the three buffers of 64 bytes that send nothing; a longer one is not asserted
to spare the packets behind them, nor does it) and `Flushes` (the host ends a packet with
each line and with the data of `S`; `monitor_split` shows that it is needed). For XMODEM the
theorems also state the assumptions on its constants. A property that exempts a case
(`raced`, `disturbed`, `stray`, `shifted`, `overtaken`, `repeated`, `joined`,
`CountedAsNone`, a prescaler that is not set) is proved with that exemption, which section 3
explains.

*Along which argument.* None of the properties is inductive: each says what is true
when a call has ended, while the invariant has to say what is true at every step inside
it. The proof of each invariant has one lemma per action, and is cited by name in the
theorem.

- `UsbOutEndpoint`, `IInv = TypeOK /\ Shape /\ Content`. `Shape` says who owns which
  bank, in terms of `Draining` (the bank the sketch is at, corrected for the step
  between `SwapBank` and `FreeBank`) and `Other`: the descriptor points to `incoming`,
  an interrupt still to be served means a closed endpoint, the sketch in its loop owns a
  ready bank, `room` and the ring buffer add up, drained positions are reset. `Content`
  says which bytes are where: the ring buffer holds the bytes after `got`, the drained
  bank the next, the other bank the next, the packet in the hardware the next.
  Ownership follows from the first, conservation and refinement from the second:
  `recv()` returns a prefix of the ring buffer, hence the next bytes of the stream.
- `UsbReconfigure` adds one action to it; between two calls the new handler object
  satisfies `IInv` again, with the stream starting anew.
- Control endpoint, `CInv`. `Protocol` says for each place of a request (not yet asked,
  in the bank, answered, waiting in `setAddress()` or in `recvControl()`, bus reset not
  yet served) which of the hardware's flags can be set. That makes a flag found by a
  wait its own: no flag of an earlier transfer survives to where one waits for it.
- IN endpoint, `SendingInv`. `BankOwned` says who may touch the bank, `PacketsHeld` that
  its bytes are the last `byteCount` of those armed, both as long as no late transfer
  raced (`raced`); `Accounted`, which is about every behaviour, is carried along.
- Serial port, `SerialInv`. `PlacedInOrder` says that `readBytes()` has placed a run of
  bytes without gap, all newer than everything returned, and as many as it counts, or
  that its count is one below zero; `ReturnedOnce` that the returned bytes are distinct
  and not the peeked one; `BreakMasked` that nothing changes `breakValue` between its
  read and its reset.
- UART. Receiver, `RxInv`: the numbers in the buffer and the FIFO grow, every character
  not yet read is in one of them or in the set that explains its absence, and there is
  no unexplained gap. `StopsInTime` adds the room: with RTS asserted the buffer leaves
  room for the FIFO and the slack, and in the step between the check of `read()` and the
  assertion it is at most `stall` characters fuller than when it was checked.
  Transmitter, `TxInv`: line, shift register, data register, buffer and call hold
  consecutive bytes, and the tests of `write()` and `flush()` are still true when used.
- External interrupts, `IInv`: the list is right but for one place (`Hole`), which the
  call in hand is rewriting: its mask and its callback may be of two lines (`HalfWritten`
  says which), and the line of the call is nowhere else. With the calls masked the
  handler never meets a hole. That a new entry has an element needs the pigeonhole
  principle: the entries are different lines (`RoomForEntry`).
- Tone, `TInv`: the tone a call would stop is the one that plays, and the toggles it has
  had and those left add up to its duration. That the timer is the one its frequency asks
  for (`Tuned`) is an invariant of its own; the rest is the arithmetic of a quotient
  (`Rounded`) for each turn of the search (`InTune`).
- Time, `TimeInv`. The count, the flag and the handler's own tick make the ticks of the
  true time (`Ticked`, modulo the word). `ReadsSince(s)` says of what `micros()` has read
  so far that it was right at times after `s`, in this order: counter, ticks, counter,
  ticks. If the ticks of both readings are the same, no tick can have begun between
  them (`OneCount`: the word does not go round within a reading), so a counter that has not
  started again belongs to them (`Reading`). `DelaySince(s)` says that `start` stands for
  a true time `s` by which at least the ms counted so far had passed.
- I2C. `MasterInv`: at each place of `endTransmission()` and `requestFrom()`, who owns
  the bus, what the hardware works on, and where arbitration was lost if it was.
  `SlaveInv`: the flags and the master's place on the bus go together, and the buffers
  hold the bytes of one transfer.
- Board, `LInv`: `ticks` (or the copy the tick handler has in a register) and the age of
  the request add up to the delay; the mark of the first tap is in RAM only after a tap;
  nothing is written before all is erased, and pages are written in order. `Unmixed`
  carries `NeverMixed` through the states in which nothing is started.
- Modules, `ModInv`: the sums over the list of modules are the counters of `plug()`, every
  interface and every endpoint below them is that of exactly one module, and so the
  length of a descriptor is bounded by the endpoints taken. That a module plugged later
  adds to a sum, and changes no other, is an equation of the fold (`SumAppend`).
- Clock, `RtcInv`: the fields that `setTime()` has written hold what it was given, and
  the seconds that much more as the clock has ticked since (once at most); a carry into a
  field not yet written is overwritten. The rest is arithmetic of a date and its epoch
  (`DateOfEpoch`).
- `print()`, `PrintInv`: the digits in the buffer, the remainder that is being divided and
  the number that is left make the number (`Split`, with the power of the base that the
  chunk stands for), and the digit in front is none that would have been left out.
- `Stream`, `TextInv`: of each string, `findMulti()` knows the longest beginning that the
  characters taken end with (`Longest`). A character that does not fit makes it walk back
  through all shorter ones that could be ends (`Shorter`), so none is missed.
- `String`, `StringInv`. The rest of a text from a place on is what becomes of it when
  every occurrence from there is replaced (`RestOf`). With a replacement of the same
  length, what is done and the rest are the whole; on the way forth, the size counted, the
  place and the length of the rest add up, or, if the text gets shorter, the size says
  whether the occurrences passed are even; on the way back, the text is the old one up to
  the place and the rest behind it, and the capacity bounds its length. That the
  occurrences in front of the place are still those of the old text is where
  `StringsAssumption` is needed (`Apart`: no end of what is found begins it, or its
  replacement).
- Folds. What `FoldLeft` computes is proved in `FoldLemmas` by well-founded induction over
  the finite sets of indices, and then used through its two equations; a value of digits
  is a chain of such steps (`IsFold`).
- XMODEM: the receiver is at the block that is sent or one ahead of what its sender
  knows, and block number and what is on the line say which. The refinement of
  `Transfer` maps a delivered block to `Deliver` and its acknowledgement to `Confirm`.
- Monitor, `MonInv`. `NextCharacters`: what is in the packet and in the buffer are the next
  characters of the script, without the end of a line or of a command inside. `Place`
  says where the parser is: between two commands, behind a character of a line (with the
  part of address and number that it has), or in the bytes of an `S` command, as many as
  `todo` says. The character that comes at each place is then known, and so is the
  action that takes it. The characters and the effects of the first commands are folds;
  one command more is one step more (`AddedIsFold`, `DoneIsFold`).
- Port of the bootloader, `PortInv`. `Asking` and `Answering` say what belongs to a
  request before and after the device has seen it; `Agreed` compares the two sides also
  while an answer waits, with the address the device will have when its wait is over
  (`Meant`), and excepts only a bus reset not yet looked for; `Passing` says that one
  packet or its answer is under way, the last one sent, so that the answers are a count.

*Only model-checked.* Liveness (`CallsEnd`, `UartEnds`, `HandlersServe`,
`LibraryCallsEnd`, `UploadsEnd`, `LoopsEnd`) needs fairness and ENABLED, which the
installed provers do not reach. The safety properties of the passing runs are all theorems.

## 6. Plan

Done: the USB device, the UART, the interrupt lists, tone and time, I2C, the clock
and the sleep, text and numbers, the start of the board and the bootloader; the theorems
of section 5.

To model next: a second writer of the UART, the early returns of `send()`, the
commands R, G and Z of the monitor, the number conversions of `String`.

## 7. Not modelled

Register-level start-up, clock and pin configuration, analog and digital I/O,
board tables, the USB host driver (register access for a stack that is not in the
repository), AES and the chip identifier have one context and no protocol. Most lines
of the repository are data: `libraries/SDU/src/boot` and the bootloader updater hold
prebuilt binaries as tables of numbers, `bootloaders/r34/build` is a build's output.
Headers of register definitions and board definitions are constants. The indices of
`RingBuffer` are abstracted to a sequence with a capacity: `SafeRingBuffer` makes each
operation atomic, and the endpoint uses `RingBuffer` from one context only.
`_available()`, the flush of the IN endpoint (it looks at the count of bank 0, which
stays 0) and code behind disabled conditions are left out. Floating point (`parseFloat`,
`print` of a double) has no counterpart in TLC.
