# PiCMD: TLA+ specifications, model checking and proofs

PiCMD turns a Raspberry Pi 3 into a CMD HD, the SCSI hard disk of the
Commodore 64: it runs the drive's own 6502 firmware, emulates the chips around
it, serves the SCSI disk from an image file on the SD card, and moves the IEC
lines in real time. This directory holds a model of the parts of it that are
hard to test, the TLC runs that check them and the proofs TLAPS checks.

    tlc -workers 2 -config DiskCache.cfg MCDiskCache.tla     # one run
    tlapm DiskCacheProofs.tla                                # the proofs of one module

`PROJECT.json` lists the runs, what each one checks, the source lines each
definition stands for, the hazards, the findings and the theorems. Paths below
are relative to the program's `src/` unless they begin with `uspi/`.

## 1. Inventory

| Component | Source | State it keeps | Operations |
|---|---|---|---|
| Disk cache | `emulation/scsi.cpp` 1-595, `scsi.h` | 64-entry table of attached images; direct-mapped, two-way slots (valid, image id, chunk, valid and dirty masks, data); per image: FIL, read-only, size, `needSync`, `writeErrorPending` | Attach, Detach, ReadSector, WriteSector, ReadSectorUncached, ReadSectorPhysical, Sync, FlushSome, FlushAll, TakeWriteError |
| SCSI target | `emulation/scsi.cpp` 597-1681 | bus phase, CDB, data buffer and position, status, sense, link flag, the image of the selected target | one step per transition of the RST, SEL, ACK lines |
| CMD HD | `emulation/picmdhd.cpp` | ROM/RAM map, latch U20, ports, buttons, disk table, `baselba`, `scanNeeded` | Reset, Insert, Eject, FindBaseLBA, companion read/write/format, buttons, Read, Write |
| 8255A, RTC | `emulation/i8255a.cpp`, `rtc72421.cpp` | port latches and directions; clock registers | Read, Write |
| Emulation loop | `main.cpp` 900-1250 | quiet-loop counter, flush back-off, reset counter | one iteration per emulated microsecond |
| Screen | `main.cpp` 347-845, `ui/ssd1306.cpp`, `rpi/rpi-i2c.c`, `rpi/spinlock.cpp` | spin lock, frame, the copy of what was sent, panel memory | core 0 draws lamps and track, core 1 lists and messages |
| Options, boot | `options.cpp`, `main.cpp` 1680-1879 | settings; files found | Process, kernel_main |
| SD driver | `rpi/emmc.cpp`, `rpi/diskio.cpp` | controller and card state | CardReset, DoRead, DoWrite, disk_read, disk_write |
| IEC bus | `emulation/iec_bus.*` | sampled and driven lines, ATN acknowledge gate, debounced buttons | ReadEmulationMode, RefreshOuts, UpdateButton |
| VIA 6522 | `emulation/m6522.*` | timers, latches, IFR, IER, handshake lines, shift register | Read, Write, Execute, Reset |
| 6502 | `emulation/m65c02.*` | registers, the cycle of the instruction | Step, Reset |
| File browser, inputs | `ui/filebrowser.cpp`, `ui/inputmappings.cpp` | folder, list, highlight, caddy, key and button flags | navigation, Select, Insert, WriteProtect, AUTOLOAD |
| USB, kernel timers | `uspi/lib`, `rpi/timer.c` | channels, stages, endpoints, requests, 20 timers | enumeration, control messages, Bulk-Only Transport, keyboard interrupt |
| FatFS | `fatfs/ff.cpp` (vendored) | window, FAT, directory, open file | f_open, f_read, f_write, f_lseek, f_sync, f_rename, f_unlink |
| Firmware update | `main.cpp` 1560-1679 | the kernels on stick and card | UpdateFirmwareToSD |
| HDMI screen, board support, stb_image | `ui`, `rpi`, vendored | pixels, registers | |

How they meet. Core 1 runs the emulation loop: each turn samples the IEC bus,
steps the 6502, whose stores reach the VIAs, the 8255A and the RTC; a store to a
8255A port drives the SCSI lines, and the target's answer to it (`scsi_process`)
calls straight into the disk cache, which calls FatFS and waits for the card.
While it waits the IEC bus is still served (`ServiceIECWhileCardBusy`). When the
bus stays quiet the loop flushes the cache. Core 0 draws the status screen from
the same state and takes interrupts for USB and the kernel timers. Only the
screen is protected by a lock. Everything else is either private to core 1 or
read racily by core 0. Before that, core 0 alone starts the machine: it reads
the options, updates the firmware from a stick and looks for the ROM.

What makes it hard:

* writes are acknowledged out of RAM, and a write to the card may fail, in part,
  long after the host was told it was done, on behalf of an image that is no
  longer the one being accessed;
* the power is simply switched off, also in the middle of a firmware update;
* a flush takes time the IEC bus does not give, so it runs in budgeted pieces,
  retried with a growing delay;
* one command may be linked to the next, abort in any phase by RST, or find a
  deferred error of an earlier one;
* two cores share a frame buffer, an I2C controller and one lock with no owner;
* a card or a stick answers late, wrongly or not at all, is reset and tried again;
* the computer on the serial bus looks at the lines between any two GPIO writes.

What makes each component correct:

* **Disk cache** - a read of a sector returns the latest write of that sector; nothing
  acknowledged is lost except by a power failure or a failing detach, and then only what
  was in RAM or lies behind the end of the file the card has on record; each loss is
  reported; each call ends; flushes reach a clean state.
* **SCSI target** - phases follow the protocol, the buffer is never overrun, every
  CHECK CONDITION has its own sense data, no deferred error is dropped.
* **CMD HD** - the base address on record is that of the first configuration
  block of the mounted disk, whatever was written, formatted or reset; what the
  program reads at a port is what is there.
* **Emulation loop** - dirty data is written once the bus is quiet, never while
  it is not, the attempts never stop, and a failing card does not stall the drive.
* **Screen** - the cores draw at different times, and the panel shows what was drawn
  although only differences are sent; neither core waits for ever.
* **SD driver** - a sector that was read or written is the one asked for, whatever
  commands were lost, and a card that came back works again.
* **IEC bus, VIA** - every symbol on the lines is one the program meant, also for the
  instant between two GPIO writes; DATA answers ATN in time, the flags of the VIA
  say what happened, timers end when they should.
* **6502** - an instruction does what its description says; an interrupt is taken
  between two instructions and leaves the interrupted program as it was.
* **File browser** - the screen shows the folder that is open, and what is mounted is
  what the user saw highlighted, whatever was pressed or pulled.
* **USB** - driver and device agree on toggles, addresses and data after any retry;
  nobody is waited for in vain.
* **Firmware update** - there is a kernel to boot on the card at every instant, one
  that is put in place is complete, and the volume stays sound. What of this does not
  survive a rename that was cut short is in section 5.

## 2. The modules and the code

| Module | Models | Checked by | Proofs |
|---|---|---|---|
| `WriteBehindDisk` | the promise: a disk with a volatile cache | `DiskCache` refines it | |
| `DiskCache` | `scsi.cpp` 33-595, and of `ff.cpp` what an open FIL does | `MCDiskCache` | `DiskCacheProofs` |
| `ScsiTarget` | `scsi.cpp` 597-1681, `cmdhd_scsiformat` as a call | `MCScsiTarget` | `ScsiTargetProofs` |
| `ConfigBlock` | `picmdhd.cpp`: mounting, FindBaseLBA, SCSI hooks, Reset, panel | `MCDriveBoard` | `DriveBoardProofs` |
| `DriveMap` | `picmdhd.cpp` Read, Write; `i8255a.cpp` | `MCDriveBoard` | `DriveBoardProofs` |
| `RealTimeClock` | `rtc72421.cpp` | `MCDriveBoard` | `DriveBoardProofs` |
| `Buttons` | `iec_bus.h` UpdateButton, `inputmappings.cpp`, the loops that poll | `MCDriveBoard` | `DriveBoardProofs` |
| `DriveBoard` | composes the four above | `MCDriveBoard` | `DriveBoardProofs` |
| `EmulationLoop` | `EmulateCMDHD` in `main.cpp` 942-1157 | `MCEmulator` | `EmulationLoopProofs` |
| `StatusScreen` | `UpdateScreen`, `UpdateLCD*`, `emulator` in `main.cpp` | `MCBoot` | `BootProofs` |
| `LcdPanel` | `ssd1306.cpp`, `rpi-i2c.c`; extends `StatusScreen` | `MCBoot` | `BootProofs` |
| `Options`, `Boot` | `options.cpp`; `kernel_main`; `Boot` composes both with `LcdPanel` | `MCBoot` | `BootProofs` |
| `SdCard` | `emmc.cpp`, `diskio.cpp`, and an SD card | itself | `SdCardProofs` |
| `Via6522` | `m6522.*`, as operators on a chip | `DriveBus` | `DriveBusProofs` |
| `DriveBus` | `iec_bus.*`, the loop's pass, a computer; uses `Via6522` | itself | `DriveBusProofs` |
| `FileBrowser` | `filebrowser.cpp`, the loop that runs it | `MCEmulator` | |
| `Emulator` | `emulator` in `main.cpp` 1160-1245; composes `FileBrowser` and `EmulationLoop` | `MCEmulator` | `EmulationLoopProofs` |
| `UsbHost`, `UsbBus` | `uspi/lib`: host controller; enumeration, mass storage, keyboard, devices | `MCUsbBus` | `UsbBusProofs` |
| `FatVolume`, `FatFiles`, `FirmwareUpdate` | `ff.cpp`; `UpdateFirmwareToSD`; each extends the one before | `MCFirmwareUpdate` | |
| `Processor` | `m65c02.*`, `PiCMDHD::Update` | `MCProcessor` | |

An `MC` module only gives the constants their values; a module that needs no
functions or records for that is checked by itself.

### DiskCache and WriteBehindDisk

*State.* `card` is what the SD card holds, per file, chunk and sector. `slots` is
`cacheSlots`: valid, image id, chunk, the two masks and the data. `img` is the
table of `ScsiImage` objects: the FIL (its sticky error `err`, FA_MODIFIED), read-only,
`needSync`, `writeErrorPending`. `growth` says of each file how far the size that a write to
its short last sector gave it has got: into the FIL, into FatFS's sector window, or
`saved` in the directory entry on the card. `call` is the C++ stack of the one call in
progress. `reply` is the outcome of the latest call: which access to which sector of which file, and
the data it read or wrote. The caller takes it (`TakeReply`) before it makes the next call.

*Actions.* A call starts with the action named after the member function
(`ReadSector`, `WriteSector`, `FlushSome`, `SyncImage`, `Attach`, `Detach`, ...) and
goes on with one action per access to the card: `EvictRun` writes one run of
adjacent dirty sectors of the victim, `EvictFails` is the write that fails, in
part or in full, and so on. What happens between two accesses is in the action
of the first one, because nothing else runs on that core then. `PowerCycle` may come
between any two: the card stays, everything else is lost, and a file whose directory entry
was not saved ends where it ended before (`Shortened`). The same happens to a file
whose `f_close` fails (`Close`). `Hash` stands for the
hash function and may send chunks anywhere.

*Abstractions.* A sector is one of a few values. The last one of a file may be short, which reads
pad and writes extend: `Stub` holds zeros, `Clipped` the first bytes of something else. The time budget of a flush
either runs out or does not, at each chunk. Card accesses fail at most `MaxFaults`
times, and FatFS then refuses every access through that FIL, which is what it does.

`WriteBehindDisk` has `contents`, what the host believes each sector holds, and
`volatile`, the sectors whose latest write may still be lost. A read answers with the value
of its own sector, or zeros past the end of the file, and a read of the medium does so
unless the sector is volatile. A write sets it to the datum that was given, a
flush takes sectors out of `volatile`, and a power failure, or a detach that gives up, may change
volatile sectors, and no other. A refused write may damage its own sector.
`DiskCache!WriteBehind` is this specification under the mapping `Contents`, `Volatile`: volatile are
the dirty sectors of the slots and the sector the file has grown by.

### ScsiTarget

*State.* `ctx` is `scsi_context_t`: lines, phase, target and LUN, CDB and buffer
positions, command, address and count, LINK, status, sense. `disk` says of each unit
whether it is attached, has acknowledged writes that are only in the cache
(`dirty`), and has a write error latched.

*Actions.* One per call of `scsi_process_noack` (RST, SEL raised or dropped,
selection of a target or of nobody) and of `scsi_process_ack`, where every phase
and, at the last CDB byte, every opcode has its own disjunct. Flushes that come
from elsewhere (idle flush, eviction) and the detaching of disk 0 by a drive reset
are actions between two ACKs. `MESSAGEIN` cannot be entered with `msg_after_status`
off, as `scsi_reset` leaves it, and `cd` and `msg` are read by nobody.

*Abstractions.* CDB lengths, buffers and blocks have a few bytes
(`ShortCdb`, `LongCdb`, `BufBytes`, ...), which keeps all boundaries. The contents of
the data are left out; that they are right is the cache's promise.

### The drive's board: ConfigBlock, DriveMap, RealTimeClock, Buttons, DriveBoard

`DriveBoard` is class `PiCMDHD` without its VIAs: the conjunction of four modules that
can be read alone. A behaviour has one `program`, what the firmware or the user is
doing, so that the parts that do not meet are not multiplied with each other.

* `ConfigBlock` has the members that mounting, scanning, formatting and the front
  panel use. A sector carries a CMD signature, with a device number, or it does not.
  `Insert`, `Eject`, `Reset`, `Update`, `Press` and `SetButtons` are the panel's, `HostRead`,
  `HostWrite`, `CompanionWrite` and `Format` the hooks the SCSI target calls. A scan is one
  action, because the emulated processor stands still during it; any of its reads may
  fail. `HostWrite` is both the hook and the cache write after it.
* `DriveMap` has the RAM cells that writes reach, the latch U20 and the parallel
  port U11, whose port C switches the memory and drives SCSI lines. Reads
  change nothing and are left out; `ReadPort` is what one of a port gives.
* `RealTimeClock` is brought up to date from the free-running timer at each access. `age`
  and `date` remember what it was set to, `wrapped` whether the timer, or the sum of what
  elapsed and the fraction of a second, reached 2^32 microseconds unseen.
* `Buttons` is polled by the browser, by the running drive and by the wait between
  them, each at its own rate; `press` and `due` remember how long a finger was down and
  what that is still to do.

### EmulationLoop and Emulator

*State.* The locals of `EmulateCMDHD`, and the history the properties speak of
(`sinceBusy`, `lineRun`, `failing`, `flush`). *Actions.* An iteration is `Run`, up to the idle
flush, followed by `ButtonReset` (the `continue` of the RESET button) or `Controls` (exit
and reset line) and, if need be, `Reset` or `Leave`. The user, the computer and the
reset line change between any two. `DiskCache` and `ConfigBlock` appear as what the loop can
tell of them: something is dirty, a scan is due, and `broken`, FIL::err of the mounted
images. FatFS refuses every access to a file with an error until it is opened again, so
once an access fails (`AccessDone`, `Refused`) and the image has dirty chunks (`data`), no flush
succeeds any more until the image is detached, by `Leave` or by a reset that finds the
disk too small. A flush that fails in `f_sync` leaves no such error and may succeed later.

`Emulator` is `emulator()`: the browser's pass that picks an image starts the loop, and when the
loop has returned, with EXIT_AUTOLOAD or without, the browser is drawn again. Every
list on the screen with every state of the loop behind it would be too much, so a behaviour has one
`user`: one that browses, and leaves each emulation at once, or one that drives, and
mounts the same image again and again.

### The screen: StatusScreen, LcdPanel, Options, Boot

`StatusScreen` has one action per step of a core that the other one can see: reading
the flag `emulating`, reading the latch to compare, reading it again to draw, taking
the lock, drawing, giving it back. The lock has no owner, as in the code, so core 1
can release it while core 0 is in its section; it does (`ReleaseOnExit`).

`LcdPanel` gives the drawing its steps: text goes into `frame` (`PlotLamps`, `PlotTrack`,
`PlotList`, `PlotInfo`, `PlotNext`), `RefreshPage` compares a page with `oldFrame` and sends the
window of bytes that differ in messages, and the panel puts them where its `pointer`
is (`Written`). Plotting is where a section of `StatusScreen` begins and the last message
(`Finish`) where it ends, so every step is a step of `StatusScreen` or leaves it alone.
`Boot` runs `kernel_main` up to the start of core 1 and then `LcdPanel`: `LoadOptions` is
`Options`' translation of `TextParser` and `Options::Process`, a text being a sequence of lexemes.

### SdCard

Every action after the beginning of a call is one command and what the driver makes
of the answer (`pc` is the command). The card is a party with the states of the SD
specification; it may lose a command, spoil an answer, or lose power and be back at
once, `MaxFaults` times. `platter` is what it has stored, `moved` what the call has
transferred so far.

### Via6522 and DriveBus

A chip is a value, and every operation of the class an operator from a chip to a chip;
a timer byte is a number below `Base`, the shift register has `Width` bits. `DriveBus` puts
one on the serial bus: `Drive` is the next part of a pass of the loop (sample, two
processor cycles, refresh), in which the two GPIO writes of a refresh are two steps;
`Host` moves the computer's lines at any time. A reset goes through the flush, the
scan for the block, in which it waits for the card and serves the bus meanwhile, `BusReset` and
`Resume`. The first reset of an emulation (`starting`) and the way to the browser (`Browse`) also let
SRQ go (`LetSRQBePulledHigh`). `program` says which part of the chip the
firmware uses (ATN service, timers, fast serial in either direction, ...).

### FileBrowser

Part of `Emulator`. The browser is one record `b`, and the functions of the code are operators from such
a record to the next. A step is a pass of the loop with at most one key or button
(`Pass`), the end of an emulation, or a card pulled out or put back. What is on the screen
is `b.shown`, what `Refresh` drew last.

### UsbHost and UsbBus

`UsbHost` is the host controller driver: a channel works on one stage, an interrupt
brings what the controller says of a transaction, and the main program waits. `UsbBus`
is the main program as a sequence of messages (`Stages`, `Follow`), with the devices as
parties of their own (`Reply`) that keep address and toggles, the stick also the phase, tag
and place of its command. A fault spoils a
transaction before or after the device has acted on it.

### FatVolume, FatFiles, FirmwareUpdate

Functions of `ff.cpp` are operators that take the volume and return it changed, with
the FRESULT in `res`; the volume collects in `cuts` every state the card was in, and
`PowerCut` picks one. `FirmwareUpdate` has one action per call of `UpdateFirmwareToSD`, and
the writes to a disk image afterwards. `Chain`, `FilesOn` and `KernelOn` look at a card
without FatFS.

### Processor

An address mode is the sequence of its bus cycles; `cpu.todo` holds those that are left.
`Clock` is one pass of the 2 MHz loop: `Step`, then `PiCMDHD::Update`, in which a VIA may
ask for an interrupt. All 256 opcodes are there. `before` is the processor at the last
fetch, from which the properties compute what the whole instruction should have done.

## 3. The runs

| Run | Module, cfg | Properties | The question |
|---|---|---|---|
| `cache` | `MCDiskCache`, `DiskCache.cfg` | `CacheIsSound`, `LossIsLatched`, `SuccessMeansClean`, `WriteBehind`, `WorkGetsDone` | Does the cache keep the promise of a write-behind disk while the card fails and the power goes? |
| `scsi` | `MCScsiTarget`, `ScsiTarget.cfg` | `InBounds`, `BlocksMove`, `ErrorIsTold`, `VerifyMeansOnCard`, `CommandsEnd` | Does the target keep its buffers, counts and errors straight for any initiator that may drop SEL or raise RST at any moment? |
| `drive_board` | `MCDriveBoard`, `DriveBoard.cfg` | `DisksAreFound`, `PortsAreTrue`, `ClockKeepsTime`, `FormatErasesOne` | Are the disk's base, the ports, the clock and the buttons what the firmware and the user take them for? |
| `emulator` | `MCEmulator`, `Emulator.cfg` | `FlushesAreEarned`, `ResetIsMeant`, `WritesGoOut`, `ExitIsSeen`, `ScreenIsTrue`, `MountIsWhatWasChosen` | Does the loop flush when, and only when, the bus is quiet, and go on trying when the card fails? Is the image that is mounted the one that was highlighted? |
| `screen` | `MCBoot`, `Boot.cfg` | `OptionsAreRead`, `PanelIsRight`, `CoresTakeTurns`, `ScreenIsShared` | Does the panel named in options.txt show what two cores drew on it? |
| `sd_access` | `SdCard`, `SdCardAccess.cfg` | `CardIsTrue`, `CardComesBack` | Is what the SD driver calls a success one, and does it find a card again that came back? |
| `sd_errors` | `SdCard`, `SdCardErrors.cfg` | `FailureIsTold` (violated) | Does FatFS learn of a sector that could not be moved? |
| `drive_bus` | `DriveBus`, `DriveBus.cfg` | `SymbolsAreMeant`, `FlagsAreTrue`, `AtnIsServed`, `TimersAreOnTime` | What does the computer see on the serial lines, and the firmware in the flags of U10? |
| `usb` | `MCUsbBus`, `UsbBus.cfg` | `TablesAgree`, `TransfersAreTrue`, `TroubleIsOvercome` | Does the bus survive one fault anywhere? |
| `fat_update` | `MCFirmwareUpdate`, `FirmwareUpdate.cfg` | `KernelSurvives`, `UpdateIsTrue`, `VolumeIsSound` | Is there a kernel to boot after a power failure at any write of an update, until a boot meets two files that share clusters? |
| `update_twins` | `MCFirmwareUpdate`, `FirmwareUpdateTwins.cfg` | `PlacedIsComplete` (violated) | And after such a boot? |
| `processor` | `MCProcessor`, `Processor.cfg` | `InterruptsAreClean`, `InstructionsAreTrue`, `InterruptIsTaken` | Do all instructions do what they should, with an interrupt in any cycle? |

The bounds are in the cfg files and MC modules. Why they are enough:

* `cache` (559,200 states). Two images with one companion each and two slots: two
  chunks of one file, or of two, can be sent to the same slot pair, so every eviction
  is of one's own or of someone else's dirty chunk. The last chunk of a file is a short
  sector. `MaxAttach` 2 lets an image be detached and its identity outlive it. One fault is
  enough for the sticky error, since it makes every access after it fail too.
  `SectorsPerChunk` 1 leaves out runs of adjacent sectors, and no file is locked; these
  two are covered by the proofs only.
* `scsi` (644,000 states). One target with two units of 2 and 1 sectors, a CDB of 2 or 3
  bytes, blocks of 3: every transfer meets the end of its CDB, buffer, block and disk.
  Twelve opcodes stand for all; those left out share a branch with one of them.
* `drive_board` (696,343 states). Four programs, each of which uses one part of the board.
  Disks of 0, 4, 5 and 7 sectors with `Stride` 2 and `SmallDisk` 5 are empty, too small, just
  large enough and large. The clock is started on the eve of a leap day, of the end of
  a century and at noon. Between two accesses the timer comes round, or the sum alone: with a
  second of 2 and `Wrap` 121, a pass of 120 does so when a fraction is left. Buttons are polled at two rates with a wrapping counter.
* `emulator` (291,000 states). Delays 2 to 5 take the back-off from its floor to its ceiling in two failures.
  One failing access leaves either an error FatFS keeps, behind which the back-off gets to its
  ceiling, or a failed `f_sync` that a retry makes good (with `MaxFaults` 2, both in one emulation,
  TLC finds no error either, in 442,088 states); two samples of the reset line tell a glitch from a reset. Two nested folders with files
  of equal name, more entries than rows, and a stick.
* `screen` (172,078 states, 876 initial ones). Four rows with two lamps are the smallest
  panel that has lamps, a track line and a list; three columns in messages of two make
  a window of one or two messages. The models of the panel are taken through the
  boot; behind it runs the 128x32 panel with the CBM font.
* `sd_access` (215,674 states). Two sectors and two values tell a wrong address from a wrong
  datum; two faults hit a command and its recovery.
* `drive_bus` (536,684 states). Timer bytes below 4, a shift register of 3 bits. Six programs.
* `usb`. A hub of three ports with a device that does not work, a stick and a low-speed
  keyboard; two channels, so the main program and the keyboard compete.
* `fat_update` (532,048 states). Six cards: full, fragmented, nearly full, with deleted
  entries, and so on, of twelve clusters; one fault and one power cut, in three boots, which is what
  the finding of `update_twins` takes: one is cut short, one meets what it left, and one
  meets what that made of it.
* `processor` (110,773 states). Each opcode is run with operands at both sides of a page
  boundary and with an interrupt in each of its cycles.

`CHECK_DEADLOCK FALSE` stands where the system may rest: a machine that has shown what
there is to show, a serial bus nobody moves, a USB bus with nothing left to do, a card
after the last boot that the bounds allow, a processor that stopped.

### Fairness

| Specification | Assumes | Because |
|---|---|---|
| `DiskCache` | WF of the steps of a call | the call runs on a core of its own, and every card access returns |
| | SF of `FlushSome(FALSE)`, the unbudgeted flush | the loop flushes whenever the computer leaves the drive alone for long enough (`WritesGoOut` of `emulator`); strong, since host calls come in between |
| `ScsiTarget` | WF of `Ack` | an initiator goes on with its handshake; the code has no timeout. `CommandsEnd` speaks of unlinked commands only |
| `Emulator` | WF of the steps of the loop | it never blocks; the browser is not fair, as nobody has to mount a disk. `DataGoesOut`, the first half of `WritesGoOut`, also presumes a computer that is quiet, a reset line let go, no error FatFS keeps, and finitely many failures; the second, `RetriesGoOn`, says that with such an error the attempts never end |
| `StatusScreen`, `Boot` | WF of each core's steps, once both run | core 0 sleeps in WFE, but the timer and USB interrupts wake it |
| `SdCard` | WF of the driver | every command has a timeout, except the switch of the clock |
| `DriveBus` | WF of the passes of the loop | as above. The computer and the user are not fair |
| `UsbBus` | WF of the main program, of each channel's interrupt, of each timer | the host controller answers every transaction it was given |
| `Processor` | WF of `Clock` | the loop goes on |

## 4. The proofs

`tlapm` checks every theorem for all values of the constants that satisfy the named
assumptions (`SizesAssumption`, `UnitsAssumption`, ...). These only say what the code's
types and tables say: sizes are positive, the hash function's value is a slot, a disk's
size is a number.

| Module | Theorem | Of a run's property | What it says |
|---|---|---|---|
| `DiskCacheProofs` | `TypeCorrect` | | types |
| | `ReadOnlyIsClean` | | a read-only image has no dirty chunk |
| | `Inductive` | | the inductive invariant `IInv` |
| | `CacheStaysSound` | `CacheIsSound` | one copy, no orphan, clean means equal to the card, dirty means marked |
| | `FlushesAreThorough` | | what a flush knows while it runs (`FlushInv`) |
| | `LossesAreLatched` | `LossIsLatched` | a detach that drops dirty data latches the error |
| | `SuccessIsClean` | `SuccessMeansClean` | a FlushAll or Sync that reports success left nothing dirty |
| | `CacheIsWriteBehind` | `WriteBehind` | `DiskCache` implements `WriteBehindDisk`: reads return the latest write of their sector, and only what is volatile is ever lost |
| `ScsiTargetProofs` | `TypeCorrect`, `LinesCorrect` | | types; lines agree with the phase |
| | `NothingStrays` | `InBounds` | no byte outside its buffer, no sector outside its disk |
| | `ErrorsAreTold` | `ErrorIsTold` | a latched write error ends as a CHECK CONDITION |
| | `TransfersCountRight` | `BlocksMove` | no sector skipped or repeated; GOOD only at the end |
| | `VerifyLooksAtTheCard` | `VerifyMeansOnCard` | a GOOD VERIFY left nothing in the cache |
| `DriveBoardProofs` | `PortCIsReadBack` | | port C reads what it drives |
| | `DisksStayFound` | `DisksAreFound` | the base on record is the first block's |
| | `FormatStaysTrue` | `FormatErasesOne` | what a successful FORMAT UNIT leaves |
| | `PortsStayTrue` | `PortsAreTrue` | buttons are debounced and act once |
| | `ClockStaysTrue` | `ClockKeepsTime` | the clock tells the time since it was set |
| `EmulationLoopProofs` | `TypeCorrect` | | types, the delay's bounds |
| | `FlushesAreIdle` | `FlushesAreEarned` | a flush has an idle period behind it |
| | `ResetsAreMeant` | `ResetIsMeant` | a reset has a button or a held line behind it |
| | `EmulatorRunsTheLoop` | | `Emulator` implements `EmulationLoop`, so it inherits both |
| `BootProofs` | `TypeCorrect`, `LinesStayOffLamps` | | types; a line covers lamps on a panel of two rows only, and of those the first row only |
| | `CoresDrawApart` | `CoresTakeTurns` | of `StatusScreen` alone: where two drawings can meet |
| | `MachineIsTwoCores` | | `Boot` with the panel implements `StatusScreen` |
| | `MachineTakesTurns`, `MachineKeepsLamps` | `CoresTakeTurns` | so it inherits what is proved of it |
| | `PanelStaysRight` | `PanelIsRight` | the panel shows the status, byte for byte |
| `SdCardProofs` | `CardStaysTrue` | `CardIsTrue` | successful transfers are true, the clock is allowed |
| | `TransfersStayTrue`, `OthersStayKept` | | the first for every base clock; no other sector changes |
| `DriveBusProofs` | `TypeCorrect` | | types of the machine and of the chip; no callback left due |
| | `SymbolsHold` | `SymbolsAreMeant` | the computer sees no symbol the drive never meant |
| | `AtnIsTold` | | the safety half of `AtnIsServed`: U10 is told of ATN's fall, once |
| | `TimersHold` | `TimersAreOnTime` | both timers of U10 raise their flags on the cycle |
| | `FlagsHold` | `FlagsAreTrue` | enabled flags interrupt; a byte arrives whole |
| `UsbBusProofs` | `TablesInvHolds` | | the inductive invariant `TablesInv` |
| | `TheTablesAgree` | `TablesAgree` | one channel per request, one timer per delay, one device per address |
| | `DataInvHolds` | | the inductive invariant `DataInv`, on top of `TablesInv` |
| | `TransfersStayTrue` | `TransfersAreTrue` | what succeeds has moved the right data |

**The cache.** `CacheIsSound` is not inductive: whether a slot's data may be dropped
depends on what the call in progress is about to do with it. `IInv` is `TypeOK`, the parts of
`StoreInv` (masks within the chunk, identities unique and in the future unused, a slot
where the hash function may put it, one copy, clean sectors as on the card, dirty
chunks marked, nothing dirty in a read-only image), and three parts on the call: its
arguments are legal, the slot it works on is its own, and a chunk it is about to bring
in is not there yet. `FlushInv` adds what a flush has done so far: slots behind its scan are
clean or their failure is latched, images it is done with are clean or counted as
failed. TLC checked both as invariants before they were proved.

The refinement rests on three facts. At most one slot holds a dirty copy of a sector
(`OneCopy`), so what the host sees of it is that slot's datum or the card's; clean sectors
of a slot are as on the card, so what a call reads, out of a slot or from the card, is
what the host should see (`ReadRight`); and only the short sector of a file can be longer than
the card's record of it. Every step
then does one of four things to what the host sees: it keeps all of it (`ViewKept`),
settles a run of sectors from RAM to the card, or part of it when the write
fails (`RunSettled`, `RunGoesOut`, `RunStaysIn`), writes one sector (`SectorWritten`), or forgets the volatile sectors of
the files that were detached, growth included (`FilesLost`, `ClosedGrowth`). Each of these is a step or a stutter of
`WriteBehindDisk`, whose `reply` is the cache's own.

**The SCSI target.** `ContextOK` relates phase, direction, positions and counts: among
others, that a position stays below the count in every data phase, and that the count
is at most the buffer it is used with. `BlocksMove` and `VerifyMeansOnCard` are action
properties that follow from it action by action.

**The board.** `DueInv` says what the finger on a button can still cause: a press that is
no longer due was a long one that the browser has seen; EXIT's edge is pending only
while the drive polls. `FingerInv` ties the driver's press time to the real one modulo the
counter's width. `DiskInv` is `DisksAreFound` with the pending scan; `PortCFollows` is what port C needs. `ClockInv` says how the calendar relates
to the time since it was set (`TimeIs`), or how far the program that sets it has come
(`SetUpTo`: a low digit is written when its high digit is right, so no clamp touches it).
That n seconds carry into n `\div` 86400 days and those into months and years is an induction
(`DaysCount`): the number of the day in the century goes up by one with each `NextDay`. The
induction is by the least counterexample (`LeastOf`, `EveryNumber`). Assumed are
`DatesAssumption`, that the program sets a date of the calendar, and that a second is shorter than
the range of the counter.

**The loop.** `QuietIsIdle`: the counter never exceeds the number of iterations since the last
access or ATN. `CountIsRun`: the reset counter is the number of samples in a row.

**The screen.** `FlagIsCore1`: `emulating` is core 1's own position. `PassIsLate`: core 0 is beyond
its look at the flag only in the pass in which core 1 left. `PInv` is: `BusInv`, by which at any
time one core at most has messages left, which go on exactly where the last one ended
and cover the difference between shadow and panel; `BootInv`, the phases of the
boot; and `DrawInv`, by which the frame is the text of what the status will be when the drawing in progress is
over. `PanelIsRight` follows when no drawing is. `LinesStayOffLamps` holds for every number of rows: lamps
are in the rows below `LampRows` only, the track line is in the row behind them, and where
there is none it is in row 0. So on a panel of two rows it covers the first row of lamps
(section 5) and never the second.

**The SD driver.** `SdInv` says where a call can be (`CallIsWhole`, `PcIsWhole`), what card and
driver know of each other (`CardIsWhole`), and that from ACMD41 on the driver knows
how the card is addressed (`KindIsKnown`), without which there is no block size and no
transfer. `ClocksAreMultiples` is assumed for the clock only: on other base clocks
`GetClockDivider` may overclock the card (section 5).

**The bus and U10.** The chip's part is a lemma per operation: every one keeps the types and
`Sound` (an enabled flag is in the summary bit, the summary bit on the line), and
`Execute` is timer 1, timer 2 and the shift register in turn, none of which touches what the
others keep (`T1Step`, `T2Step`, `SRStep`). The machine's inductive invariant is `Common`. `Calm`
confines resets and the browser to the program in which the computer asks for them; `BusInv` says
what is on DATA and CLOCK at every point of a refresh: between the two writes what is
common to the old and the new meaning, or what is in either, by the order `ReleaseFirst`
picks. As these are two lines, the computer then sees one of the two meanings, or
nothing pulled where one line gives way to the other, which is `SymbolsAreMeant`. `AtnInv`: CA1
has the level of the last sample wherever the processor can run. `Timed` adds the cycle each timer is due on,
from its count, its reload and its time out. `FlagsAreTrue` follows a byte: `Receiving` says that
while the drive receives only the computer's DATA and SRQ move; `Arriving` that the bits in the
register are the ones whose SRQ has risen in a sample (`Taken`), less the one that is
`Pending` for the rest of a pass, each in its place. TLC finds all of them to hold with the
run's constants, too.

**The USB library.** A request changes hands: the main program fills a channel and
waits, the interrupt starts it again, delays it or ends it, the end of the keyboard's request begins
the next. One lemma per operation says what it can leave: `ChannelOutcome` (a channel goes on, is over,
or a new request has its place), `ReplyIsOne` (what the devices can make of it), `WithTimerKeeps` and its
like (who has which timer), `FollowFollows` (which message comes after which). `TablesInv` joins them.
`ChannelsWork` ties the one waited-for channel to the message and stage of the main program;
`NamesComeInOrder` is why the keyboard's requests begin once only; `AddressesAreNew` is
why addresses stay apart: `main.i` is an address that no device was given, or, if its
answer was lost, that one device has already, and then nobody listens to address 0 any more.
Assumed are what the program relies on: one stick and one keyboard at most (`OneOfEach`; the main program
uses the first of each), at least two kernel timers (`TimersAssumption`; there are 20) and
finitely many ports. The number of faults is not bounded.

`TransfersAreTrue` speaks of the end of a call only. `DataInv` says what holds on the way: a
command's tag is new, so no device has it until the stick has taken the command (`Taken`), and one that has
it means this command and is the only one that listens (`Only`, from `AddressesAreUnique`). From
then on the stick's place and the host's count agree whenever a channel is under way (`InStep`), and for
a write the toggles do, as a packet with the other toggle would be acknowledged and not taken: what is read so
far is what the sectors hold, what is written is on them. A stick that missed the command
itself has an older tag, and its status does not count. A try that fails proves nothing and need not: the next has a new tag.

**Only model-checked.** Liveness (`WorkGetsDone`, `CommandsEnd`, `WritesGoOut`, `ExitIsSeen`,
`ScreenIsShared`, `CardComesBack`, `InterruptIsTaken`,
of `AtnIsServed` the part `AtnAnswered`, and `WaitEnds` and `KeysArrive` of `TroubleIsOvercome`): the prover has no rule for it here. `OptionsAreRead` is about recursive functions of a text of any length, which
needs induction over data. `FatVolume`, `FatFiles` and `FirmwareUpdate` use RECURSIVE operators and
`Processor` uses bitwise operators, neither of which the prover can use.
The rest of `TroubleIsOvercome`, that one fault is made good and none comes of itself, and
`ScreenIsTrue` and `MountIsWhatWasChosen` of the browser could be proved about and are not yet.

## 5. Findings, and what the models met on the way

Two disagreements between code and documentation are shown by a run.

*Run `sd_errors`.* The
-1 of `CEMMCDevice::DoRead` and `DoWrite` is a `size_t` by the time `disk_read` and `disk_write`
compare it with 512 (`rpi/diskio.cpp` 36-45, 145), so they answer RES_OK. README.md
393-396 promises that a failed flush keeps the data and is reported; no failure of
the SD card ever reaches the cache. `DiskCache` is modelled with a card layer that
does tell.

*Run `update_twins`.* The comment at `main.cpp` 1639 says that a kernel is put in place only
once it is known to be complete. After one power failure, with a card that never fails, an
update two boots later reports that it is done and leaves a kernel.img without a chain:

1. An update is cut short in the rename of kernel.img to kernel.bak, when the new
   directory entry is written and the old one is not removed. Both names have one chain.
2. The next update removes kernel.bak (1669), which frees the chain of
   kernel.img too, and renames kernel.img: kernel.bak is now an entry that points to free clusters.
3. The one after that writes kernel.new into these clusters, compares it and finds it
   right, removes kernel.bak, which frees them again, and renames kernel.new to kernel.img.

Up to the boot that meets two files that share clusters (`twins`) the promise holds; that, and no
more, is what `KernelSurvives`, `UpdateIsTrue` and the chains' part of `VolumeIsSound` say in `fat_update`.

The rest are observations: behaviour the models translate as it is, at which a
maintainer may want to look. None is checked as a violation.

*Cache and SCSI.*
* FatFS makes an error of a FIL sticky (`ff.cpp` 3612, 3958), so the retry that README.md 393-394
  and `tests/test_scsi_cache.cpp` 106 speak of can never succeed until the file is opened
  again. When `f_sync` fails behind the data, a later one succeeds without having
  written the directory entry (`ff.cpp` 3732). Data that made a file longer is then on the card and is
  lost with the power all the same.
* An error latched by a detached file is reported against the file attached next
  (`scsi.cpp` 90, 118). VERIFY leaves the error of its own Sync latched, so it is told twice (1556, 181).
* `CLO + maxMicros` may wrap to 0, which means no deadline (285).
* An unknown opcode leaves the additional sense of an earlier command (1101, against
  the comment at 1615). The status byte of a failed linked command is followed by a
  command phase, whose first byte fails too.
* The flush right after a reset of the drive has no budget (`main.cpp` 1070, `picmdhd.cpp` 471).

*SD driver.* An initialisation that fails between CMD3 and the SCR leaves an address
but no block size: the driver is dead until the next boot. A lost CMD8 with an SDHC card makes
the ACMD41 loop endless. `disk_initialize` ignores its result. `SwitchClockRate` waits without a limit.

*VIA and serial bus.* `Reset` zeroes the IFR before `OutputIRQ` looks at it, so an asserted IRQ stays
asserted; a store to the IFR with bit 7 clears IR_IRQ without a release. Pulse counting
on PB6 never counts. CB1's active edge uses the mask of CA1. Shift mode 4 never shifts.
A reset leaves the directions and outputs of the ports, and lines stay pulled while
RESET is held and during the flush behind it. In fast serial towards the computer the
shift clock makes a whole period within one pass of the loop while SRQ is put on the
wire once per pass (`main.cpp` 997-1004, `m6522.cpp` 374-379), so no byte arrives, although
README.md 128 lists fast serial.

*Browser and buttons.* Button flags survive when a key short-circuits `CheckButtonsBrowseMode`
(`filebrowser.cpp` 1088) and act one pass later. ENTER on B with A in the caddy mounts
A under B's label. With a stick in, AUTOLOAD's image (README.md 92-93) is sought on the
stick. `f_getcwd` gives the root on exFAT. An AUTOLOAD that finds nothing changes the folder
without a redraw. Long presses of ENTER and INSERT do nothing. A threshold overflows after
a few seconds, so a held button repeats at each poll; presses over 71.6 minutes wrap. The
debounce counts time between polls, so two glitches with a stall between them are a
press. BACK held from the browser into an emulation resets the drive when let go.

*USB.* A failed data or status stage leaves endpoint 0 at DATA1, so the next control message
never sends its SETUP. Bulk-Only Reset clears the halt of endpoints without the direction bit.
A device whose initialisation fails stays at address 0 while the next port is reset. An unplugged
keyboard is asked for ever. `malloc` is called in interrupts without a lock. `TryWrite` ignores the residue.

*FatFS and the update.* A write error in the middle of a rename, too, leaves two names
with one chain. A write error at the end of the first rename, followed by a
flush in a later `f_unlink`, leaves no kernel.img. `f_sync` clears FA_MODIFIED although
`sync_fs` failed. A read-only kernel.bak makes every update fail. If the disk layer loses
a write without saying so, as the SD driver does, even `KernelSurvives` fails.

*Board.* FORMAT UNIT's "leave no CMD signature" (`picmdhd.cpp` 165) holds with one block and a
known base only. A failed scan is not repeated (585). An RTC that is not read for 71.6
minutes loses 2^32 microseconds (`rtc72421.cpp` 87), and up to a second earlier already, as
`microsAccumulated` has 32 bits, too (93). Digits set lowest first are clamped
against the old high digit; 10 and 11 o'clock in 12-hour mode, HOLD and the length of a month in
a store are not handled. Bit set/reset of the 8255A is ignored. The first reset of an emulation
sees the buttons of the last (`main.cpp` 982).

*Screen and options.* In a late pass both cores can poll the same DONE flag of the I2C
controller, and one may wait for ever. Bytes that were not acknowledged count as shown. The
lamps are not drawn again in a new emulation until they change (`main.cpp` 420, 751). On a
panel of two rows the track line lies on the lamps (524). `key=value` without spaces is
misread; an unknown LCDName keeps the model set before; a number is invalid only if it is
-1; a large cache size overflows.

*Processor.* A pending interrupt stays latched over SEI, so CLI lets it in one instruction
early; PLP does not wait that instruction either.

## 6. Not modelled

* The pixels of the HDMI screen, fonts, `stb_image` and LCD start-up commands: output only.
* Register-level board support (`rpi-gpio`, mailbox, caches, MMU, exceptions): external.
* USB network adapters, game pads and mice: the program uses none of them. Root-port over-current.
* Long file names, sub-directories of a volume that is written, FAT12/16 and exFAT: the
  update works in the root directory of the boot volume, which is FAT32.
* The contents of SCSI data, drive firmware and MODE pages. What the processor reads from ROM
  and RAM, and which stores the memory map lets through to the kernel area: the model could
  only repeat the condition.
* Inverted serial inputs (`invertIECInputs`; the default is 0), with which
  `LetSRQBePulledHigh` sets SRQ as an output.
* Panels of other sizes than 128x32 behind the boot: TLC draws on four rows, the other numbers of rows are covered by the
  proofs of `BootProofs` only.
* Which of cache and card VERIFY reads is the definition of `ReadSectorPhysical` in `DiskCache`; `ScsiTarget`
  has no data to tell them apart by, so `VerifyMeansOnCard` says that the writes have got there.
* Real time: a deadline either has passed or has not; a loop's pass takes one unit.
* After two drawings have met (`collided`) the panel is not followed.

## 7. What is next

1. `UsbBus`: a call with one fault in it succeeds (`OneFaultIsMadeGood`), from the toggles of both sides.
2. `FileBrowser`: what is on the screen is what the lists hold.
