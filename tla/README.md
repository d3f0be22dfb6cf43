# A formal model of pokketstation

pokketstation emulates the PocketStation. This directory holds TLA+ models of the parts of it where an
order of events, a failure or a boundary decides whether it is correct, the TLC runs that check them, and
theorems with proofs that TLAPS checks. Paths below are relative to `src/`.

## 1. Inventory

| Component | Code | State | Operations | Interacts with | What makes it hard |
|---|---|---|---|---|---|
| Content write-back | `frontends/desktop/content_writeback.c` | path, baseline, dirty flag; the file, its `.bak` and `.tmp` | arm, resync, poll, commit | the flash; the menu operations of `main.c` | crashes and failures between file operations; menu operations that replace the flash |
| IR link | `frontends/desktop/ir_link.c` | link state, write queue, ping, sample window, latched offsets | host, connect, disconnect, pump | two IR transports, the IR queues of two cores | two processes, lost connections, timeouts, two clocks that drift |
| IR transports | `ir_transport_tcp.c`, `ir_transport_pipe.c` | sockets or a pipe, a state, buffers | host, connect, poll, send, recv, close | the network | partial writes, overlapped operations, failed opens, several addresses, a peer that disappears |
| IR transceiver | `core/src/ir.c` | mode, LED, two edge queues, filter candidate, clock | mode and data writes, tick, push, pop | interrupt controller, link | times that the code moves; a filter; ticks of any length |
| Timers | `core/src/timer.c` | period, count, control, accumulator | register writes, tick, predict | interrupt controller, run loop | batches across reloads, widths, off-by-one |
| Interrupt controller | `core/src/intc.c` | HOLD, STATUS, enable, change count | set line, pulse, acknowledge | each device, the CPU | level and pulse lines with different acknowledges |
| Real-time clock | `core/src/rtc.c` | BCD time and date, mode, line | tick, adjust a field, host set | interrupt controller, kernel, host | carries, leap years, a host that sets the time in an adjustment |
| DAC, CLK, LCD, IOP | `core/src/{dac,clk,lcd,iop}.c` | registers, a sample ring, two pictures | register writes, ticks | run loop, host | a ring at its limit, a stopped clock, a picture computed at writes only |
| Flash | `core/src/flash.c` | 128 KB, unlock step, program state, banks | window writes, load, synthesize | bus, write-back | a command sequence inside a data stream |
| Content files | `psemu.c`, `flash.c`, `content_writeback.c` | four kinds of files, an identity | identify, load, build | flash, kernel, save states | a card made around an app, and cut out of it again |
| Serial block | `core/src/com.c`, `psemu_com_*` in `psemu.c` | registers, latches, transfer | select, begin, end, transfer | kernel code, host | a handshake with timeouts between host and kernel |
| CPU | `core/src/{cpu,arm_exec,thumb_exec}.c` | registers and their banks, trace ring | step, exceptions, two instruction sets | bus, interrupt controller | interrupt entry between any two instructions; banks swapped in place; two decoders of one machine |
| Run loop and idle skip | `core/src/psemu.c` | machine time, probe, app tracking | run, skip, set buttons | everything in the core | a skip that must be invisible |
| Save states | `core/src/state.c` | (a visit of all of the machine) | save, load | everything in the core, write-back | an error half way; rings that wrapped |
| Desktop shell | `frontends/desktop/main.c` | settings, key rows, menu, title, link | frame loop, menu, hotkeys, dialogs | all of the above | order of calls in menu operations; derived state that commands must refresh |
| Libretro core | `frontends/libretro/libretro.c` | session, identity | load, run, serialize, unload | core, a libretro frontend | a save file copied over a loaded card |

The core is one sequential library. The desktop frontend is one thread: a main loop that runs one frame of
the core, pumps the link and polls the write-back. Concurrency comes from outside: the second instance and
the network, the file system and the death of the process, the wall clock, and the host inputs between
runs. Inside the core the interleaving is between instructions, device events and the ends of runs.

The properties each component should have, and the lines where each could go wrong, are the `hazards` of
`PROJECT.json`.

## 2. Modules

Abstract specifications, each implemented by a detailed one:

| Module | Promise | Implemented by |
|---|---|---|
| `AtomicFile` | a file changes only as a whole, to the image of the flash | `ContentWriteback` |
| `EdgeChannel` | per connection, edges in order, each one time | `IrLink` |
| `MessageStream` | messages whole, in order, at most one time, a PING with the stamp of its first byte | `PipeLink` |
| `Fifo` | a bounded queue whose contents a saved state carries | `RingUnit`, two times |
| `RegisterFile` | one cell for each register of each mode; a mode switch moves no value | `CpuModes` |

Frontend and link:

| Module | Models | State and code |
|---|---|---|
| `ContentWriteback` | `content_writeback.c` and its callers in `main.c` | `cw` is `content_writeback_t`; `disk`, `bak`, `tmp` are the three files of each path; `slot` the save-state slots; `pc` the place in the frontend: between two frames (`events`), in one (`frame`), or in a poll. A commit is three steps (`Backup`, `Stage…`, `Replace…`), each of which can fail; `Crash` ends the process anywhere, and cuts the copy or the write that was in progress. The history `owed` is the edit of each file that the file lacks |
| `ContentUnit` | the four kinds of content files: `psemu_identify_content`, `flash_load_app`, the directory it makes, `build_file_image`, the identity | `card`, `opened`; cells are frames of 128 bytes |
| `DesktopUnit` | `settings.cfg`, the key rows and their remapping, menu, title, hotkeys, and what they do to a link. A write of the file fails, goes through, or leaves its first lines (`Writes`), since `fopen` empties the file and no result of `fprintf` or `fclose` is read | one variable per group of statics of `main.c`; `written` is the history of the writes |
| `ButtonUnit` | one key between the main loop, `psemu_set_buttons` and the interrupt handler | `counter` is `frames_pressed`, `pad` the part of `psemu_t` |
| `OverrideUnit` | the time override of `main.c` and `psemu_track_app_execution` | `software`, `track` |
| `LibretroUnit` | `libretro.c` over sessions | `session`, `check`, `disk` |
| `IrLink` | `ir_link.c` on two instances, connected | `link`, `queue`, `ping` are fields of `ir_link_t`; `tp`, `session`, `backlog`, `wire` the transport and the network. A pump is cut at its calls into the transport (`StartPump`, `PollRead`, `EndRead`, `PollWrite`, `EndPump`) |
| `PipeLink` | one direction over `ir_transport_pipe.c`, in bytes, with `poll_write` and `poll_read` around it | `writer`, `reader` are the overlapped operations, `pipe` the bytes of the system |
| `TcpUnit` | how instances find each other: `ir_transport_tcp.c` up to the connection | `listener`, `dialer` |
| `IrLinkClock` | the clock samples of `ir_link.c`, and the time of the link: frames, drift, latch, placement of edges | `sendLatch` and `recvLatch` are `wall_minus_core_us`, `peer_wall_minus_local_wall_us` and `last_edge_wall_us` of the two ends |

Core:

| Module | Models | State and code |
|---|---|---|
| `Intc`, `Timer`, `Ir` | three devices, as operators from a state to a state | one record per C struct |
| `TimerUnit`, `IrUnit` | one device with the software that writes its registers and the run loop that ticks it | the record, and history variables |
| `FlashUnit` | `flash.c` with the routines that write it, an app that stores through its window, and resets | `flash` is `flash_t`; `job` |
| `ComUnit` | `com.c` between `psemu_com_*` with its host and the handlers of the kernel | `port`, `kernel`, `host` |
| `ClockUnit` | `rtc.c` with a kernel that adjusts it and a host that sets it | `rtc` is `rtc_t`, words of BCD digits |
| `PanelUnit` | `lcd.c`, `iop.c`, the mute that follows it | `lcd`, `iop`, `muted` |
| `RingUnit` | the edge queues of `ir.c`, the sample ring of `dac.c`, and the two forms of rings of `state.c` | slots, head, count |
| `ArmRegisters` | the registers and banks of `cpu.c` | one record |
| `CpuModes` | programs, exceptions, nested handlers and task switches over the banks | `cpu`, `frames` |
| `ArmExec`, `ThumbExec` | the bus of `memory.c`, flags, adder and shifter, and each instruction of the two sets | operators |
| `CpuExec` | a core that executes sequences of instructions | `core` |
| `RunLoop` | `psemu_t` (CPU step, RTC line, DAC, device ticks, app tracking, buttons), one turn of `run_until`, the clock stop, the idle probe and the skip | one record for the machine, with 16 instructions that stand for what the run loop can tell apart, and one for `idle_probe_t` |
| `RunPair` | two machines with the same inputs, one with the skip, short runs and save states, one without | `fast`, `slow` |

`MCUnits` (timer, transceiver, flash, serial block, desktop), `MCBoard` (clock, panel, rings, key, override,
libretro, content, TCP) and `MCCpu` (modes, execution) put models that share no state side by side in one
specification, with values for TLC: a behaviour is about one of them. `MCIrLink`, `MCIrLinkClock` and
`MCRunPair` are instances.

Eight modules hold the theorems: `ContentWritebackProofs`, `IrLinkProofs`, `IrLinkClockProofs`,
`PipeLinkProofs`, `CpuModesProofs` and `DesktopUnitProofs` for the module they are named after, `UnitsProofs`
for the four devices of `MCUnits`, and `BoardProofs` for the key, the libretro core, the panel, the rings,
the override, the clock and the content files.

Some definitions have a comment that starts with *Mutant*. They are plausible wrong versions of the
definition that comes after them; each property is checked to fail when one of them takes its place.

### Abstractions

* The flash of `ContentWriteback` is two regions (the body of an app, the rest of the card), because the kinds
  of files differ in which of them they hold. `ContentUnit` has what is in them, frame by frame.
* In `IrLink` the stream is cut at messages and the clock values are left out; a PING carries a number in
  place of its send time. `PipeLink` has the bytes, for one direction. `IrLinkClock` has the clock values and
  no failures; its edges go one way, and the queues do not fill.
* `Ir`, `Timer` and the devices of `RunLoop` keep the arithmetic; the constants of the hardware (the debounce
  time, the stretch, the RTC period, the capacities) are CONSTANTS with small values in the runs. The timer
  keeps the prescalers of the code and its register width as a modulus.
* The CPU of `RunLoop` has one register, one bit of RAM and no condition codes. The instructions cover each
  kind of access that the idle skip distinguishes: a read of memory, of the interrupt controller, of a
  register that changes with time, a write, a change of speed, a clock stop, a mask of interrupts, an
  undefined opcode, a conditional backward branch, a jump to itself and a return from an exception.
  `ArmExec` and `ThumbExec` are the other side: each instruction with its flags, its cycles and its effect
  on memory, over words of any even number of half-bytes. An instruction is a record of its fields.
* Register writes are whole. The byte lanes of the bus are left out, except where `flash.c` and `com.c` see
  the two bytes of a halfword apart.
* The card of `FlashUnit` is small: the key addresses and the header keep their order and their place inside
  a frame, and a byte has two values, because the properties compare a byte with what it was.
* The kernel is not in the repository. The steps of its flash routine (`FlashUnit`) are those of
  `docs/app-notes.md`, and the steps of its COM handlers (`ComUnit`) those of `docs/hardware-notes.md`, "The
  handshake" and the sections after it. A host of `ComUnit` does what a PS1 does: it selects a kernel that
  waits (`Settled`), and it leaves a byte time after an acknowledge (`ByteTime`). The core does not enforce
  these two: `psemu_com_transfer` keeps a gap before the first byte of a command only (`Lead`). A byte of the
  PS1 is the number of its exchange, and the kernel replies with it, so that a reply names the byte it
  answers. The handlers of `CpuModes` obey the procedure call conventions, and the kernel of `ClockUnit`
  adjusts as docs/hardware-notes.md says: program mode, increments until the field has its target, run mode.
* Of the fields of `settings.cfg` that are stored and read alike, one stands for all.

## 3. Runs

`tlc -workers 2 -config <run>.cfg <module>` checks a run.

### Write-back (`ContentWriteback`)

Two data values are enough: each property compares two contents.

* `writeback`: one app file, whose file holds a part of the flash only, with save-state slots, failed writes
  and replacements, and a process that dies at any file operation, also inside the copy to `.bak` and the write
  of `.tmp`. A changed file has a `.bak` with nothing in it but the original, or the part of it that a copy left in
  which the process died (`BackupIsOriginal`); an edit that the file lacks is in the flash, and the next poll
  finds it (`EditNotForgotten`); a change on disk is an edit (`OnlyEditsReachDisk`), and an edit gets to the disk
  (`EditReachesDisk`). What is owed is kept apart from the baseline of the code: an app's store makes an edit
  owed, and only the file itself, a state that the user loads or the end of the program takes it back. Fairness:
  the frame loop goes on (weak), and a file operation that can succeed again and again does so some time
  (strong). The main loop of `main.c` justifies the first; the second says that a disk is not full or locked for
  ever.
* `writeback_menu`: one full card with each menu operation, copies and replacements that fail, damaged states
  and the same deaths. The commit implements `AtomicFile` (`ImplementsAtomicFile`).
* `writeback_open_second_card`: a disagreement, section 5.

The faults and operations of the first two differ because some properties hold only without some of them:
section 5 says which, and why.

### Link (`MCIrLink`, `MCIrLinkClock`, `PipeLink`)

* `irlink_faults`: two connections, one build or two, failed opens, a network that fails, clock steps and
  timeouts. The link implements `EdgeChannel` per connection (`ImplementsEdgeChannel`); two builds exchange
  nothing. Queues of 2 messages fill with a HELLO and a PING. One PING for each connection keeps the run small.
* `irlink_sync`: no faults, two edges one way and one the other, two PINGs. A sample comes from one round trip
  (`SampleMatchesPing`), no edge gets to a core before the first sample (`NoEdgeBeforeSync`), the
  synchronization ends (`SyncEnds`), and edges arrive (`EdgesArrive`). Fairness: the frame loops go on (weak),
  and the network delivers and takes a message that it can deliver again and again (strong, because an empty
  or full stream disables it for a time). Faults are off: a network that fails for ever carries nothing.
* `irlink_clock`: frames of 2 core units take 2 or 3 units of wall time, so the clocks drift; messages take up
  to 1 unit, and the two directions of a PING up to 2 each; the wall clock of the peer is behind, so that the
  division truncates a negative number. Three samples pass through a window of 2, so the oldest one, which can
  be the best one, goes. The playout delay of 10 covers the transit, the batch, the drift over a message and
  the error of a sample, as the comment at `ir_link.h` on `IR_LINK_PLAYOUT_DELAY_US` asks. The offset is as
  good as its round trip (`OffsetError`), spacing is exact and no edge is late (`PlayoutIsExact`).
* `pipe`: one direction over a named pipe, with messages of two bytes, buffers that hold one and a half, two
  edges, the PINGs between them, and a connection that either side may break at any point. `PipeIsAStream` is the refinement;
  `EdgeArrives` says that the rest of a partial write, which only a later call sends, does not stay. Fairness:
  both frame loops and the system go on (weak).
* `irlink_late_pong`: a disagreement, section 5.

### Devices and desktop shell (`MCUnits`)

* `units`, the four devices and the desktop shell apart. The *timer* with periods 0, 2 and one that is wider
  than the register, and batches of 15, 33 and 500 cycles with the prescalers 2, 32 and 512: some cover many
  reloads and some a part of a tick; the bound of 600 cycles is past a tick of the slowest prescaler
  (`CountIsElapsedTime`, `ReloadIsPredicted`). The *transceiver* with a stretch of 4 cycles, a debounce time of
  2, queues of 3 and up to four edges, at distances below and above both, so that pulses overlap their stretch
  and the transmit queue fills: the frontend gets what the LED did (`TransmitIsExact`), the filter accepts what
  it must (`FilterIsExact`), and no interrupt comes before the predicted event (`QuietUntilEvent`). The *flash*
  with three blocks of four bytes: a block with the header, one with F_KEY1 and one with F_KEY2, so that a
  routine programs a frame with and without a key; an app stores to both windows between any two stores of a
  routine, and a reset comes anywhere. A routine that ends has written what it says (`VerifySucceeds`), and each
  store changes what it may (`WritesHitTheirTarget`). The *serial block* with commands of up to three bytes (the
  first one, one between, and the last one), a release with any byte, a timeout at any step of the kernel,
  docking and resets: one handler per selection, an acknowledge and a reply of the byte they belong to
  (`ExchangesAreExact`), and an end of each command (`ReleaseEndsCommand`). The *desktop* shell is here because
  it shares no state with the devices either: four rows, five keys, a file that somebody edited and one of an
  older session, four commands of any kind, over sessions that end at any time. Each write of `settings.cfg`
  fails, goes through, or is cut in its first line, in the one of a key in the middle, or in its last one
  (`CutLines`), with the lines of the file that then read as a part of themselves or as nothing. What the user
  set is what a whole write holds and what the next session starts with, and no two rows share a key until a
  session reads a file that was cut (`SettingsSurvive`); no link goes on over a clock that moved
  (`LinkFollowsClock`), and the title and the check marks show the state (`ShellShowsState`).

### Board (`MCBoard`)

* `board`, eight parts apart:
  * *clock*: six times at the ends of centuries, leap years, months and digits; a kernel that adjusts all
    fields in two orders; a host that sets the time at any moment. Each second is the next one of a calendar
    defined by day numbers and comes with a fall of the line, each rise and each transition in program mode leaves
    the time and the date alone, and an adjusted field stays (`ClockIsExact`); the adjustment ends (`AdjustEnds`).
  * *panel*: two scanlines of four pixels. The picture is the framebuffer under the current mode, and the
    sound is muted exactly when IOP says so (`OutputFollowsRegisters`).
  * *rings*: rings of two slots at each position of the head, saved and loaded, with loads that fail in each
    ring (`RingsAreQueues`, the refinement of `Fifo`, for both kinds).
  * *key*: presses of up to three frames with a minimum of two, an interrupt that is enabled and acknowledged
    at any time, resets, save and load (`ButtonsAreExact`).
  * *override*: frames of two units, a grace of three, calls of up to two, a clock that stops anywhere. The
    override writes in the shell only and comes back after an app (`OverrideFollowsOwner`).
  * *libretro*: cards with two sets of saves and two of data (`WarnIffReplaced`).
  * *content*: twelve files of the four kinds on a card of three blocks of four frames, with two stores by
    an app or the kernel (`FilesRoundTrip`).
  * *tcp*: two clients, a host on one or both families, three answers of the resolver (`ClientConnects`).

  Fairness: the kernel that adjusts the clock goes on; the main loops poll and the system answers
  each attempt; frames follow each other and the CPU takes time when it executes. Each is weak, but for the
  wake and the execution of the override, which the ends of frames disable for a time. `OverrideFollowsOwner`
  assumes in its liveness part that the user stops to load states, and `ClientConnects` that nobody closes.

### CPU (`MCCpu`)

* `cpu`. *Execution*: words of 8 bits with bytes of 2, so that each carry, overflow and shift amount occurs;
  all pairs of seven operands at the limits, then up to two instructions, then each form of each Thumb
  instruction against its ARM equivalent, blocks stored and loaded, calls and returns (`InstructionsAgree`),
  comparisons, wide additions, long products and shifts against integers (`ArithmeticIsExact`). *Modes*: three
  nested handlers and six events. The banks implement `RegisterFile` (`ImplementsRegisterFile`), and a program
  sees the same registers after a handler returned (`HandlersAreTransparent`).

### Run loop (`MCRunPair`)

The machine with the skip is compared with the machine without it, field by field, whenever their times
agree: registers, RAM, devices, interrupt lines, trace ring, step count (`RunsAgree`).

* `runloop` has two scenarios. *Loops*: all two-instruction loops, with the loop in flash, outside, or half in
  it, on three machines, up to time 60, with runs of 50 and 121 units cut at any length. All limits of the skip
  are crossed within that time: the timer reloads after 20 cycles, the RTC ticks after 9 reference cycles, the
  grace period is 7 and the end of a run is a limit itself. *Inputs*: three-instruction loops that wait, some
  with the clock stopped, with button presses, IR edges and reloads from a saved state between the runs, to
  time 45.

The modules also state type invariants. The runs do not repeat those that a theorem proves or that a
refinement implies.

## 4. Proofs

| Theorem | Statement | Assumption |
|---|---|---|
| `ContentWritebackProofs!TypeCorrect` | `Spec => []TypeOK` | the constants' assumptions |
| `FileNeverTruncated` | `[]NeverTruncated` | no hidden failure of `fclose` (`"close" \notin Faults`) |
| `CommitIsAtomic` | `Spec` implements `AtomicFile` | the same |
| `BackupHoldsOriginal` | `[]BackupIsOriginal`: a changed file has a `.bak`, and each `.bak` is the original or a part that a death in the copy left | `CopyFileA` does not fail (`"copy" \notin Faults`); the process can die in it |
| `OnlyEditsAreWritten` | `OnlyEditsReachDisk`: a change of a file is an edit of its own content | no second card (`"open" \notin UserOps`) and no damaged state (`"state" \notin Faults`) |
| `EditIsNeverForgotten` | `[]EditNotForgotten`: what an app wrote and the file lacks is in the flash of its content, and the next poll finds it | `EditsAreSafe`: no close hides a failure, and either no commit fails, or there is no open, no reset and no damaged state |
| `IrLinkProofs!TypeCorrect` | `Spec => []TypeOK` | the constants' assumptions |
| `EdgesInOrder` | `Spec` implements `EdgeChannel`, with each fault, capacity and pair of builds | |
| `SamplesMatch` | `[]SampleMatchesPing` | no PING times out (`"timeout" \notin Faults`) |
| `EdgesAfterSample` | `NoEdgeBeforeSync` | no clock steps, no PING times out, the queue has room for three messages |
| `IrLinkClockProofs!SampleError`, `BestOffsetError` | the error of a sample, and of the best sample of a window | |
| `OffsetIsBounded` | `[]OffsetError` | |
| `PlayoutWithinDrift` | `[]PlayoutIsExact`, for each skew, delay, frame time and sample, as long as the drift since the latch is within a bound (`DriftWithin`) | the playout delay covers transit, batch, sample error and that bound; a message is quick enough for the relatch (`MessageFits`) |
| `PlayoutAlwaysExact` | `[]PlayoutIsExact` | the same, and the drift of a whole session is within the bound |
| `PipeLinkProofs!PipeRefines` | one direction of a pipe implements `MessageStream`, for each size of a message, the queue and the buffers | |
| `UnitsProofs!ReloadWhenDue`, `TimerTypeCorrect`, `ReloadIsAlwaysAhead`, `ReloadIsAlwaysPredicted`, `CountIsAlwaysElapsedTime` | the timer properties for all periods, batches and times | |
| `IrTypeCorrect`, `TransmitIsAlwaysExact`, `AlwaysQuietUntilEvent` | the transceiver, for each stretch, debounce time, capacity and tick | |
| `FilterIsAlwaysWithin` | what the filter lets through, for each debounce time, when it looks at the line once in some number of cycles | no edge meets a full queue |
| `FilterIsAlwaysExact` | `[]FilterIsExact` | the filter looks in each cycle, and the queue has room |
| `ComTypeCorrect`, `ExchangesAreAlwaysExact`, `ReleaseAlwaysEndsCommand` | the serial block with its kernel and its host, for commands of any length | |
| `FlashTypeCorrect`, `RoutinesAlwaysSucceed`, `WritesAlwaysHitTheirTarget` | the flash with its software, for each size of the card and its frames and each place of the keys | `FlashAssumption` |
| `CpuModesProofs!ModesTypeCorrect`, `ModesImplementFile` | the register banks implement `RegisterFile`, for each word size, bank layout and nesting | |
| `HandlersReturnTransparently` | `HandlersAreTransparent`, for each word size, bank layout, program and depth of handlers | |
| `BoardProofs!RingsAreFifos` | both rings implement `Fifo`, for each capacity | |
| `ButtonsAreAlwaysExact` | `ButtonSpec => ButtonsAreExact`, for each minimum | |
| `WarnsIffReplaced` | `[]WarnIffReplaced`, for all images | |
| `OutputAlwaysFollowsRegisters` | `[]OutputFollowsRegisters`, for each size of the screen | |
| `ClockIsAlwaysExact` | `ClockIsExact`, for all sets of times and each order of the fields | the times are of the calendar (`ClockUnitAssumption`), and no month is adjusted to an earlier one (`~MonthWraps`) |
| `OverrideNeverInApp` | `NeverInApp`, the safety half of `OverrideFollowsOwner`, for each length of a frame | a call is shorter than the grace period (`OverrideAssumption`) |
| `FilesAlwaysRoundTrip` | `[]FilesRoundTrip`, for each size of a block and of the card, and all files | `ContentAssumption` |
| `DesktopUnitProofs!SettingsAlwaysSurvive` | `[]SettingsSurvive`, for all rows, keys and files, and writes that fail or are cut at any line | `KeysAreNamed` |
| `LinkAlwaysFollowsClock` | `[]LinkFollowsClock` | no state fails after the clock moved (`~DamagedStates`) |
| `ShellAlwaysShowsState` | `[]ShellShowsState` | states are saved with a BIOS (`~BareStates`) |

The assumptions on faults, operations and states exclude what section 5 describes; an assumption that excludes
more says so in its column (`EditsAreSafe` asks for no failed commit at all beside an open or a reset). What the
theorems say is said of the models: what section 6 leaves out is outside of them. `FlashAssumption` says what
`flash.c` and `flash.h` fix: frames of an even size that divides a block, keys at even offsets, not the first of
their frame, in two frames, and apart from the header. `ClockUnitAssumption` says that the host sets what its own
calendar gives it, and that the kernel adjusts each field to a time that exists; the calendar of the assumption is
apart from that of `rtc.c`. `ContentAssumption` says that a directory fits into the first block and that an icon
has at most three frames, which is the mask in `identity_hash_title_sector`.

*Write-back.* `NeverTruncated` is not inductive: the step that replaces the file copies `.tmp` to the file.
The invariant adds that in the state before the replacement `.tmp` is the image of the flash (`StagedImage`)
and that a commit in progress has a path (`CommitArmed`). The refinement uses the same invariant: only
`ReplaceOk` changes a file, and it maps to `Replace`; each other step changes the flash or nothing. The run
`writeback_menu` checks a full card; the theorems cover app files, and many files, as well. `OnlyEditsReachDisk` needs
that without an edit the flash holds the baseline, and that a commit in progress has an edit (`EditInv`);
`BackupIsOriginal` that each step after the copy finds a `.bak` (`BackupTaken`), a cut one included.
`EditNotForgotten` needs the whole of `OwedInv`: the baseline is the image for which the file owes nothing
(`Aligned`), an edit that is owed is in the flash at each point of a frame or a commit and differs from that image
(`Pending`), nothing is owed where a poll whose writes succeed returned to (`Settled`), so the resync of a reset
finds the flash as the file has it (`Resyncs`), and where writes fail a poll returns to the frame loop only
(`Returns`). Without the last two an open, a reset or a damaged state after a failed commit drops the edit, and
that is what the code does (section 5).

*Link.* For one connection, `Stream(s, n)` is what the peer has still to read from `n`: the messages in the
network, and then those in the write queue. A pump cuts the queue anywhere and the network delivers a prefix,
but no step reorders the stream, so the invariants are about the stream. `Delivers` gives each edge of the
stream its number: the first one is the next edge that the peer lacks, and the last one is the last edge that
the link took. Each step keeps the stream, shortens it at the front (a delivery, which maps to `Deliver` of the
channel), or lengthens it at the end (an edge, which maps to `Send`); `Silent` and `Unopened` say that a stream
is empty before its instance joins. For samples, `RoundTrips` says that each PING and PONG on the way has the
number of the PING that waits, and that only one of the two is on the way; a PING that times out leaves its
answer behind, which is the disagreement of `irlink_late_pong`, so the theorem excludes it. `NoEdgeBeforeSync`
needs `SyncRuns` and `EdgesWait`: an instance that waits for its first sample has the answer on the way in front
of each edge, or a PING on the way to a peer that has no sample either and thus sends no edge. A clock that steps
makes a sample invalid, and a queue of two has no room for an answer beside HELLO and PING, so it is dropped and
edges can overtake the next round trip; the queue of the code (4096 messages) has room.

*Clock.* `SampleError` is the argument of the comment in `ir_link.h`: the offset is off by half the
difference of the two delays, and that is at most half the round trip. The window invariant says that each
entry is the sample of some round trip; `Record` keeps it, and the best entry has the least round trip.

*Playout.* Each end converts edges with an offset that it latched, so an edge keeps its distance to the one before
as long as neither end latches between them. `PlayInv` says why none does. `Frames` counts the frames of the
sender since an edge: they bound its core time from below and its wall time from above, so an end that waited long
enough to latch has passed the gap between two messages (`SenderEnd`). Two neighbours of one message (`Near`) thus
have the right distance on the wall clock, and the second arrives before the receiver latches again. That no edge
is late is a sum: an edge on the way is at most a batch and the drift behind the wall clock of its sender
(`OnTheWay`), the offset of the samples is above the true one by at most the time of one message (`OffsetBound`),
and the transit ends within the network delay and one frame. `PlayoutWithinDrift` takes the drift as a hypothesis
about the behaviour, since an offset that is never latched again lets it grow without limit (a message without a
pause; the code has no bound for it either). `PlayoutAlwaysExact` bounds it by what each frame can add
(`DriftInv`). The sum is the core time of a frame, the wall time of a frame, the time of a PING or PONG, the
network delay and the drift. With the playout delay of `ir_link.h` (250 ms) and frames of 31 ms of core time
(33000 reference cycles) that take about as much wall time (`ir_link.h`), it leaves nearly 190 ms for the last
three.

*Pipe.* The bytes between the queue and the receiver (`InTransit`) are the first bytes of some sequence of
messages (`Frames`), and while the sender can complete a message they end with one (`FramingInv`). The lemmas
say what a stream of bytes does when its end is lost (`FramesPrefix`), its first message leaves (`FramesDrop`)
or whole messages come (`FramesAppend`): the messages that it holds (`Whole`) lose their end, lose their head,
or get the new ones. `SendIsCut` is the step that is easy to get wrong: bytes that the transport took together
with the rest of the message that it cut are the rest of the one that it cut before, and whole messages. The
other steps move bytes from one place to the next one and keep their sequence, so the abstract state stutters.
A connection that the sender does not know of yet has carried nothing (`ConnectionInv`), so no byte of an old
connection comes in front of those of a new one. The lemmas on quotients and remainders that place a byte in its
message (`Within`, `Shift`) are in the module; `SequenceTheorems` has the rest.

*Timer.* `Inv` has the type and `acc < Divisor`. `CountIsElapsedTime` needs the relation between count,
accumulator and elapsed cycles across a call that can cover many reloads; `TurnOfCounter` is the lemma on
remainders that carries it.

*Transceiver.* A tick takes a prefix of the queue and folds the debounce filter over it. Inductions over the
indices of both are inductions over a set of numbers (`NatIsLeast`). `TxRange` has the order of the transmit
queue and bounds its last time by the end of the stretch; `Transmits` adds that the LED is on only while the mode
permits it. Before the first predicted event the prefix is empty and the candidate is not due (`Heard` bounds its
age), which is `QuietUntilEvent`.

*Filter.* `FilterInv` ties the receive side to the history of the line: the queue is the edges that are ahead
of the clock (`Queued`), the candidate is the last edge that was taken if it is not accepted yet (`Candidate`),
and there is a set of accepted edges between `Definite` and `Possible` whose last member gives the level. A tick
takes edges one by one (`TickIsStepwise`); an opposite edge cancels a candidate only if it comes in the same
tick or earlier than the debounce time. With one cycle per tick the two sets are the same, and that is
`FilterIsExact`; with longer ones they differ by the edges whose rest is less than a tick above the debounce time,
which is the disagreement of section 5. The line alternates, so the parity of the edges that are left out says
which level the line returns to (`Parity`).

*Serial block.* `ComInv` has four parts: `Wired` (the interrupt request follows the registers), `Selection` (a
selection that no handler answered is the only event of a kernel that waits), `Exchange` (the acknowledge belongs
to the last byte, the byte out to the one before) and `Service` (what each step of a handler finds in the
registers). No part is inductive without the others. Lemmas give the effect of each register write and event on
the parts, and the steps of kernel and host are put together from them.

*Flash.* Six lemmas say what a halfword store does to the record: a key, data at rest, the first and the next of
a program, a header word, and a store through the window. The invariant says at which step of the unlock
sequence a routine is (`UnlockInv`), how many bytes of a program are left and that the stored part of the frame
holds its data (`ProgramInv`), and the same of a header update (`HeaderInv`). A routine that found the flash
armed goes out of step, and the invariant shows that it cannot get back into it: its frame cannot hold both
keys, so at most one of the three steps happens again. An app stores halfwords, and the lemmas on remainders
show that the window keeps both bytes of one in the same frame.

*Modes.* Each step of a program, an exception or a handler maps to a step of `RegisterFile`. The lemmas say
what `SetMode` does to the flat file: nothing, but that it changes which cells are visible. The return address
of an exception and the restored status are the only values that a mode switch writes.

*Handlers.* `Transparent` says for each suspended level where its registers are. The levels form a ladder (User,
SVC, IRQ, FIQ) on which a handler only interrupts lower ones (`Ladder`, from the masks that each mode leaves
open), so a bank that a handler writes belongs to no suspended level. The pc and the status of a level are in the
link register and the SPSR of the handler above it, or in the frame that a nested handler saved them to
(`Resumes`). The registers of User mode are the exception, since handlers share them and a task switch replaces
them: `UserAt` gives each level its own copy, which is the one that the handler above restores before it returns.

*Rings.* The mapped queue is the slots from the head on, around the end. The invariant bounds head and count;
the lemmas give the contents after a write, a read, a save (which turns the ring to start at 0) and a load.

*Buttons.* `PadInv` relates the level, the pending pulse and the acknowledgement in one frame; `PressInv`
relates the counter of the main loop to the frames that the history counts.

*Libretro.* From the load to the first frame, the identity of the content stays beside the flash that the save
file can replace (`RetroInv`); the first frame compares the two.

*Panel.* `Upright` ties each row of the image to its row of the framebuffer, turned and dark as the mode says. A
write of a byte paints one row, so the lemmas are per row, and a change of the mode paints all of them.

*Clock.* `ClockInv` has the range of each field, a date of the calendar outside program mode, and for an adjustment
that each field with no increment to come is at its target. In program mode the day can be 0, or 31 in a short
month, so the calendar is not invariant there; that the targets are dates brings it back at the end. The code
adds to a BCD digit and corrects it; the lemmas up to `WeekdayTurns` show that each routine is an increment of a
number with its limit, `DateAdvances` that the day after is the next number (with `YearLength` and
`MonthsOfYear` for the leap years), and `IncrementIs` that an increment leaves the other fields alone, which is
false in December.

*Override.* While an app owns the RAM the core has it as running, and the time since its last instruction plus
what the call still takes is within the longest call (`Known`). A saved state must satisfy the same, as the user
can load it at the end of any frame. A comment of `psemu.c` promises that the grace period is longer than a call.

*Content files.* `ContentInv` says that the user's file is a file (of cells of the inputs, of the app or of the
core) and that an open file is of one kind (`HasKind`), with the flash its load where nothing was stored.
`KindIs` shows that the tests of the core for a kind, in their order, are those of `HasKind`, thus that no file
has two kinds that start alike: whole blocks and one frame are never a card (`NotCard`). `LoadIs` and `BuildIs`
give the cells of a load and of a write-back, and `KindStays` that the header of the app is all that the kind
needs from the flash. The identity reads four frames of an app at most (`TitleSame`). The list of blocks that the
directory links is the fixed point of a step (`ListInOrder`), which an induction over a set of numbers shows to be
1, 2, 3 and so on; `BlocksAre` and `PlaceIs` place a frame in its block.

Only model-checked:

* the liveness properties (the prover has no ENABLED);
* `RunPair`, and the instructions of `MCCpu` (their arithmetic on bits has no backend);
* of `MCBoard` TCP, that the adjustment ends (`AdjustEnds`) and that the override comes back (`ComesBack`).

## 5. Disagreements between the code and its documentation

Two runs violate a property that states what a comment promises:

| Run | Code | What it shows |
|---|---|---|
| `writeback_open_second_card` | `main.c:1077` | File > Open of a second card replaces the flash before the poll that is to write the edits of the first; the poll writes the second card into the first file. |
| `irlink_late_pong` | `ir_link.c:262` | A PONG of a PING that timed out answers the next PING. |

The next ones follow from a change of one constant of a passing run:

| Change | Property that fails | Code | What it shows |
|---|---|---|---|
| `"close"` in `Faults` of `writeback_menu`; of `writeback` | `ImplementsAtomicFile`; `EditNotForgotten` | `content_writeback.c:139` | The result of `fclose` is not read; a truncated temporary file can replace the user's file, and the edit counts as written. |
| `"copy"` in `Faults` of `writeback` | `BackupIsOriginal` | `content_writeback.c:121` | The result of `CopyFileA` is not read; a file can change with no backup. |
| `"open"` in `UserOps` of `writeback` | `EditNotForgotten` | `main.c:1077` | File > Open replaces the flash before the poll and arms with the new content after it, whatever the poll did: the pending edit that the comment at `main.c:1083` says it flushes is lost when its last commit failed. |
| `"reset"` in `UserOps` of `writeback` | `EditNotForgotten` | `main.c:1106` | A reset after a failed commit makes the edit part of the baseline, against the comment at `main.c:1102`. |
| `"state"` in `Faults` of `writeback` | `OnlyEditsReachDisk`, `EditNotForgotten` | `main.c:1203` | A state file that fails after the flash was replaced leaves the write-back without a resync. |
| `DamagedStates = TRUE` in `units` | `LinkFollowsClock` | `main.c:1203` | The same return skips `drop_ir_link`, so a link goes on over a clock that moved. |
| `BareStates = TRUE` in `units` | `ShellShowsState` | `main.c:2198` | A state carries whether a BIOS is loaded; after a load the menu still shows what held before. |
| `Nameless = {"A"}` in `units` | `SettingsSurvive` | `main.c:895` | A key without a name is written as an empty text, which the next session reads as the default. |
| `MonthWraps = TRUE` in `board` | `ClockIsExact` | `core/src/rtc.c:83` | An increment of the month past December sets the day to 1, so a kernel that set the day first loses it. |
| `"clock"` in `Faults` of `irlink_sync` | `NoEdgeBeforeSync` | `ir_link.c:278` | After a sample with a negative round trip, an edge gets to the core before the first sample. |
| `Builds <- OldBuild` in `irlink_sync` | `SyncEnds` | `ir_link.c:242` | A version mismatch does not close the transport; the peer waits for ever. |
| `Steps = {4}` in `units` | `FilterIsExact` | `core/src/ir.c:293` | A tick that covers both edges of a pulse longer than the debounce time drops it. |

And these from a property that a module states in its literal form:

| Property | Code | What it shows |
|---|---|---|
| `ContentWriteback!BackupIsComplete` | `content_writeback.c:120` | `content_writeback.h:48` promises a copy of the unchanged file before the first change. A process that dies inside `CopyFileA` leaves a part of it as `.bak`; the test at line 120 takes that for a backup and keeps it, and later commits change the file. |
| `DesktopUnit!StopLosesNothing` | `main.c:781` | The comment at `main.c:248` gives writes at each change as the reason why a forced stop loses no change. `fopen` with `"w"` empties the file first, and the results of `fprintf` and `fclose` are not read: a stop or a full disk in a write leaves an empty or cut file, and the next session reads defaults for the lines that it lacks. |
| `SettingsSurvive` without its exception (`~written.torn`) | `main.c:2003` | After such a file a row has its default key back while another row, whose line is there, has the same key. |
| `ClockUnit!EachChangeAdvances` | `core/src/rtc.c:251` | The comment at `rtc.h:108` says that each change of the line advances the clock while it runs; the code advances it at each fall, and the comment at `rtc.c:247` says why. |
| `IrUnit!StretchIsBounded` | `core/src/ir.c:180` | A fall after an overlapped pulse is delayed by more than the ON time, against the comment at `ir.c:170`. |
| `VerifySucceeds` without its exception (`Written => Landed`) | `core/src/flash.c:303` | A header update leaves the flash armed, so the three steps of the next routine do not arm it: a frame with a key address fails the read-back, and a second header update writes to the card. |
| `CpuExec!HalfwordQuirkInBoth` | `core/src/thumb_exec.c:278`, `283`, `316` | `docs/hardware-notes.md:25` describes what a misaligned LDRH does on the hardware; `arm_exec.c:395` does it and the Thumb loads do not. `HalfLoads` of `MCCpu` has the instructions. |
| `PanelUnit!FrameIsFresh` | `core/src/state.c` | A loaded state brings the dirty flag of its own time back; a host that draws by the flag keeps the old picture. |

Smaller ones, which no property states: a `settings.cfg` that was edited by hand, or written by a version with
other defaults, can give two rows one key (`main.c:2003`); a `.gme` file that is shorter than a card grows to
a full card at its first commit, after which older save states no longer match its size; the comment at
`main.c:1004` says that callers drop the link before the machine changes, and most do it after; `rtc.h` calls
the time and date registers read-only and `rtc_write8` stores to them; no frontend calls the volume override
of `psemu.h`.

The coarse tick needs a tick longer than the debounce time. In `psemu_run` ticks are the time of one
instruction or end before the next event, so it bites only at slow CPU clocks, where one instruction covers
many reference cycles.

## 6. Not modelled

* The decoding of opcode bits into fields, the addresses of the memory map and its mirrors, the byte lanes of
  most registers and the frequency table: data without an order of events; `tests/cpu_test.c` covers them.
* The byte layout of save states. `RunPair` and `RingUnit` have what is in them.
* The Vita stub, the web build, drawing, audio output, speaker simulation and dialog layout: pure I/O.
* The tools, the tests, the benchmark app and the build files.
* A stall of the main loop longer than the relatch time in the middle of a message: the design accepts wrong
  spacing then. The clamp of a local time below 0.

## 7. Plan

1. Proofs: lemmas on `RunLoop` (the limits keep each event outside the skip).
2. The two directions of `PipeLink` at once, and `IrLink` over `MessageStream` in place of its own wire.
3. The diagnostic readers of the core API, and `clk.c` with its byte lanes.
