# Verification of the Midi Fighter Twister firmware

TLA+ models of the firmware in `src/src/*.c`, model-checked with TLC. Every safety
property that the passing runs check is also proved with TLAPS, for systems of any size
and under the conditions of section 4. Paths without a directory are under `src/src/`.

| Module | What it is | Run(s) |
|---|---|---|
| `SysExMessage` | what the SysEx receiver promises, message by message | (refined by `SysEx`) |
| `SysEx`, `SysExProofs` | the packet parser of `sysex.c`, and its proofs | `sysex_parser` |
| `StepTally` | what reading an encoder promises: one indivisible step | (refined by `EncoderInput`) |
| `EncoderInput`, `EncoderInputProofs` | the scan interrupt and the main loop sharing an encoder's step counts | `encoder_input`, `encoder_wrap` |
| `SwitchInput`, `SwitchInputProofs` | the debounce ring of the encoder switches, and its proofs | `switch_input` |
| `Surface`, `SurfaceProofs` | switches, shift pages, bank selection, native mode, and the host | `surface`, `surface_stuck` |
| `Config`, `ConfigProofs` | settings in EEPROM and RAM, transfers, resets, power failures | `config`, `config_torn_reset` |
| `Encoders`, `EncodersProofs` | the values of the encoders, their display, the host's copy of them | `encoders`, `encoders_stale_count` |
| `Display`, `DisplayProofs` | what the lamps show, the caches that decide what is drawn, sleep, native mode's tables | `display` |
| `SlotStore` | what the sequencer's pattern memory promises | (refined by `Sequencer`) |
| `Sequencer`, `SequencerProofs` | the step sequencer, the MIDI clock, the task scheduler, the pattern memory | `sequencer` |

`MC<module>` gives each module its finite instance. To repeat a run:
`tlc -config <cfg> MC<module>`; to repeat the proofs of a
component: `tlapm <module>Proofs.tla`.

## 1. The system

The Midi Fighter Twister is a USB MIDI controller: 16 push encoders, each with
a ring of LEDs and an RGB segment, and six side buttons. An AVR XMEGA runs one
main loop and timer interrupts; there is no operating system. A
*configuration utility* on the host talks SysEx to it, and any MIDI application
sends *feedback* that the encoders show.

This build defines `EXTENDED_BANKS` (`constants.h:82`): eight banks, no
sequencer. `Sequencer` models the firmware built without it, where everything
else is the same but for the number of banks. `ENABLE_MAX_LED_UPDATE_SPEED`
(`display_driver.h:36`) leaves out the fading of the bank change animation, not
its first picture.

### Inventory

| Component | State | Operations | Entered from |
|---|---|---|---|
| `input.c`, rotation | per encoder: last pin levels, step count, cycle count, inactivity counter, last direction | `encoder_scan`; `get_encoder_value`, `get_encoder_cycle_count` | timer interrupt (every 1.28 ms); main loop |
| `input.c`, switches | ring of 10 samples and its position; state, previous state, edges | `encoder_scan`; `update_encoder_switch_state` | timer interrupt; main loop |
| `encoders.c`, values | raw values by bank and layer, detent counters, fine remainder, switch toggles, indicator buffer | `process_encoder_input_*`, `process_element_midi`, `change_encoder_bank`, `refresh_display` | main loop, MIDI |
| `encoders.c`, switches | MIDI state and colour of every switch of every bank, shift page states and host overrides | `process_encoder_input_switch`, `run_shift_mode`, `process_sw_*_update`, `process_shift_update` | main loop, MIDI |
| `side_switch.c` | edges, toggle states per bank, the operation mode, bank select overlay | `process_side_switch_input`, `do_side_switch_function` | main loop |
| `sysex.c` | parser state, reading flag, write pointer, buffer of 127 bytes, table of handlers | one handler per kind of USB-MIDI packet | `midi.c` |
| `config.c` | EEPROM (layout version, 16 global bytes, encoder pages) and its copy in RAM | `PushConfig`, `PullConfig`, `BulkXfer`, `System` (factory reset), start-up | `sysex.c`, `main.c` |
| `native_mode.c` | native mode on/off; per encoder indicator and switch settings and values | SysEx configuration, CC input, switch and turn hooks | `config.c`, `midi.c`, `encoders.c`, `side_switch.c` |
| `midi.c` | active sense and clock counters | packet dispatch, sending | main loop, all of the above |
| `main.c` | USB and watchdog state | start-up, the loop, USB events | reset, LUFA |
| `encoders.c`, drawing | per encoder the last value, colour and animations drawn; the next encoder to draw | `update_encoder_display`, `refresh_display` | main loop |
| `display_driver.c` | frame buffer, brightness, animation phases, idle timer and sleep flag | `reset_idle_timer`, `sleep_frame`, `bank_change_animation`, `run_sparkle`; rendering; display interrupt | all of the above; timer interrupt |
| `sequencer.c`, `sequencer_input.c` | playback state and step, patterns, clips, shift memory, pattern memory in EEPROM and the flags of its slots | `send_triggers`, `seq_midi_clock_handler`, `process_sequencer_input`, `process_seq_side_buttons`, `*_pattern_memory` | MIDI clock, scheduler interrupt, main loop (without `EXTENDED_BANKS`) |
| `input.c`, scheduler | the one task that is scheduled | `schedule_task`, `cancel_task`, `do_task` | sequencer; timer interrupt |
| `eeprom.c` | – | not called | – |
| `self_test.c`, `jump_to_bootloader.c`, `colorMap.c`, `Descriptors.c` | – | factory procedure; jump away; constant tables | – |

### How they interact

One pass of the main loop (`main.c`, `Midifighter_Task`) is:

1. `process_encoder_input`: read the debounced encoder switches, then for each
   encoder its turn (step and cycle counts, read with interrupts disabled) and
   then its switch. On a shift page only the switches are looked at
   (`run_shift_mode`).
2. The display: asleep, `sleep_frame`; otherwise six encoders are looked at and
   drawn if their cache says so, unless the bank select overlay is up.
3. `process_side_switch_input`: the six side buttons. Held together, two of
   them toggle native mode.
4. The packets of the host (`process_midi_packet`): up to 512 packets from USB. SysEx packets go to `sysex.c`,
   which calls handlers of `config.c` and `native_mode.c` once a message is
   complete; notes and controls go to the encoders, shift pages, banks or native
   mode.

The timer interrupt samples the pins at any point of the loop; another counts the
idle time, and with the sequencer one more runs the scheduled task, except while
packets are read. Nothing else is concurrent inside the device; the host and the
power supply are.

### What is hard

- **The interrupt against the loop.** Step counts are read and cleared, and the
  debounce ring is read, while the interrupt writes them (`input.c:437` without
  disabling interrupts, `encoders.c:599` with).
- **Press and release are handled by different code.** A switch means something
  else in another bank, on a shift page, under the bank select overlay, in native
  mode – and all of these can change while it is down.
- **State that outlives its context.** One detent counter per physical encoder
  serves every bank, both ends and the detent. Values are copied from bank to
  bank. Native mode consumes releases.
- **Painting over caches.** Shift pages, the overlay, sleep, flashes, sparkles and
  native mode paint over lamps that the drawing code believes it knows.
- **Looking up what was started.** The sequencer ends a note by looking at the step,
  pattern and clip that are current then; the clock may become stable between a
  trigger and the next.
- **Messages that cross.** Host and device both change banks and switch states.
- **Messages cut short**, run together, too long, or begun before power-up.
- **Power failing** between any two of the EEPROM writes of a push or a reset.
- **Widths and limits:** 8-bit step counts, signed 16-bit raw values, a 127-byte
  buffer, tables indexed by what the host sends.

### What makes each component correct

| Component | Correct means |
|---|---|
| Rotation input | the loop reads exactly how far the shaft moved, with the time it took; a bounce is at most one step |
| Switch input | the debounced state is one the switch had; every press is reported; the edges tell the state |
| SysEx | every complete message that fits is acted on exactly once, as its bytes say; the buffer is never overrun; the receiver recovers after one bad message |
| Surface | host and device agree on the bank, on every switch, on every page; momentary means momentary; lights show states |
| Settings | what was answered survives power failures; transfers do not disturb each other; RAM agrees with EEPROM; resets are whole |
| Values | host, stored value and display agree; a turn never goes the wrong way |
| Native mode | what the host configured last is what is shown; the rest of the device is as before when it ends |
| Display | a cache never claims what a lamp does not show; the lamps come to show the state of the device |
| Sequencer | one trigger per sixteenth; notes end; shift is undone; a stored kit survives whole |

## 2. The models

### SysExMessage and SysEx

`SysExMessage` says what the host may rely on: a message is handled exactly
when it is addressed to the device and fits, and an abandoned message spoils at
most the one that follows it. `SysEx` has one action per packet handler of
`sysex.c` (`sysex_handle_3sc`, `_3e`, `_2e`, `_1e`) plus the host, which starts a
message and may give up between packets. `sysex_ptr` is kept as its distance
from the buffer, so the NULL of power-up is a large negative number and a store
through it is visible (`wild`). Command handlers are the record `handled`: which
one was called with which bytes. `WholeMessages` is the refinement,
`INSTANCE SysExMessage` under the identity mapping of `msg`, `handled`, `dirty`:
every packet but the last is a stutter.

### EncoderInput

One encoder. `encoder_scan(m)` is the interrupt when the shaft moved by `m`
(two steps at once means the direction was missed); it contains the whole table
decode, debounce rule, counter arithmetic and wrap-around. The read of the main
loop is four separate memory accesses (`ReadValue`, `ClearValue`, `ReadCycles`,
`ClearCycles`) between which the interrupt may fall unless it is disabled. The
start-up read of `main.c:291`, which runs with interrupts enabled, is the first
one. The sixteen encoders are independent in this code, so one suffices.

`StepTally` is what a read is meant to be: one step that takes the steps and the
time they took and leaves both empty. `TakenWhole` is the refinement: the tally is
taken at the first of the four accesses, and the later three are stutters.

### SwitchInput

One bit of the switch word. The interrupt writes a slot of the ring; the loop ORs
the slots one at a time (`OrSlot`) with the interrupt falling anywhere between,
then derives the edges. A history of the samples says what was true at which
moment.

### Surface

The main loop as the switches see it: `BeginEncoders` polls, then one action per
edge – overlay, native mode, hold, toggle or shift page – then `BeginSides` with
the native mode combination, one action per side switch edge and action type, then
the host's packets. `host` is what the host believes about each *topic* (a switch
of a bank, a switch of a page, a side switch, the bank), updated by what the device
sends and by what the host itself sends. The host may also push settings, which
reset the lights of all switches but not their states (`unlit` remembers which), and
configure the USB device again, which sets normal mode. Messages under way are in `inbox`; a
topic on which messages have crossed is excepted until the next message on it.

### Config

EEPROM as version, 16 global bytes and pages of encoder settings, and the copy in
RAM. Every EEPROM write of a reset or a push is a step, and `PowerLoss` may come
between any two. Field packing is modelled with its widths: channels are counted
from 1 by the utility, stored from 0 in a nibble, other fields cut to their bits.
A transfer puts the decoded table into RAM as it is, markers for unsent fields
included, and merges it into the EEPROM page; `PushConfig` reloads RAM. `sent`
and `acked` record what the utility was entitled to expect. Pulls change no state:
`Reply` and `Pulled` are what they answer.

### Encoders

Values of every bank on both layers (base and shifted). A turn first refreshes
the display and transfers values to other banks (`reset_idle_timer`), and then goes
to the first of detent, dead zone, relative, absolute – the order of the code.
Switch edges are latched at the beginning of a pass and a turn is handled before
the switch of the same encoder. `process_element_midi` is feedback,
`change_encoder_bank` transfers and rebuilds. `BeginSelecting`, `SelectWithSwitch`
and `EndSelecting` are the bank select overlay, under which presses and releases
skip the switch actions. `heard` is the last value sent or received per channel and
number.

### Display

A picture on a lamp is a tuple that says what was drawn: a value with the settings
of a bank, a colour, an animation, native mode's settings, the overlay, dark. One
action is one part of a pass (encoders, drawing, side switches, packets) with at
most one event. The four caches are those of `encoders.c:1577`, and `Forget` is
what `change_encoder_bank` does to two of them; everything that wakes the device or
changes the bank goes through it. `Paint` is the pulse that a held bank select
switch draws in every pass. Native mode's tables are `nm_state`; configuration
messages are applied part by part (`ReceivePart`), and encoder 16 hits the neighbour
of the table it is stored in, as the struct lays them out. `RingOf` and `RgbOf` say
what a lamp should show, from the state and never from the caches.

### SlotStore and Sequencer

`Sequencer` has one action per branch of the handlers. A tick of the MIDI clock
(`midi_clock`) starts playback, sends the triggers of a step at once or schedules
them, depending on whether the clock is stable; `do_task` is the scheduler's
interrupt, which may fall between any two steps of the main loop. `sounding` is what
is on at the receiver, and `lost` is that part of it whose release something has
forestalled: a change of the clip or the pattern of that very slot, a change of the
place, a stop, or a beat repeat that plays steps that are not set; a change in one slot
excuses no other. Any number of side buttons may move before the main loop looks at
them; a pass (`passing`) then handles all their edges in the order of their numbers,
the rest of them also when one has left the sequencer, with the scheduler's interrupt
falling between. Saving a kit is two EEPROM pages with power failing anywhere between;
`SlotStore` promises that a slot is empty or holds what was saved, whole, and
`SlotsSurvive` is the refinement with `store` read from EEPROM: the write of the
second page, which carries the flag, is the step that saves.

### How the modules divide the system

`EncoderInput` ends where `Encoders.Turn` begins: a read of `n` steps.
`SwitchInput` ends where `Surface.BeginEncoders` and
`Encoders.update_encoder_switch_state` begin: a set of edges. `SysEx` ends where
the command actions of `Config` and `Surface.ReceiveNative` begin. `Surface` and
`Encoders` split `encoders.c`: what the switches send is in the first, what they
do to values in the second; each is complete about the modes the other depends on.
`Display` has the events of both as far as they change what should be drawn or paint
over it. `Sequencer` shares no state with them but the mode, from which it starts.

## 3. What the runs show

`display` assumes weak fairness of the whole next-state relation: the main loop
never stops, so that some part of a pass is always carried out (`main.c:309`, `while
(1)`, under a watchdog). It assumes nothing about which events happen. The other
runs check safety properties and refinements of safety specifications and assume
nothing.

| Run | Distinct states | What it shows |
|---|---|---|
| `sysex_parser` | 189 104 | `PointerInBuffer`: the pointer stays below the end. `IdleMeansBegin`: no verdict outlives its message. `InStep`: parser state and buffer are exactly what the bytes so far call for. `HandlerSeesTerminator`: handlers get a status byte last, which `sysExCmdNativeMode` relies on. `WholeMessages`: the promise. |
| `encoder_input` | 398 776 | `ReadsWholeMovement`: steps arriving during the read are neither lost nor counted twice. `StepsTakeTime`: never steps without the cycles they took, by which the velocity is divided. `BounceCountsOnce`. `TakenWhole`: the four accesses of a read are one step of `StepTally`. |
| `encoder_wrap` | violation | finding 1 |
| `switch_input` | 30 863 | `ReportsAMoment`: although the ring changes while it is read, the state is that of one moment. `NoPressLost`: while the loop comes round often enough, no closed sample is missed. `EdgesTellState`. |
| `surface` | 1 746 336 | `HostKnowsSwitches`, `HostKnowsPages`, `HostKnowsBank`: host and device agree, however banks, pages, overlay and native mode come between a press and its release, and whichever messages cross. `MomentaryModes`: what is momentary ends with its switch. `LedFollowsSwitch`: the switch that changes the bank in mid-loop leaves no light behind. |
| `surface_stuck` | violation | finding 2 |
| `config` | 214 518 | `AnsweredConfigIsDurable`, `EncoderKeepsWhatWasSent`, `OnlyPendingIsStale`, `ResetIsWhole`, with a power failure anywhere. |
| `config_torn_reset` | violation | finding 3 |
| `encoders` | 356 528 | `HostAndDeviceAgree` (within what the code changes without sending), `IndicatorShowsTheValue`, `OnlyStopsGiveWay`. |
| `encoders_stale_count` | violation | finding 4 |
| `display` | 273 346 | `CacheTellsTruth`: whatever painted over the lamps, a cache that claims to know one is right. `DisplayCatchesUp` (`[]<>`): when nothing happens any more the lamps come to show the state of the device, on every page, in native mode, asleep, and after an animation has ended. |
| `sequencer` | 353 339 | `OneTriggerPerSixteenth`: across the tick at which the clock becomes stable no sixteenth is missed or doubled. `NotesEnd`: in every slot a note ends with the step that follows, that of step 16 with step 1, unless something of that slot was changed under it. `ShiftUndoes`: clips, choice of patterns and patterns. `SlotsSurvive`: the pattern memory under power failures. |

### Findings

1. **Steps wrap** (`input.c:381`). The shift pages never read the encoders;
   128 steps turned meanwhile come out the other way.
2. **Native mode swallows releases** (`side_switch.c:188`). A shift page is held by a
   side switch while the host switches native mode on; the switch is released, which
   native mode consumes; the host switches native mode off, and the device is on the
   shift page with nothing held. The bank select overlay stays in the same way.
3. **A torn reset is final** (`config.c:443`). The version is written before the
   settings it vouches for, so power failing in the reset of a new firmware leaves a
   mixture that no later start repairs.
4. **The detent counter outlives its detent** (`encoders.c:702`). The count with which
   a detent is left is kept. In the run the bank is changed then, and in the other bank
   one turn down at the lower end lifts the value off that end. The code needs no
   change of bank for it: a turn down fast enough to pass over the detent will do.

### Bounds, and why they are enough

- `SysEx`: a buffer of 5 bytes instead of 127. The parser compares `ptr + n` for
  `n` in 1..3 with the end, so every alignment of message and end occurs with
  messages up to two bytes too long. Payloads are fixed per length; the proofs
  cover every size (4 to 255) and every message.
- `EncoderInput`: debounce 3 scans (6 in the code), inactivity 4 (100), step count
  −4..3, cycles modulo 32, two movements between reads (`MaxEvents`). Two
  movements are enough for a reversal, and the wrap run lowers the range instead
  (−2..1) so that they wrap. A pause longer than the inactivity threshold saturates.
- `SwitchInput`: a ring of 5; `ScansPerUpdate` = 1 because a scan comes every
  1.28 ms and reading the ring takes microseconds. With more scans in one update
  `ReportsAMoment` would not hold: this is the timing it rests on.
- `Surface`: two banks, one or two encoders, two or three side switches, one packet
  under way, one or two edges of a kind per pass. The five settings of `surface` (`MCSurface`)
  put next to each other the actions that compete for the same state; one packet under
  way is enough for messages to cross. `surface_stuck` has a setting of its own: one
  side switch, outside the native mode combination, that holds a shift page, and a host
  that switches native mode on and off.
- `Config`: two pages of two encoders (a neighbour on the page and another page),
  one power failure, two tables and three transfers whose values sit at both ends of
  their fields and, once, beyond.
- `Encoders`: two banks, one encoder, CC values 0..4 with the centre at 2, detent and
  dead zone of one tick, counter within ±3, turns of one or two ticks, and seven
  configurations: same mapping with and without detent, different mappings, shift
  toggle and hold, the resets, fine adjustment, velocity, responsive.
  `encoders_stale_count` has one: a detent in one bank, another mapping without one in
  the other. The raw
  arithmetic (100 per step, 178, 25, 255, the detent's limits at −60 and +150) is
  that of the code.
- `Display`: two encoders, so that one is drawn while the other waits; two banks; two
  levels, so that a value can come back to what the cache holds; events at one
  encoder. One encoder of two is drawn in a pass, where the code draws six of
  sixteen: what matters is that some are drawn later than others. A
  scenario (`MCDisplay`) names the events of a behaviour, which may happen any number of
  times; the seven pair everything that paints with what it interferes
  with. All of them together are too many states for one run.
- `Sequencer`: four slots and sixteen steps, as in the code; two clips, two patterns and
  the velocities 0, 5 (lost in saving) and 127. A scenario (`MCSequencer`) names the
  events, buttons and encoders of a behaviour; the eight are about playing, editing
  step 16 of the last slot while the first plays too, the transport, the pattern memory
  in use while it plays and under power failures, shift, and the side buttons.
  `MaxLate = 1`: a scheduled trigger runs
  before the second tick after it, which is the scheduler's timing (half or three
  quarters of a tick); later, a trigger could fall into the next sixteenth. The clock
  is said to settle at the second tick of a quarter only, because its average is
  looked at there only; at any other tick the property fails, which is its mutant.

## 4. What is proved

There is a module of proofs for each of the eight components. A theorem holds for
every value of the constants that the named assumptions of the component's module
allow; TLC evaluates these on every run. Six theorems have a hypothesis besides, stated
with them, and the runs satisfy it.

The invariants below were first checked by TLC, on the instances of section 3.

### The SysEx receiver

`SysExProofs` proves, for every set of bytes containing 0, every set of messages
that are non-empty and end in a status byte, every buffer of 4 to 255 bytes and
every non-zero buffer address (the four assumptions of `SysEx`):

| Theorem | Statement |
|---|---|
| `TypeCorrect` | `Spec => []TypeOK` |
| `BufferBound` | `Spec => []PointerInBuffer` |
| `IdleParserIsFresh` | `Spec => []IdleMeansBegin` |
| `ParserInStep` | `Spec => []InStep` |
| `HandlersGetTheEnd` | `Spec => []HandlerSeesTerminator` |
| `Implementation` | `Spec => WholeMessages`, the refinement |

The buffer is at least 4 bytes, so that the shortest command fits, and at most 255,
because `sysex_handle` takes a `uint8_t` length.

**The argument.** `IInv` conjoins the five properties with `DJTTHasCommand`: in
state `DJTT` the buffer already holds two bytes. After an abandoned message `InStep`
says nothing, and what is left of two messages run together may still reach a
handler; `DJTTHasCommand` is what then guarantees that a byte follows the command.
`InStep` carries the refinement: at an end packet
it says that the buffer holds the message so far, so that what the handler is given
is what `SysExMessage` computes from the message. The lemmas go one per action
(`StartOrContinue`, `End3`, `EndShort`), with a common one for the dispatch
(`HandleStored`); `StoredEndKeepsPromise`, `ShortCommandKeepsPromise` and
`DroppedEndKeepsPromise` are the three ways in which the last packet of a message
meets the promise: stored, too short to have a command, dropped.

The bound is from above: as the very first packet after power-up a 3-byte end is
stored through the NULL pointer (section 5), which `wild` records. What is proved is
that the pointer never passes the *end* of the buffer, and that while a message is
being read it is not before its beginning either.

### The switch debouncer

`SwitchInputProofs` proves, for a ring of any size from 2 on (`SwitchAssumption`):

| Theorem | Statement |
|---|---|
| `TypeCorrect` | `Spec => []TypeOK` |
| `FollowersKnow` | `Spec => []EdgesTellState` |
| `OneMoment` | `ScansPerUpdate <= 1` implies `Spec => []ReportsAMoment` |
| `EveryPressReported` | `ScansPerUpdate <= 1` implies `Spec => []NoPressLost` |

The condition on the last two is the timing of the hardware, not a convenience: two
scans in one update can show the loop a mixture of three rings.

**The argument.** None of the four is inductive. `RingCounts` ties every slot to the
number of samples since the last closed one, through the slot's age. `SeesOneBuffer`
says that what the loop has read is part of one ring: the present one, or, if the scan
wrote a slot the loop had already read, the ring with that slot's old value put back
(`Before(old)`, an existential, because the code forgets it). From these
`ReportsAMoment` follows at the end of the loop. `StartedIsRecent` and
`UnseenIsRecent` bound how much older a sample can get between the beginning of an
update and its end, which gives `NoPressLost`. `FollowerKnows` is the state between
updates that makes the edges inductive.

### The encoder input

`EncoderInputProofs` proves, for counters of any width, any debounce time from 2 on and
any inactivity threshold not below it that fits the cycle counter (`InputAssumption`):

| Theorem | Statement |
|---|---|
| `TypeCorrect` | `Spec => []TypeOK` |
| `BouncesCountOnce` | `Spec => []BounceCountsOnce` |
| `MovementIsRead` | `CountFits` implies `Spec => []ReadsWholeMovement` |
| `TimeComesWithSteps` | `TimeFits` implies `Spec => []StepsTakeTime` |
| `Implementation` | `Spec => TakenWhole`, the refinement of `StepTally` |

`CountFits` says that the movements between two reads fit the step counter: at most 127
in the code, which the main loop gives while it reads the encoders. It does not on
a shift page, and what happens then is finding 1. `TimeFits` says that their time fits
the cycle counter; with a threshold of 100 cycles 127 movements take at most 12 827,
and the counter holds 65 535. The run `encoder_input` is within both.

**The argument.** `BInv` ties what the scan remembers to the shaft: the pins it saw last
are those of the shaft's place, and the inactivity counter is the age of the last
movement (`ScanRemembers`). The sixteen entries of the decoder's table are then worked
out once (`Decodes`), after which a scan is arithmetic (`ScanFacts`). `IrqGuard` and
`ReadIsAlone` say that nothing moves within a protected read: they make its first access
the step of the tally and the other three stutters. `CountIsMovement` and
`TimeCoversSteps` follow count and time through the places of the read; the second
is true from the first complete read on, because the cycle counts begin at 0xFFFF.

### The surface

`SurfaceProofs` proves, for any number of banks, encoders and side switches, any
settings, and host messages in any number, under way at once (`SurfaceAssumption`,
`ConfigsAssumption`; the second says that the device takes no message about a side
switch, and that a message about the bank names one there is):

| Theorem | Statement |
|---|---|
| `TypeCorrect` | `Spec => []TypeOK` |
| `Invariance` | `Spec => [](TypeOK /\ LastTold /\ HostInv)` |
| `BankIsKnown` | `Spec => []HostKnowsBank` |
| `SwitchesAreKnown` | `Spec => []HostKnowsSwitches` |
| `PagesAreKnown` | `Spec => []HostKnowsPages` |
| `LightsFollow` | `Spec => []LedFollowsSwitch` |
| `MomentaryEnds` | `Spec => []MomentaryModes` |

**The argument.** What the host knows is claimed only while nothing is under way, so the
invariant has to say something of the messages that are: `LastTold`, that the last of
them on a topic carries what the host believes, unless the device has spoken since. When
it is taken the device comes to hold what the host believes. With that, each step
is looked at topic by topic (`AllFollow`): a state stays and nothing is said of it, or
what is said is the state. `MomentaryModes` speaks of the moments between two rounds;
`MomentaryInv` says the same in mid-round, counting a release as held until its edge
has been handled, and needs `EdgesOfState`, that the edges are those of the present
state and none is left when the loop is over.

### The settings

`ConfigProofs` proves, for any number of encoders and pages, any transfers and messages
of 7-bit values (`TransfersAssumption`, `MessagesAssumption`: all SysEx data are) and
any number of power failures:

| Theorem | Statement |
|---|---|
| `TypeCorrect` | `Spec => []TypeOK` |
| `Invariance` | `Spec => [](TypeOK /\ WriteInv)` |
| `AnswersAreDurable` | `Spec => []AnsweredConfigIsDurable` |
| `ResetsAreWhole` | `Spec => []ResetIsWhole` |
| `RamIsLoaded` | `Spec => []OnlyPendingIsStale` |
| `TransfersAreKept` | `Spec => []EncoderKeepsWhatWasSent` |

**The argument.** `WriteInv` says how far the EEPROM writes have come: the bytes below
the one that is next are those of the message (`PushedSoFar`) or of a new device
(`ResetSoFar`, pages included), nothing is answered meanwhile (`NothingAnswered`),
and another layout is met at start-up only (`LayoutKnown`). A push is answered after its
last byte and a reset restarts after its last page, so both properties follow there;
power failing leaves the middle of the writes for good, and drops the claim. The
rest is packing: `LegalComesBack` and `AnswerIsWhatWasSent` say that a setting the
utility offers survives its bits, nibbles and counting from 1.

### The encoder values

`EncodersProofs` proves, for any number of banks and encoders, any range 0..n with n
from 4 to 127 and a centre two steps from both ends, detents and dead zones of 1 to 8
ticks, any settings, turns of up to 127 ticks and any messages (`EncodersAssumption`):

| Theorem | Statement |
|---|---|
| `TypeCorrect` | `Spec => []TypeOK` |
| `DisplayShows` | `Spec => []IndicatorShowsTheValue` |
| `HostAgreement` | settings that are `WellMapped` imply `Spec => []HostAndDeviceAgree` |
| `TurnsGoTheirWay` | `TicksFit` implies `Spec => OnlyStopsGiveWay`, an action property |

`WellMapped` asks that a message is about one value: in one bank an address belongs to one
encoder, it is not the base of one encoder and the shift of another, and encoders of
different banks that share it are all relative or all absolute. A new device is
(`encoders.c:425`): every encoder of every bank has a number, base channel 0, shift
channel 4. It is needed: the transfer leaves out the cases of section 5. `TicksFit` asks
that the fastest turn between two reads does not overflow the `int16_t` it is added up in
(`encoders.c:814`), which for 128 values is 78 ticks. Both are assumed by `MCEncoders`, so
that TLC checks them of the run's settings.

**The argument.** `TypeOK` and `IndicatorShowsTheValue` are inductive. Most of the work
is a common form for the branches of a turn and of a switch, `Acted`: one value
changes, the display shows it, and it is sent or is near what it was. The host
knows less than the value after the end of a dead zone or a detent is left, which the code
does without sending; `Faithful` lists what it may then know, and `Told` claims it of the
values that are absolute, were spoken of and not dropped. `AgreeInv` claims it of
the current bank and of the addresses nobody in it has: the others are stale until the
bank is left, when `TransferTells` puts them right.

### The display

`DisplayProofs` proves, for any number of encoders, banks and levels:

| Theorem | Statement |
|---|---|
| `TypeCorrect` | `Spec => []TypeOK` |
| `CachesAreTrue` | `Spec => []CacheTellsTruth` |

**The argument.** `CacheInv` claims of every encoder, drawn or not, what `CacheTellsTruth`
needs, but only while the lamps are the encoders' own (`OwnLamps`): not on a shift page,
asleep, in native mode, under the overlay, nor while a bank select switch pulses. Every
step then goes one of three ways: nothing changes what the caches are about
(`SameIsTrue`), one encoder is drawn and its caches set (`DrawingIsTrue`), or the lamps are
taken back and the caches forgotten in the same step (`ForgetIsTrue`).

### The sequencer

`SequencerProofs` proves, for any number of slots, clips and pattern buffers:

| Theorem | Statement |
|---|---|
| `TypeCorrect` | `Spec => []TypeOK` |
| `NotesAreReleased` | `Spec => []NotesEnd` |
| `TriggersComeOnce` | `Spec => []OneTriggerPerSixteenth` |
| `ShiftIsUndone` | `Spec => ShiftUndoes`, an action property |
| `Implementation` | `Spec => SlotsSurvive`, the refinement of `SlotStore` |

`SequencerAssumption` names the timing of section 3: a scheduled trigger runs before
the second tick after it (`MaxLate`), and that `None` is not one of the things it stands
beside.

**The argument.** `NotesEnd` is inductive, slot by slot: a step either plays, or leaves a slot
as it is, or puts what sounds in that slot into `lost` (`MayDisturb`). For the triggers,
`TaskIsFresh` says in which ticks of a sixteenth a task may be pending and `SentSoFar` how
many triggers have gone out at each of the six, with a stable clock and without.
`ShiftHolds` says that what shift will put back is what there was, as long as its page is
up. For the memory, `FlagsAgree` ties the flags in RAM to those in EEPROM but for the slot
at work, `SavesIntoEmpty` that the first page written is what plays until the second, with
the flag, is, and `LoadsFull` that a load in two steps takes both from one kit.

### What is only model-checked

`DisplayCatchesUp`: it is liveness under fairness, out of the prover's reach as is
`ENABLED`. The violations of `encoder_wrap`, `surface_stuck`, `config_torn_reset` and
`encoders_stale_count` are found by TLC; the theorems beside them say under which
condition, or in which weaker form, the property holds. Facts about recursive definitions
by induction over data are not needed: the models have none.

## 5. Divergences stated here and not given a run

Met while reading the code. Each is a local fact that needs no search.

- A 3-byte end that comes before any start (a host cut off in the middle of a
  message while the device starts) is stored through NULL (`sysex.c:178`); the comment
  at `sysex.c:144` says "check bounds before inserting anything."
- After a bulk transfer, RAM holds the marker `0x80` for every field not sent, until
  a `PushConfig`; `encoders.c:300` says such settings are ignored.
- A transfer to an encoder in shift state writes 128 entries past its own
  (`encoders.c:316`).
- The display switched off for a transfer (`config.c:274`) comes back on when the
  host configures the device again.
- A push disables the watchdog and does not enable it again: the call under the
  comment of `config.c:99` is commented out.
- Tags above 38 of a pushed table are stored past its end (`config.c:51`).
- A reversal faster than the debounce time is counted from its second step on
  (`input.c:389`); `input.h:87` says "Can't change direction faster than this".
- Presses on a shift page or under the overlay are not reported in native mode
  (`encoders.c:1082`; `src/doc/NativeMode.md:25`).
- The side switch notes of banks 6 and 7 are also shift page notes
  (`constants.h:65`).
- A super knob whose start equals its end divides by zero (`encoders.c:1133`).
- The cycle counts start at 0xFFFF (`input.c:149`), and a step that falls between the
  two calls of the start-up read leaves a count that wraps to 0 (`encoders.c:550`).
- Leaving a detent or an end changes a value that is not sent
  (`encoders.c:571`).
- A feedback value of 0 is ignored by encoders with a detent.
- Two encoders of the same bank with the same mapping drift apart, as do a base and
  a shifted channel with the same number: the transfer covers other banks only.
- The display divides raw values by 100 when rebuilt and rounds when turned.
- In native mode, encoder index 16, display type 4 and controller numbers above 15
  pass their checks; index 16 is stored over the neighbouring table.
- A second USB configuration sets normal mode under a held shift page switch
  (`main.c:376`).
- `encoders_init`, run by a push of settings, resets the colours of the switches and
  not their states (`encoders.c:186`): lights go out whose switch is on.
- The shift page comment says "RGB set to white if active" (`encoders.c:1065`); the
  colour it sets is dark.
- A bank change of the host under the bank select overlay leaves two lamps marked as
  the current bank, until the overlay ends; a press under the overlay while asleep
  changes the bank without waking the device; a bank select switch held while the
  device falls asleep, or in native mode, goes on pulsing.
- Errors of sending (`midi_stream_*`) are ignored everywhere: a message the USB
  buffer refuses is lost, and the device's state has changed.
- `real_time_start;` in `config.c:86` is a name and not a call.
- Sequencer: "any changes to the sound are undone once shift is released"
  (`sequencer_input.c:560`) does not hold of the volume; nor when the page is left
  with shift held; and of two middle buttons the second release restores once more.
  Shift set by button 5 makes the middle buttons leave the sequencer.
- Sequencer: notes stay on after a stop and after a change of clip, pattern or place
  ("Todo: Send Note Offs", `midi.c:289`), and after a beat repeat of steps that are not
  set. A trigger that is pending when the transport starts is not cancelled and
  doubles the step. A beat repeat goes on when the sequencer is left with the button
  held.
- Sequencer: the comment at `sequencer.c:270-273` says of step 16 that "slots 1 & 2 never
  send their Note Off", that "Slot 4 Never sends a note off", and that the note off of
  slot 4 is sent for slots 1 and 2. The code below it does none of this: the step before
  the first is the last (296-297), each slot looks in its own pattern (299) and has
  notes of its own (278). `NotesEnd` says so of every slot and of the last step, and is
  checked with four slots and proved for any number; with the wrap left out, or the
  first slot's pattern looked at for all, it fails.
- Sequencer: "one tick before it is due" (`sequencer.c:331`) is two ticks before;
  velocities below 8 are lost in the pattern memory; `truncate_steps[0]` is 0 and a
  divisor.

## 6. What is not modelled

- **Display**: which lights of a ring stand for a value, brightness, animation
  frames, the frame buffer and its DMA: numeric layout, no state that decides
  anything. What is painted and when is in `Display`.
- **Native mode**: the reports it sends instead of MIDI messages; controller numbers
  above 15, which are stored past the last table.
- **MIDI clock**: the average itself; `Sequencer` keeps when it may settle, and the
  animations read the rest.
- **Sequencer**: filter, volume, mute, effects and truncation of a slot, its own
  display, the messages that synchronise Traktor. They change what is sent along with
  a note and nothing the properties speak of.
- **Note output, super knobs**: more messages for the same value. **Animations and
  brightness by MIDI**: display only.
- **`eeprom.c`**: not called. **Self test**: one
  linear procedure. **Boot loader entry**: nothing runs after it. **Colour map,
  descriptors**: constants.
- **LUFA and ASF**: vendored, and most of the lines of the repository; modelled by how
  the firmware uses them (packets in order, EEPROM bytes written one after the other,
  an EEPROM page at once). With the vendored code, the numeric layout above and the
  constant tables set aside, every part of the firmware that keeps state is in a
  module; what could still be added is detail inside them, not behaviour.

## 7. Plan

The modules are done, and every safety property and refinement of section 3 is proved.
What is left would make the theorems say more:

1. `EncoderInput` without `CountFits`: what is read is the movement modulo the width of
   the counter, whatever the number of movements.
2. `Encoders` without `WellMapped`: which encoders may drift apart, and that no others do.
3. `Encoders` without `TicksFit`: the number of ticks from which each of the four
   multipliers of a turn can overflow, in place of that of the largest.
4. `Sequencer`: the notes that are on belong to at most one step, however shift, clip and
   place change.
