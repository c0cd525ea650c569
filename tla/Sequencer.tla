----------------------------- MODULE Sequencer ------------------------------
(***************************************************************************)
(* The step sequencer (sequencer.c, sequencer_input.c), the MIDI clock     *)
(* that drives it (midi.c) and the one-task scheduler that delays its      *)
(* triggers (input.c): the firmware built without EXTENDED_BANKS.  Every   *)
(* sixteenth a step of each slot's pattern is played: the note of the last *)
(* step is switched off and the note of this one on.  The musician chooses *)
(* clips and patterns, holds a pattern button to repeat a beat, edits      *)
(* steps, holds shift to try something out, and keeps patterns in EEPROM.  *)
(* Triggers fire in an interrupt, between any two steps of the main loop;  *)
(* packets are read with that interrupt disabled, so a tick is one step.   *)
(***************************************************************************)
EXTENDS Integers, FiniteSets, FiniteSetsExt

CONSTANTS
    NumSlots,       \* 4 in the code; rows of encoders are as long
    NumClips, NumBuffers,
    Velocities,     \* what a step is set to by turning its encoder
    Scenarios,      \* what may happen in one behaviour
    MaxLate,        \* ticks that may pass before scheduled tasks have run
    None

Slots    == 0..(NumSlots - 1)
Encoders == 0..(4 * NumSlots - 1)
Steps    == Encoders                \* one step of a pattern to an encoder
Memories == Encoders                \* and one memory slot
Clips    == 0..(NumClips - 1)
Buffers  == 0..(NumBuffers - 1)
Levels   == 0..127

\* What there is to do with the pattern memory, step by step.
Tasks == {"save page 1", "save page 2", "delete", "load patterns", "load clips"}

ASSUME SequencerAssumption ==
    /\ NumSlots \in Nat \ {0} /\ NumClips \in Nat \ {0} /\ NumBuffers \in Nat \ {0}
    /\ Velocities \subseteq Levels /\ MaxLate \in 0..1
    /\ None \notin Int
    /\ None \notin [what : Tasks, slot : Memories]
    /\ None \notin [steps : [Slots -> [Steps -> Levels]], clip : [Slots -> Clips]]

VARIABLES
    scenario,
    seq_state, rythmIndex,
    tick_counter, clock_stable,
    scheduled_task, \* "none" when the scheduler is idle
    op_mode, seq_traktor_mode, sequencerDisplayState, shift_active, selectedSlot,
    sides, prev_seq_side_sw_state,      \* side buttons down, and as last handled
    passing,        \* the main loop is in the middle of a pass over the side buttons
    down,           \* pattern buttons down
    mod_level,      \* per slot: rate of the beat repeat, 0 when off
    slot_clip, slotSelectedBuffer, pattern,
    slot_memory,    \* what shift will put back
    work,           \* what the main loop is doing with the pattern memory
    page1, page2, seq_memory_slot_state,
    late,           \* history: ticks since the pending task was scheduled
    sent,           \* history: triggers in this sixteenth, or None
    sounding,       \* history: per slot, the clips that are on at the receiver
    lost,           \* history: of these, those whose release something forestalled
    shifted,        \* history: clips and patterns when shift was pressed, or None
    recalled        \* history: what played after the last recall

clock    == <<tick_counter, clock_stable, scheduled_task, late>>
playback == <<seq_state, rythmIndex, sent, sounding, lost>>
kit      == <<slot_clip, slotSelectedBuffer, pattern>>
mode     == <<op_mode, seq_traktor_mode, sequencerDisplayState, selectedSlot>>
shift    == <<shift_active, slot_memory, shifted>>
buttons  == <<sides, prev_seq_side_sw_state, passing, down, mod_level>>
eeprom   == <<page1, page2>>
memory   == <<work, eeprom, seq_memory_slot_state, recalled>>
vars     == <<scenario, clock, playback, kit, mode, shift, buttons, memory>>

Happens(what) == what \in scenario.events

\* is_row_type and the slot that an encoder of the row belongs to.
Row(e)    == <<"clip", "pattern", "volume", "filter">>[e \div NumSlots + 1]
SlotOf(e) == e % NumSlots

get_step_state(s, i) == pattern[s][slotSelectedBuffer[s]][i]

\* The side buttons are the sequencer's.
SidesAreHeard == op_mode = "sequencer" /\ ~(seq_traktor_mode /\ sequencerDisplayState = "OFF")

\* The main loop is free to look at encoders and packets: it is not working on the
\* memory, and has handled the side buttons it has read.
Free ==
    /\ work = None /\ ~passing
    /\ SidesAreHeard => sides = prev_seq_side_sw_state

\* What is playing now.
Kit == [steps |-> [s \in Slots |-> pattern[s][slotSelectedBuffer[s]]], clip |-> slot_clip]

-----------------------------------------------------------------------------
\* Playback.

\* Mutant: the first step looks for its predecessor in itself.
PrevStepNoWrap == IF rythmIndex = 0 THEN 0 ELSE rythmIndex - 1

PrevStep == IF rythmIndex = 0 THEN 4 * NumSlots - 1 ELSE rythmIndex - 1

\* Mutant: the step counter does not wrap.
NextStepLate == rythmIndex + 1

NextStep == (rythmIndex + 1) % (4 * NumSlots)

\* Every how many steps the beat repeat plays, by its rate.
Every(rate) == <<4, 2, 1>>[rate]

Level(s) ==
    IF mod_level[s] > 0
    THEN IF rythmIndex % Every(mod_level[s]) = 0 THEN 127 ELSE 0
    ELSE get_step_state(s, rythmIndex)

\* Mutant: the note to switch off is looked up in the first slot.
OffByFirstSlot(s) == IF get_step_state(0, PrevStep) # 0 THEN {slot_clip[s]} ELSE {}

\* The clip that is switched off, and the one that is switched on.  Slot and clip
\* together are the note, 36 + slot + 4 * clip, so no two slots share one.
Off(s) == IF get_step_state(s, PrevStep) # 0 THEN {slot_clip[s]} ELSE {}
On(s)  == IF Level(s) # 0 THEN {slot_clip[s]} ELSE {}

\* A note is on its way to be released when the next step will look for it: a
\* beat repeat plays notes on steps that are not set.
Forestalled(s) == IF get_step_state(s, rythmIndex) = 0 THEN On(s) ELSE {}

send_triggers ==
    /\ sounding' = [s \in Slots |-> (sounding[s] \ Off(s)) \cup On(s)]
    /\ lost' = [s \in Slots |-> ((lost[s] \ Off(s)) \ On(s)) \cup Forestalled(s)]
    /\ rythmIndex' = NextStep

NoTriggers == UNCHANGED <<sounding, lost, rythmIndex>>

\* The place, the clip or the pattern changes under the sounding notes of some slots.
Disturbs(S) == lost' = [s \in Slots |-> IF s \in S THEN sounding[s] ELSE lost[s]]

\* The slots whose clip, choice of patterns or patterns a step changes.
Changed ==
    {s \in Slots : \/ slot_clip'[s] # slot_clip[s]
                   \/ slotSelectedBuffer'[s] # slotSelectedBuffer[s]
                   \/ pattern'[s] # pattern[s]}

\* reset_sequence; at the first step already, it changes nothing.
Rewind == rythmIndex' = 0 /\ Disturbs(IF rythmIndex = 0 THEN {} ELSE Slots)

\* Mutant: the clock may become stable at any tick.
SettlesAtAnyTick == TRUE

\* update_clock_counter: the running average may have settled, which counts at
\* the second tick only.  The average itself is left out.
MaySettle == tick_counter = 1

\* The trigger of a sixteenth is due from four ticks after the last one on, when
\* it is scheduled, until the tick it belongs to.
Counted(n) == IF sent = None THEN None ELSE sent + n

seq_midi_clock_handler(stable) ==
    \/ /\ seq_state = "WAIT_FOR_SYNC" /\ tick_counter = 0
       /\ seq_state' = "PLAYBACK" /\ send_triggers
       /\ sent' = IF scheduled_task = "none" THEN 1 ELSE None
       /\ UNCHANGED scheduled_task
    \/ /\ seq_state = "PLAYBACK" /\ stable /\ (tick_counter + 2) % 6 = 0
       /\ scheduled_task' = IF scheduled_task = "none" THEN "schedule_trigger"
                            ELSE scheduled_task
       /\ sent' = 0 /\ NoTriggers
       /\ UNCHANGED seq_state
    \/ /\ seq_state = "PLAYBACK" /\ ~stable /\ tick_counter % 6 = 0
       /\ send_triggers /\ sent' = Counted(1)
       /\ UNCHANGED <<seq_state, scheduled_task>>
    \/ /\ ~(seq_state = "WAIT_FOR_SYNC" /\ tick_counter = 0)
       /\ seq_state = "PLAYBACK" =>
            IF stable THEN (tick_counter + 2) % 6 # 0 ELSE tick_counter % 6 # 0
       /\ sent' = IF (tick_counter + 2) % 6 # 0 THEN sent
                  ELSE IF seq_state = "PLAYBACK" THEN 0 ELSE None
       /\ NoTriggers /\ UNCHANGED <<seq_state, scheduled_task>>

\* A clock tick of the host.  A sequencer under Traktor shows itself once the
\* clock is stable.
midi_clock ==
    /\ Free /\ Happens("tick") /\ (scheduled_task # "none" => late < MaxLate)
    /\ \E settled \in BOOLEAN :
         /\ settled => MaySettle
         /\ clock_stable' = (clock_stable \/ settled)
         /\ sequencerDisplayState' =
              IF settled /\ seq_traktor_mode /\ sequencerDisplayState = "OFF"
              THEN "DEFAULT" ELSE sequencerDisplayState
    /\ seq_midi_clock_handler(clock_stable')
    /\ tick_counter' = (tick_counter + 1) % 24
    /\ late' = IF scheduled_task = "none" THEN 0 ELSE late + 1
    /\ UNCHANGED <<scenario, op_mode, seq_traktor_mode, selectedSlot, kit, shift, buttons,
                   memory>>

real_time_start ==
    /\ Free /\ Happens("transport")
    /\ tick_counter' = 0 /\ clock_stable' = FALSE /\ sent' = None
    /\ UNCHANGED <<scenario, scheduled_task, late, seq_state, rythmIndex, sounding, lost,
                   kit, mode, shift, buttons, memory>>

\* reset_sequence and cancel_task.
real_time_stop ==
    /\ Free /\ Happens("transport")
    /\ Rewind /\ scheduled_task' = "none" /\ sent' = None
    /\ late' = 0
    /\ UNCHANGED <<scenario, seq_state, sounding, tick_counter, clock_stable, kit, mode,
                   shift, buttons, memory>>

\* do_task, the interrupt of the scheduler.  It runs between any two steps of the
\* main loop but not in delete_pattern_memory, which disables all interrupts.
do_task ==
    /\ scheduled_task # "none" /\ (work # None => work.what # "delete")
    /\ \/ /\ scheduled_task = "schedule_trigger"
          /\ scheduled_task' = "send_triggers" /\ NoTriggers /\ UNCHANGED <<sent, late>>
       \/ /\ scheduled_task = "send_triggers" /\ scheduled_task' = "none" /\ late' = 0
          /\ IF seq_state = "PLAYBACK" THEN send_triggers /\ sent' = Counted(1)
             ELSE NoTriggers /\ UNCHANGED sent
    /\ UNCHANGED <<scenario, tick_counter, clock_stable, seq_state, kit, mode, shift,
                   buttons, memory>>

Arm  == seq_state' = "WAIT_FOR_SYNC" /\ UNCHANGED <<rythmIndex, lost>>
Stop == seq_state' = "DISABLED" /\ Rewind

play_or_stop_sequence == (IF seq_state = "DISABLED" THEN Arm ELSE Stop) /\ sent' = None

\* process_seq_midi: the host starts and stops playback.
ReceivePlay(on) ==
    /\ Free /\ Happens("host play")
    /\ IF ~on THEN Stop ELSE IF seq_state = "DISABLED" THEN Arm
       ELSE UNCHANGED <<seq_state, rythmIndex, lost>>
    /\ sent' = IF seq_state' = seq_state THEN sent ELSE None
    /\ UNCHANGED <<scenario, clock, sounding, kit, mode, shift, buttons, memory>>

\* process_sequencer_input: a pattern button that is not down repeats nothing.
EndRepeats ==
    mod_level' = [s \in Slots |-> IF NumSlots + s \in down THEN mod_level[s] ELSE 0]

\* process_seq_midi: Traktor takes the sequencer over, once.
ReceiveEnable ==
    /\ Free /\ Happens("traktor") /\ ~seq_traktor_mode
    /\ seq_traktor_mode' = TRUE /\ op_mode' = "sequencer"
    /\ EndRepeats
    /\ UNCHANGED <<scenario, clock, playback, kit, sequencerDisplayState, selectedSlot,
                   shift, sides, prev_seq_side_sw_state, passing, down, memory>>

-----------------------------------------------------------------------------
\* Side buttons.

Middle == {1, 4}

Toggled(set, x) == IF x \in set THEN set \ {x} ELSE set \cup {x}

\* A button is pressed or released, and perhaps another one before the first is
\* handled.  In normal mode both middle buttons together bring the sequencer up;
\* what else the buttons do there is another matter.
MoveSide(b) ==
    /\ work = None /\ ~passing /\ b \in scenario.buttons
    /\ sides' = Toggled(sides, b)
    /\ IF op_mode = "normal" /\ b \in Middle \ sides /\ Middle \subseteq sides'
       THEN op_mode' = "sequencer" /\ EndRepeats
       ELSE UNCHANGED <<op_mode, mod_level>>
    /\ UNCHANGED <<scenario, clock, playback, kit, seq_traktor_mode,
                   sequencerDisplayState, selectedSlot, shift, prev_seq_side_sw_state,
                   passing, down, memory>>

Saved(s) == [clip |-> slot_clip[s], buffer |-> slotSelectedBuffer[s],
             steps |-> pattern[s][slotSelectedBuffer[s]]]

\* do_alternate_functions, on a press: shift, and with shift already on, leave.
ShiftDown ==
    IF shift_active
    THEN /\ op_mode' = "normal" /\ shifted' = None
         /\ UNCHANGED <<shift_active, slot_memory, kit, lost>>
    ELSE /\ shift_active' = TRUE
         /\ slot_memory' = [s \in Slots |-> Saved(s)]
         /\ shifted' = kit
         /\ UNCHANGED <<op_mode, kit, lost>>

\* Mutant: the patterns are put back into whichever is selected now.
RestoreIntoCurrent ==
    /\ slot_clip' = [s \in Slots |-> slot_memory[s].clip]
    /\ pattern' = [s \in Slots |->
                     [pattern[s] EXCEPT ![slotSelectedBuffer[s]] = slot_memory[s].steps]]
    /\ slotSelectedBuffer' = [s \in Slots |-> slot_memory[s].buffer]

Restore ==
    /\ slot_clip' = [s \in Slots |-> slot_memory[s].clip]
    /\ slotSelectedBuffer' = [s \in Slots |-> slot_memory[s].buffer]
    /\ pattern' = [s \in Slots |->
                     [pattern[s] EXCEPT ![slot_memory[s].buffer] = slot_memory[s].steps]]

\* do_alternate_functions, on a release, whatever was pressed before.
ShiftUp ==
    /\ shift_active' = FALSE /\ Restore /\ Disturbs(Changed) /\ shifted' = None
    /\ UNCHANGED <<op_mode, slot_memory>>

Show(display) ==
    /\ sequencerDisplayState' = display
    /\ shifted' = IF display = sequencerDisplayState THEN shifted ELSE None

MiddleButton(isDown) ==
    IF sequencerDisplayState = "DEFAULT"
    THEN /\ IF isDown THEN ShiftDown ELSE ShiftUp
         /\ UNCHANGED <<sequencerDisplayState, seq_state, rythmIndex, sent>>
    ELSE /\ IF isDown THEN UNCHANGED <<sequencerDisplayState, shifted>>
            ELSE Show("DEFAULT")
         /\ UNCHANGED <<op_mode, shift_active, slot_memory, kit, lost, seq_state,
                        rythmIndex, sent>>

\* process_seq_side_buttons handles the edges it finds in the order of the buttons,
\* all of them, even when one of them leaves the sequencer.
Edge(b) ==
    /\ passing \/ SidesAreHeard
    /\ work = None
    /\ sides # prev_seq_side_sw_state
    /\ b = Min((sides \ prev_seq_side_sw_state) \cup (prev_seq_side_sw_state \ sides))
    /\ prev_seq_side_sw_state' = Toggled(prev_seq_side_sw_state, b)
    /\ passing' = (prev_seq_side_sw_state' # sides)
    /\ UNCHANGED <<scenario, clock, sounding, seq_traktor_mode, selectedSlot, sides, down,
                   mod_level, memory>>

ResetButton ==
    /\ Edge(0)
    /\ IF 0 \in sides THEN Rewind ELSE UNCHANGED <<rythmIndex, lost>>
    /\ UNCHANGED <<seq_state, sent, op_mode, sequencerDisplayState, kit, shift>>

ShiftButton(b) == b \in Middle /\ Edge(b) /\ MiddleButton(b \in sides)

\* Button 2 sends the host a request to synchronise; nothing here changes.
SyncButton ==
    /\ Edge(2)
    /\ UNCHANGED <<seq_state, rythmIndex, sent, lost, op_mode, sequencerDisplayState, kit,
                   shift>>

PlayButton ==
    /\ Edge(3)
    /\ IF 3 \in sides /\ ~shift_active
       THEN play_or_stop_sequence
       ELSE UNCHANGED <<seq_state, rythmIndex, sent, lost>>
    /\ UNCHANGED <<op_mode, sequencerDisplayState, kit, shift>>

\* The pattern memory comes up on a press or a release; once up, this is shift.
MemoryButton ==
    /\ Edge(5)
    /\ IF sequencerDisplayState = "PATTERN_MEMORY"
       THEN shift_active' = (5 \in sides) /\ UNCHANGED <<sequencerDisplayState, shifted>>
       ELSE Show("PATTERN_MEMORY") /\ UNCHANGED shift_active
    /\ UNCHANGED <<seq_state, rythmIndex, sent, lost, op_mode, slot_memory, kit>>

-----------------------------------------------------------------------------
\* Encoders.  They are the sequencer's in sequencer mode.
Encoder(e) ==
    /\ Free /\ op_mode = "sequencer"
    /\ UNCHANGED <<scenario, clock, seq_state, rythmIndex, sent, sounding, op_mode,
                   seq_traktor_mode, shift_active, slot_memory, sides,
                   prev_seq_side_sw_state, passing, eeprom, recalled>>

InDefault(e, row) == sequencerDisplayState = "DEFAULT" /\ Row(e) = row

TurnClip(e, c) ==
    /\ Encoder(e) /\ e \in scenario.turned /\ InDefault(e, "clip")
    /\ slot_clip' = [slot_clip EXCEPT ![SlotOf(e)] = c]
    /\ Disturbs({SlotOf(e)})
    /\ UNCHANGED <<slotSelectedBuffer, pattern, sequencerDisplayState, selectedSlot,
                   shifted, down, mod_level, work, seq_memory_slot_state>>

\* Turned while its button is down, a pattern encoder repeats a beat.
TurnPattern(e, n) ==
    /\ Encoder(e) /\ e \in scenario.turned /\ InDefault(e, "pattern")
    /\ IF e \in down
       THEN /\ n \in 0..3
            /\ mod_level' = [mod_level EXCEPT ![SlotOf(e)] = n]
            /\ UNCHANGED <<slotSelectedBuffer, lost>>
       ELSE /\ n \in Buffers
            /\ slotSelectedBuffer' = [slotSelectedBuffer EXCEPT ![SlotOf(e)] = n]
            /\ Disturbs({SlotOf(e)})
            /\ UNCHANGED mod_level
    /\ UNCHANGED <<slot_clip, pattern, sequencerDisplayState, selectedSlot, shifted, down,
                   work, seq_memory_slot_state>>

set_step_state(i, v) ==
    pattern' = [pattern EXCEPT ![selectedSlot][slotSelectedBuffer[selectedSlot]][i] = v]

EditStep(i, v) ==
    /\ set_step_state(i, v)
    /\ IF i = PrevStep THEN Disturbs({selectedSlot}) ELSE UNCHANGED lost

TurnStep(e, v) ==
    /\ Encoder(e) /\ e \in scenario.turned /\ sequencerDisplayState = "PATTERN_EDIT"
    /\ EditStep(e, v)
    /\ UNCHANGED <<slot_clip, slotSelectedBuffer, sequencerDisplayState, selectedSlot,
                   shifted, down, mod_level, work, seq_memory_slot_state>>

\* process_seq_enc_buttons under the pattern memory: with shift delete the slot
\* (first in RAM), else load a full slot or save into an empty one.
PressMemory(m) ==
    /\ work' = [what |-> IF shift_active THEN "delete"
                         ELSE IF m \in seq_memory_slot_state THEN "load patterns"
                         ELSE "save page 1",
                slot |-> m]
    /\ seq_memory_slot_state' = IF shift_active THEN seq_memory_slot_state \ {m}
                                ELSE seq_memory_slot_state

\* process_seq_enc_buttons, on a press.
PressEncoder(e) ==
    /\ Encoder(e) /\ e \in scenario.pressed \ down
    /\ down' = IF Row(e) = "pattern" THEN down \cup {e} ELSE down
    /\ IF sequencerDisplayState = "PATTERN_EDIT"
       THEN EditStep(e, IF get_step_state(selectedSlot, e) = 0 THEN 127 ELSE 0)
       ELSE UNCHANGED <<pattern, lost>>
    /\ IF sequencerDisplayState = "PATTERN_MEMORY"
       THEN PressMemory(e) ELSE UNCHANGED <<work, seq_memory_slot_state>>
    /\ UNCHANGED <<slot_clip, slotSelectedBuffer, sequencerDisplayState, selectedSlot,
                   shifted, mod_level>>

\* A short press of a pattern button opens its pattern for editing.
ReleaseEncoder(e, short) ==
    /\ Encoder(e) /\ e \in down
    /\ down' = down \ {e}
    /\ mod_level' = [mod_level EXCEPT ![SlotOf(e)] = 0]
    /\ IF short /\ sequencerDisplayState = "DEFAULT"
       THEN Show("PATTERN_EDIT") /\ selectedSlot' = SlotOf(e)
       ELSE UNCHANGED <<sequencerDisplayState, selectedSlot, shifted>>
    /\ UNCHANGED <<kit, lost, work, seq_memory_slot_state>>

\* In normal mode the release is for others; the repeat goes on.
ReleaseElsewhere(e) ==
    /\ Free /\ op_mode = "normal" /\ e \in down
    /\ down' = down \ {e}
    /\ UNCHANGED <<scenario, clock, playback, kit, mode, shift, sides,
                   prev_seq_side_sw_state, passing, mod_level, memory>>

-----------------------------------------------------------------------------
\* The pattern memory: two EEPROM pages to a slot.  The second one ends in the
\* flag that says the slot is full.

Working(what) == work # None /\ work.what = what

Memory ==
    UNCHANGED <<scenario, clock, seq_state, rythmIndex, sent, sounding, mode, shift,
                buttons>>

\* Velocities are kept to four bits.
Compress(v)      == (v \div 8) % 16 * 8
KeptSteps(steps) == [s \in Slots |-> [i \in Steps |-> Compress(steps[s][i])]]
KeptKit(k)       == [steps |-> KeptSteps(k.steps), clip |-> k.clip]

WritePatterns(m) == page1' = [page1 EXCEPT ![m] = KeptSteps(Kit.steps)] /\ UNCHANGED page2
WriteRest(m) ==
    page2' = [page2 EXCEPT ![m] = [clip |-> slot_clip, full |-> TRUE]] /\ UNCHANGED page1

\* save_pattern_memory: the first page, then the flag in RAM and the second page.
SavePage1 ==
    /\ Working("save page 1")
    /\ WritePatterns(work.slot)
    /\ seq_memory_slot_state' = seq_memory_slot_state \cup {work.slot}
    /\ work' = [work EXCEPT !.what = "save page 2"]
    /\ Memory /\ UNCHANGED <<kit, lost, recalled>>

SavePage2 ==
    /\ Working("save page 2")
    /\ WriteRest(work.slot)
    /\ work' = None
    /\ Memory /\ UNCHANGED <<kit, lost, seq_memory_slot_state, recalled>>

\* delete_pattern_memory: the flag is overwritten.
DeleteFlag ==
    /\ Working("delete")
    /\ page2' = [page2 EXCEPT ![work.slot].full = FALSE]
    /\ work' = None
    /\ Memory /\ UNCHANGED <<kit, lost, page1, seq_memory_slot_state, recalled>>

\* load_pattern_memory: the patterns, always into the first buffer, then the clips.
LoadPatterns ==
    /\ Working("load patterns")
    /\ slotSelectedBuffer' = [s \in Slots |-> 0]
    /\ pattern' = [s \in Slots |-> [pattern[s] EXCEPT ![0] = page1[work.slot][s]]]
    /\ slot_clip' = slot_clip
    /\ Disturbs(Changed)
    /\ work' = [work EXCEPT !.what = "load clips"]
    /\ Memory /\ UNCHANGED <<eeprom, seq_memory_slot_state, recalled>>

LoadClips ==
    /\ Working("load clips")
    /\ slot_clip' = page2[work.slot].clip /\ UNCHANGED <<slotSelectedBuffer, pattern>>
    /\ Disturbs(Changed)
    /\ work' = None
    /\ recalled' = [Kit EXCEPT !.clip = slot_clip']
    /\ Memory /\ UNCHANGED <<eeprom, seq_memory_slot_state>>

-----------------------------------------------------------------------------
\* Start-up.

Blank == [i \in Steps |-> 0]
Beat  == [i \in Steps |-> IF i % 4 = 0 THEN 127 ELSE 0]

\* Mutant: the slots are taken to be empty at every start.
NoSlotIsFull == {}

\* pattern_memory_init: which slots have the flag.
FullSlots == {m \in Memories : page2[m].full}

\* The first two of the default patterns stand for all.
sequencer_init ==
    /\ seq_state = "DISABLED" /\ rythmIndex = 0 /\ sent = None
    /\ tick_counter = 0 /\ clock_stable = FALSE /\ scheduled_task = "none" /\ late = 0
    /\ op_mode = "normal" /\ seq_traktor_mode = FALSE
    /\ sequencerDisplayState = "OFF" /\ selectedSlot = 0
    /\ shift_active = FALSE /\ shifted = None
    /\ slot_memory = [s \in Slots |-> [clip |-> 0, buffer |-> 0, steps |-> Blank]]
    /\ prev_seq_side_sw_state = {} /\ passing = FALSE /\ mod_level = [s \in Slots |-> 0]
    /\ slot_clip = [s \in Slots |-> 0] /\ slotSelectedBuffer = [s \in Slots |-> 0]
    /\ pattern = [s \in Slots |-> [n \in Buffers |-> IF n = 0 THEN Blank ELSE Beat]]
    /\ work = None

Init ==
    /\ scenario \in Scenarios
    /\ sequencer_init
    /\ sides = {} /\ down = {}
    /\ page1 = [m \in Memories |-> [s \in Slots |-> Blank]]
    /\ page2 = [m \in Memories |-> [clip |-> [s \in Slots |-> 0], full |-> FALSE]]
    /\ seq_memory_slot_state = {} /\ recalled = None
    /\ sounding = [s \in Slots |-> {}] /\ lost = [s \in Slots |-> {}]

\* Power is lost and comes back; what sounds goes on sounding.
PowerLoss ==
    /\ Happens("power loss")
    /\ seq_state' = "DISABLED" /\ rythmIndex' = 0 /\ sent' = None
    /\ tick_counter' = 0 /\ clock_stable' = FALSE /\ scheduled_task' = "none" /\ late' = 0
    /\ op_mode' = "normal" /\ seq_traktor_mode' = FALSE
    /\ sequencerDisplayState' = "OFF" /\ selectedSlot' = 0
    /\ shift_active' = FALSE /\ shifted' = None
    /\ slot_memory' = [s \in Slots |-> [clip |-> 0, buffer |-> 0, steps |-> Blank]]
    /\ prev_seq_side_sw_state' = {} /\ passing' = FALSE /\ mod_level' = [s \in Slots |-> 0]
    /\ slot_clip' = [s \in Slots |-> 0] /\ slotSelectedBuffer' = [s \in Slots |-> 0]
    /\ pattern' = [s \in Slots |-> [n \in Buffers |-> IF n = 0 THEN Blank ELSE Beat]]
    /\ work' = None
    /\ seq_memory_slot_state' = FullSlots
    /\ Disturbs(Slots)
    /\ UNCHANGED <<scenario, eeprom, sides, down, sounding, recalled>>

Next ==
    \/ midi_clock \/ real_time_start \/ real_time_stop \/ do_task
    \/ \E on \in BOOLEAN : ReceivePlay(on)
    \/ ReceiveEnable
    \/ \E b \in 0..5 : MoveSide(b) \/ ShiftButton(b)
    \/ ResetButton \/ SyncButton \/ PlayButton \/ MemoryButton
    \/ \E e \in Encoders :
         \/ \E c \in Clips : TurnClip(e, c)
         \/ \E n \in Buffers \cup 0..3 : TurnPattern(e, n)
         \/ \E v \in Velocities : TurnStep(e, v)
         \/ PressEncoder(e)
         \/ \E short \in BOOLEAN : ReleaseEncoder(e, short)
         \/ ReleaseElsewhere(e)
    \/ SavePage1 \/ SavePage2 \/ DeleteFlag \/ LoadPatterns \/ LoadClips
    \/ PowerLoss

Spec == Init /\ [][Next]_vars

-----------------------------------------------------------------------------
\* Properties.

Patterns == [Steps -> Levels]

ClockType ==
    /\ tick_counter \in 0..23 /\ clock_stable \in BOOLEAN
    /\ scheduled_task \in {"none", "schedule_trigger", "send_triggers"}
    /\ late \in 0..MaxLate

PlaybackType ==
    /\ seq_state \in {"DISABLED", "WAIT_FOR_SYNC", "PLAYBACK"} /\ rythmIndex \in Steps
    /\ sent # None => sent \in Nat
    /\ sounding \in [Slots -> SUBSET Clips] /\ lost \in [Slots -> SUBSET Clips]
    /\ \A s \in Slots : lost[s] \subseteq sounding[s]

KitType ==
    /\ slot_clip \in [Slots -> Clips] /\ slotSelectedBuffer \in [Slots -> Buffers]
    /\ pattern \in [Slots -> [Buffers -> Patterns]]

ModeType ==
    /\ op_mode \in {"normal", "sequencer"} /\ seq_traktor_mode \in BOOLEAN
    /\ sequencerDisplayState \in {"OFF", "DEFAULT", "PATTERN_MEMORY", "PATTERN_EDIT"}
    /\ selectedSlot \in Slots

ShiftType ==
    /\ shift_active \in BOOLEAN
    /\ slot_memory \in [Slots -> [clip : Clips, buffer : Buffers, steps : Patterns]]

ButtonsType ==
    /\ sides \subseteq 0..5 /\ prev_seq_side_sw_state \subseteq 0..5 /\ passing \in BOOLEAN
    /\ down \subseteq Encoders /\ mod_level \in [Slots -> 0..3]

MemoryType ==
    /\ work # None => work \in [what : Tasks, slot : Memories]
    /\ page1 \in [Memories -> [Slots -> Patterns]]
    /\ page2 \in [Memories -> [clip : [Slots -> Clips], full : BOOLEAN]]
    /\ seq_memory_slot_state \subseteq Memories

\* Every variable has its type; in particular the step stays within the pattern.
TypeOK ==
    /\ scenario \in Scenarios
    /\ ClockType /\ PlaybackType /\ KitType /\ ModeType /\ ShiftType /\ ButtonsType
    /\ MemoryType

\* Every sixteenth of an undisturbed playback has exactly one trigger, across the
\* moment the clock becomes stable, when triggers are no longer sent with the
\* tick but scheduled ahead of it: none is missed and none comes twice
\* (update_clock_counter, seq_midi_clock_handler, schedule_trigger).  A sixteenth
\* in which playback stops or the host's transport starts or stops is not counted,
\* nor is the first one if a trigger scheduled before it is still pending.
OneTriggerPerSixteenth ==
    sent # None =>
        /\ sent <= 1
        /\ (tick_counter + 2) % 6 = 0 /\ scheduled_task = "none" => sent = 1

\* A note of a pattern is released by the step that follows, in every slot and every
\* place of the pattern, the last one included, unless the clip or the pattern of
\* that very slot, or the place of all of them, was changed under it (send_triggers).
\* The comment at sequencer.c:270-273 says otherwise of step 16 in slots 1, 2 and 4.
NotesEnd ==
    \A s \in Slots : sounding[s] \subseteq (lost[s] \cup Off(s))

\* Releasing shift puts back the clips, the choice of patterns and the patterns of
\* the moment it was pressed, whatever was turned meanwhile, as long as the page
\* was not left (do_alternate_functions).
ShiftUndoes ==
    [][/\ shifted # None /\ shift_active /\ ~shift_active'
       /\ sequencerDisplayState' = "DEFAULT"        \* not a start after power loss
       => kit' = shifted]_vars

\* The pattern memory keeps what is saved in it, whole, across power failures at
\* any point of a save, a load or a deletion (save_pattern_memory and others).
Store == INSTANCE SlotStore WITH
            Empty    <- None,
            Kept     <- KeptKit,
            kit      <- Kit,
            store    <- [m \in Memories |->
                           IF page2[m].full
                           THEN [steps |-> page1[m], clip |-> page2[m].clip] ELSE None]

SlotsSurvive == Store!Spec
=============================================================================
