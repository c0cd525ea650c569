-------------------------- MODULE SequencerProofs ---------------------------
(***************************************************************************)
(* The step sequencer with any number of slots, clips and buffers: notes   *)
(* end, every sixteenth has its trigger, shift puts back what it changed   *)
(* and the pattern memory is a SlotStore, whatever the clock, the host,    *)
(* the musician and the power do between two steps.                        *)
(***************************************************************************)
EXTENDS Sequencer, TLAPS

\* Where the clock stands in the sixteenth.
Phase == tick_counter % 6

\* A trigger is scheduled one tick ahead, and none waits longer than a tick; the
\* transport of the host may have set the clock back in between.
TaskIsFresh ==
    IF scheduled_task = "none" THEN late = 0
    ELSE \/ Phase = 5 /\ late = 0
         \/ Phase = 0
         \/ Phase = 1 /\ late = 1

\* What was sent in a sixteenth that is counted, place by place.
SentSoFar ==
    sent # None =>
        /\ seq_state = "PLAYBACK"
        /\ Phase \in 1..4 => scheduled_task = "none" /\ sent = 1
        /\ Phase = 5 /\ scheduled_task # "none" => clock_stable /\ sent = 0
        /\ Phase = 5 /\ scheduled_task = "none" => sent = IF clock_stable THEN 1 ELSE 0
        /\ Phase = 0 /\ scheduled_task # "none" => clock_stable /\ sent = 0 /\ late = 1
        /\ Phase = 0 /\ scheduled_task = "none" => sent = IF clock_stable THEN 1 ELSE 0

TriggerInv == TaskIsFresh /\ SentSoFar

\* What shift will put back is what was there: the page does not change patterns.
ShiftHolds ==
    shifted # None =>
        /\ sequencerDisplayState = "DEFAULT"
        /\ shifted = <<[s \in Slots |-> slot_memory[s].clip],
                       [s \in Slots |-> slot_memory[s].buffer], pattern>>
        /\ \A s \in Slots : slot_memory[s].steps = pattern[s][slot_memory[s].buffer]

\* The memory is worked on under its own page.
WorkHasItsPage == work # None => sequencerDisplayState = "PATTERN_MEMORY"

ShiftInv == ShiftHolds /\ WorkHasItsPage

WorkingAt(what, m) == Working(what) /\ work.slot = m

\* The flags in RAM are those of the EEPROM, up to the task at hand.
FlagsAgree ==
    \A m \in Memories :
        /\ page2[m].full /\ m \notin seq_memory_slot_state => WorkingAt("delete", m)
        /\ ~page2[m].full /\ m \in seq_memory_slot_state => WorkingAt("save page 2", m)
        /\ WorkingAt("delete", m) => m \notin seq_memory_slot_state
        /\ WorkingAt("save page 2", m) => m \in seq_memory_slot_state

\* Only an empty slot is saved into, and what is on its first page is playing.
SavesIntoEmpty ==
    \A m \in Memories :
        /\ WorkingAt("save page 1", m) => ~page2[m].full
        /\ WorkingAt("save page 2", m) => ~page2[m].full /\ page1[m] = KeptSteps(Kit.steps)

\* Only a full slot is loaded, into the first buffer of every slot.
LoadsFull ==
    \A m \in Memories :
        /\ WorkingAt("load patterns", m) => page2[m].full
        /\ WorkingAt("load clips", m) =>
             /\ page2[m].full
             /\ \A s \in Slots : slotSelectedBuffer[s] = 0 /\ pattern[s][0] = page1[m][s]

MemoryInv == FlagsAgree /\ SavesIntoEmpty /\ LoadsFull

-----------------------------------------------------------------------------

\* The next step is a step, and steps back to this one.
LEMMA StepsGoRound ==
    ASSUME NEW r \in Steps
    PROVE  /\ (r + 1) % (4 * NumSlots) = IF r = 4 * NumSlots - 1 THEN 0 ELSE r + 1
           /\ (r + 1) % (4 * NumSlots) \in Steps
           /\ 0 \in Steps /\ 4 * NumSlots - 1 \in Steps
<1> DEFINE W == 4 * NumSlots
<1>1. NumSlots \in Nat /\ W \in Nat /\ W > 0 /\ r \in 0..(W - 1)
  BY SequencerAssumption DEF Steps, Encoders
<1> HIDE DEF W
<1>2. (r + 1) % W = IF r = W - 1 THEN 0 ELSE r + 1
  <2>1. CASE r = W - 1
    <3>1. W % W = 0
      BY <1>1
    <3>2. r + 1 = W
      BY <1>1, <2>1
    <3>3. QED BY <2>1, <3>1, <3>2
  <2>2. CASE r # W - 1
    <3>1. r + 1 \in 0..(W - 1)
      BY <1>1, <2>2
    <3>2. QED BY <1>1, <2>2, <3>1
  <2>3. QED BY <2>1, <2>2
<1>3. Steps = 0..(W - 1)
  BY DEF Steps, Encoders, W
<1>4. (r + 1) % W \in 0..(W - 1) /\ 0 \in 0..(W - 1) /\ W - 1 \in 0..(W - 1)
  BY <1>1, <1>2
<1>5. QED BY <1>2, <1>3, <1>4 DEF W

\* Every encoder belongs to a slot.
LEMMA SlotOfType == ASSUME NEW e \in Encoders PROVE SlotOf(e) \in Slots
  BY SequencerAssumption DEF SlotOf, Encoders, Slots

\* What is kept of a velocity is a velocity.
LEMMA CompressType == ASSUME NEW v \in Levels PROVE Compress(v) \in Levels
<1>1. v \in Int /\ 0 <= v /\ v \div 8 \in Int
  BY DEF Levels
<1>2. (v \div 8) % 16 \in 0..15
  BY <1>1
<1>3. QED BY <1>2 DEF Compress, Levels


\* What no variable of a group changes keeps its type.
LEMMA SameKeepsType ==
    ASSUME TypeOK
    PROVE  /\ UNCHANGED scenario => (scenario \in Scenarios)'
           /\ UNCHANGED clock => ClockType'
           /\ UNCHANGED playback => PlaybackType'
           /\ UNCHANGED kit => KitType'
           /\ UNCHANGED mode => ModeType'
           /\ UNCHANGED shift => ShiftType'
           /\ UNCHANGED <<shift_active, slot_memory>> => ShiftType'
           /\ UNCHANGED buttons => ButtonsType'
           /\ UNCHANGED memory => MemoryType'
           /\ UNCHANGED <<work, eeprom, seq_memory_slot_state>> => MemoryType'
<1>1. UNCHANGED clock => ClockType'
  BY DEF TypeOK, ClockType, clock
<1>2. UNCHANGED playback => PlaybackType'
  BY DEF TypeOK, PlaybackType, playback
<1>3. UNCHANGED kit => KitType'
  BY DEF TypeOK, KitType, kit
<1>4. UNCHANGED mode => ModeType'
  BY DEF TypeOK, ModeType, mode
<1>5. UNCHANGED <<shift_active, slot_memory>> => ShiftType'
  BY DEF TypeOK, ShiftType
<1>6. UNCHANGED shift => UNCHANGED <<shift_active, slot_memory>>
  BY DEF shift
<1>7. UNCHANGED buttons => ButtonsType'
  BY DEF TypeOK, ButtonsType, buttons
<1>8. UNCHANGED <<work, eeprom, seq_memory_slot_state>> => MemoryType'
  BY DEF TypeOK, MemoryType, eeprom
<1>9. UNCHANGED memory => UNCHANGED <<work, eeprom, seq_memory_slot_state>>
  BY DEF memory
<1>10. QED
  BY <1>1, <1>2, <1>3, <1>4, <1>5, <1>6, <1>7, <1>8, <1>9 DEF TypeOK

\* What is playing, and what is kept of it, have the types of patterns and clips.
LEMMA PlayingType ==
    ASSUME KitType
    PROVE  /\ Kit.steps \in [Slots -> Patterns] /\ Kit.clip \in [Slots -> Clips]
           /\ KeptSteps(Kit.steps) \in [Slots -> Patterns]
           /\ \A s \in Slots : Saved(s) \in [clip : Clips, buffer : Buffers, steps : Patterns]
<1>1. Kit.steps \in [Slots -> Patterns] /\ Kit.clip \in [Slots -> Clips]
  BY DEF KitType, Kit
<1>2. KeptSteps(Kit.steps) \in [Slots -> Patterns]
  <2>1. \A s \in Slots, i \in Steps : Kit.steps[s][i] \in Levels
    BY <1>1 DEF Patterns
  <2>2. \A s \in Slots, i \in Steps : Compress(Kit.steps[s][i]) \in Levels
    BY <2>1, CompressType
  <2>3. QED BY <2>2 DEF KeptSteps, Patterns
<1>3. \A s \in Slots : Saved(s) \in [clip : Clips, buffer : Buffers, steps : Patterns]
  BY DEF KitType, Saved
<1>4. QED BY <1>1, <1>2, <1>3

\* A trigger moves on by one step and lets go of the note of the step before.
LEMMA TriggersKeepType ==
    ASSUME PlaybackType, KitType, send_triggers \/ NoTriggers,
           seq_state' \in {"DISABLED", "WAIT_FOR_SYNC", "PLAYBACK"},
           sent' = None \/ sent' = sent \/ sent' = Counted(1) \/ sent' \in Nat
    PROVE  PlaybackType'
<1>1. sent' # None => sent' \in Nat
  BY DEF PlaybackType, Counted
<1>2. CASE send_triggers
  <2>1. rythmIndex' \in Steps
    BY <1>2, StepsGoRound DEF PlaybackType, send_triggers, NextStep
  <2>2. \A s \in Slots : Off(s) \subseteq Clips /\ On(s) \subseteq Clips
    BY DEF KitType, Off, On
  <2>3. \A s \in Slots : Forestalled(s) \subseteq On(s)
    BY DEF Forestalled
  <2>4. QED BY <1>1, <1>2, <2>1, <2>2, <2>3 DEF PlaybackType, send_triggers
<1>3. CASE NoTriggers
  BY <1>1, <1>3 DEF PlaybackType, NoTriggers
<1>4. QED BY <1>2, <1>3

\* The notes of some slots are disturbed, or of none.
MayDisturb == lost' = lost \/ \E S : Disturbs(S)

\* Playing or stopping, and changes under a sounding note, keep the types.
LEMMA DisturbingKeepsType ==
    ASSUME PlaybackType,
           seq_state' \in {"DISABLED", "WAIT_FOR_SYNC", "PLAYBACK"},
           rythmIndex' = rythmIndex \/ rythmIndex' = 0,
           sent' = sent \/ sent' = None, sounding' = sounding,
           MayDisturb
    PROVE  PlaybackType'
<1>1. 0 \in Steps
  BY SequencerAssumption DEF Steps, Encoders
<1>2. lost' \in [Slots -> SUBSET Clips] /\ \A s \in Slots : lost'[s] \subseteq sounding[s]
  <2>1. CASE lost' = lost
    BY <2>1 DEF PlaybackType
  <2>2. ASSUME NEW S, Disturbs(S) PROVE <1>2!:
    BY <2>2 DEF PlaybackType, Disturbs
  <2>3. QED BY <2>1, <2>2 DEF MayDisturb
<1>3. QED BY <1>1, <1>2 DEF PlaybackType

\* To set the position back disturbs what sounds.
LEMMA RewindDisturbs == Rewind => rythmIndex' = 0 /\ MayDisturb
  BY DEF Rewind, MayDisturb

\* The initial state has its type.
LEMMA InitType == Init => TypeOK
<1> SUFFICES ASSUME Init PROVE TypeOK
  OBVIOUS
<1> USE DEF Init, sequencer_init
<1>1. 0 \in Slots /\ 0 \in Clips /\ 0 \in Buffers /\ 0 \in Steps /\ 0 \in 0..MaxLate
  BY SequencerAssumption DEF Slots, Clips, Buffers, Steps, Encoders
<1>2. Blank \in Patterns /\ Beat \in Patterns
  BY DEF Blank, Beat, Patterns, Levels
<1>3. /\ clock_stable \in BOOLEAN /\ seq_traktor_mode \in BOOLEAN /\ shift_active \in BOOLEAN
      /\ passing \in BOOLEAN
  OBVIOUS
<1>4. ClockType
  BY <1>1, <1>3 DEF ClockType
<1>5. PlaybackType
  BY <1>1 DEF PlaybackType
<1>6. KitType
  BY <1>1, <1>2 DEF KitType
<1>7. ModeType
  BY <1>1, <1>3 DEF ModeType
<1>8. ShiftType
  BY <1>1, <1>2, <1>3 DEF ShiftType
<1>9. ButtonsType
  BY <1>3 DEF ButtonsType
<1>10. MemoryType
  BY <1>1, <1>2 DEF MemoryType
<1>11. QED BY <1>4, <1>5, <1>6, <1>7, <1>8, <1>9, <1>10 DEF TypeOK

\* Putting a button into a set, or taking it out, leaves a set of buttons.
LEMMA ToggledType ==
    ASSUME NEW S, NEW T \in SUBSET S, NEW x \in S
    PROVE  Toggled(T, x) \in SUBSET S
  BY DEF Toggled

\* Editing one step leaves patterns.
LEMMA EditKeepsType ==
    ASSUME TypeOK, NEW i \in Steps, NEW v \in Levels, EditStep(i, v)
    PROVE  /\ pattern' \in [Slots -> [Buffers -> Patterns]]
           /\ MayDisturb
<1>1. selectedSlot \in Slots /\ slotSelectedBuffer[selectedSlot] \in Buffers
      /\ pattern \in [Slots -> [Buffers -> [Steps -> Levels]]]
  BY DEF TypeOK, ModeType, KitType, Patterns
<1>2. MayDisturb
  BY DEF EditStep, MayDisturb
<1>3. QED BY <1>1, <1>2 DEF EditStep, set_step_state, Patterns

\* The clock, the scheduler and the host keep the types.
LEMMA ClockKeepsType ==
    ASSUME TypeOK,
           midi_clock \/ real_time_start \/ real_time_stop \/ do_task
             \/ (\E on \in BOOLEAN : ReceivePlay(on)) \/ ReceiveEnable
    PROVE  TypeOK'
<1>0. /\ ClockType /\ PlaybackType /\ KitType /\ ModeType
      /\ seq_state \in {"DISABLED", "WAIT_FOR_SYNC", "PLAYBACK"}
  BY DEF TypeOK, PlaybackType
<1>1. CASE midi_clock
  <2>1. ClockType' /\ ModeType'
    <3>1. scheduled_task' \in {"none", "schedule_trigger", "send_triggers"}
      BY <1>0, <1>1 DEF midi_clock, seq_midi_clock_handler, ClockType
    <3>2. clock_stable' \in BOOLEAN
      BY <1>0, <1>1 DEF midi_clock
    <3>3. late' \in 0..MaxLate /\ tick_counter' \in 0..23
      BY <1>0, <1>1, SequencerAssumption DEF midi_clock, ClockType
    <3>4. ModeType'
      BY <1>0, <1>1 DEF midi_clock, ModeType
    <3>5. QED BY <3>1, <3>2, <3>3, <3>4 DEF ClockType
  <2>2. PlaybackType'
    <3>1. /\ seq_state' \in {"DISABLED", "WAIT_FOR_SYNC", "PLAYBACK"}
          /\ send_triggers \/ NoTriggers
          /\ sent' = None \/ sent' = sent \/ sent' = Counted(1) \/ sent' \in Nat
      BY <1>0, <1>1 DEF midi_clock, seq_midi_clock_handler
    <3>2. QED BY <1>0, <3>1, TriggersKeepType
  <2>3. UNCHANGED <<scenario, kit, shift, buttons, memory>>
    BY <1>1 DEF midi_clock
  <2>4. QED BY <2>1, <2>2, <2>3, SameKeepsType DEF TypeOK
<1>2. CASE real_time_start
  <2>1. ClockType'
    <3>1. clock_stable' \in BOOLEAN
      BY <1>2 DEF real_time_start
    <3>2. QED BY <1>0, <1>2, <3>1 DEF real_time_start, ClockType
  <2>2. PlaybackType'
    BY <1>0, <1>2, DisturbingKeepsType DEF real_time_start, MayDisturb
  <2>3. UNCHANGED <<scenario, kit, mode, shift, buttons, memory>>
    BY <1>2 DEF real_time_start
  <2>4. QED BY <2>1, <2>2, <2>3, SameKeepsType DEF TypeOK
<1>3. CASE real_time_stop
  <2>1. ClockType'
    BY <1>0, <1>3, SequencerAssumption DEF real_time_stop, ClockType
  <2>2. PlaybackType'
    BY <1>0, <1>3, RewindDisturbs, DisturbingKeepsType DEF real_time_stop
  <2>3. UNCHANGED <<scenario, kit, mode, shift, buttons, memory>>
    BY <1>3 DEF real_time_stop
  <2>4. QED BY <2>1, <2>2, <2>3, SameKeepsType DEF TypeOK
<1>4. CASE do_task
  <2>1. ClockType'
    BY <1>0, <1>4, SequencerAssumption DEF do_task, ClockType
  <2>2. PlaybackType'
    BY <1>0, <1>4, TriggersKeepType DEF do_task
  <2>3. UNCHANGED <<scenario, kit, mode, shift, buttons, memory>>
    BY <1>4 DEF do_task
  <2>4. QED BY <2>1, <2>2, <2>3, SameKeepsType DEF TypeOK
<1>5. CASE \E on \in BOOLEAN : ReceivePlay(on)
  <2>1. PlaybackType'
    <3>1. /\ seq_state' \in {"DISABLED", "WAIT_FOR_SYNC", "PLAYBACK"}
          /\ rythmIndex' = rythmIndex \/ rythmIndex' = 0
          /\ sent' = sent \/ sent' = None
          /\ sounding' = sounding /\ MayDisturb
      BY <1>0, <1>5, RewindDisturbs DEF ReceivePlay, Arm, Stop, MayDisturb
    <3>2. QED BY <1>0, <3>1, DisturbingKeepsType
  <2>2. UNCHANGED <<scenario, clock, kit, mode, shift, buttons, memory>>
    BY <1>5 DEF ReceivePlay
  <2>3. QED BY <2>1, <2>2, SameKeepsType DEF TypeOK
<1>6. CASE ReceiveEnable
  <2>1. ModeType'
    <3>1. seq_traktor_mode' \in BOOLEAN
      BY <1>6 DEF ReceiveEnable
    <3>2. QED BY <1>0, <1>6, <3>1 DEF ReceiveEnable, ModeType
  <2>2. ButtonsType'
    BY <1>6 DEF ReceiveEnable, EndRepeats, TypeOK, ButtonsType
  <2>3. UNCHANGED <<scenario, clock, playback, kit, shift, memory>>
    BY <1>6 DEF ReceiveEnable
  <2>4. QED BY <2>1, <2>2, <2>3, SameKeepsType DEF TypeOK
<1>7. QED BY <1>1, <1>2, <1>3, <1>4, <1>5, <1>6

\* The side buttons keep the types.
LEMMA SidesKeepType ==
    ASSUME TypeOK, NEW b \in 0..5,
           MoveSide(b) \/ ShiftButton(b) \/ ResetButton \/ SyncButton \/ PlayButton
             \/ MemoryButton
    PROVE  TypeOK'
<1>0. /\ PlaybackType /\ KitType /\ ModeType /\ ShiftType /\ ButtonsType
      /\ seq_state \in {"DISABLED", "WAIT_FOR_SYNC", "PLAYBACK"}
  BY DEF TypeOK, PlaybackType
<1>1. CASE MoveSide(b)
  <2>1. sides' \subseteq 0..5
    BY <1>0, <1>1, ToggledType DEF MoveSide, ButtonsType
  <2>2. mod_level' \in [Slots -> 0..3]
    BY <1>0, <1>1 DEF MoveSide, EndRepeats, ButtonsType
  <2>3. ButtonsType' /\ ModeType'
    BY <1>0, <1>1, <2>1, <2>2 DEF MoveSide, ButtonsType, ModeType
  <2>4. UNCHANGED <<scenario, clock, playback, kit, shift, memory>>
    BY <1>1 DEF MoveSide, shift
  <2>5. QED BY <2>3, <2>4, SameKeepsType DEF TypeOK
<1>2. ASSUME NEW c \in 0..5, Edge(c)
      PROVE  /\ ButtonsType' /\ UNCHANGED <<scenario, clock, memory>>
             /\ UNCHANGED <<sounding, seq_traktor_mode, selectedSlot>>
  <2>1. prev_seq_side_sw_state' \subseteq 0..5
    <3>1. prev_seq_side_sw_state' = Toggled(prev_seq_side_sw_state, c)
      BY <1>2 DEF Edge
    <3>2. prev_seq_side_sw_state \in SUBSET (0..5)
      BY <1>0 DEF ButtonsType
    <3>3. QED BY <3>1, <3>2, ToggledType
  <2>2. passing' \in BOOLEAN
    BY <1>2 DEF Edge
  <2>3. QED BY <1>0, <1>2, <2>1, <2>2 DEF Edge, ButtonsType
<1>3. CASE ShiftButton(b)
  <2>1. MiddleButton(b \in sides) /\ Edge(b)
    BY <1>3 DEF ShiftButton
  <2>2. CASE sequencerDisplayState = "DEFAULT" /\ b \in sides
    <3>1. ShiftDown /\ UNCHANGED <<sequencerDisplayState, seq_state, rythmIndex, sent>>
      BY <2>1, <2>2 DEF MiddleButton
    <3>2. ShiftType'
      <4>1. CASE shift_active
        BY <1>0, <3>1, <4>1 DEF ShiftDown, ShiftType
      <4>2. CASE ~shift_active
        <5>1. shift_active' = TRUE /\ slot_memory' = [s \in Slots |-> Saved(s)]
          BY <3>1, <4>2 DEF ShiftDown
        <5>2. shift_active' \in BOOLEAN
          BY <5>1
        <5>3. QED BY <1>0, <5>1, <5>2, PlayingType DEF ShiftType
      <4>3. QED BY <4>1, <4>2
    <3>3. UNCHANGED kit /\ MayDisturb /\ (op_mode' = op_mode \/ op_mode' = "normal")
      BY <3>1 DEF ShiftDown, MayDisturb
    <3>4. PlaybackType' /\ ModeType'
      BY <1>0, <1>2, <2>1, <3>1, <3>3, DisturbingKeepsType DEF ModeType
    <3>5. QED BY <1>2, <2>1, <3>2, <3>3, <3>4, SameKeepsType DEF TypeOK
  <2>3. CASE sequencerDisplayState = "DEFAULT" /\ ~(b \in sides)
    <3>1. ShiftUp /\ UNCHANGED <<sequencerDisplayState, seq_state, rythmIndex, sent>>
      BY <2>1, <2>3 DEF MiddleButton
    <3>2. KitType'
      BY <1>0, <3>1 DEF ShiftUp, Restore, KitType, ShiftType
    <3>3. ShiftType'
      <4>1. shift_active' \in BOOLEAN
        BY <3>1 DEF ShiftUp
      <4>2. QED BY <1>0, <3>1, <4>1 DEF ShiftUp, ShiftType
    <3>4. MayDisturb /\ op_mode' = op_mode
      BY <3>1 DEF ShiftUp, MayDisturb
    <3>5. PlaybackType' /\ ModeType'
      BY <1>0, <1>2, <2>1, <3>1, <3>4, DisturbingKeepsType DEF ModeType
    <3>6. QED BY <1>2, <2>1, <3>2, <3>3, <3>5, SameKeepsType DEF TypeOK
  <2>4. CASE sequencerDisplayState # "DEFAULT"
    <3>1. /\ UNCHANGED <<op_mode, shift_active, slot_memory, kit, lost, seq_state,
                         rythmIndex, sent>>
          /\ sequencerDisplayState' \in {sequencerDisplayState, "DEFAULT"}
      BY <2>1, <2>4 DEF MiddleButton, Show
    <3>2. PlaybackType' /\ ModeType'
      BY <1>0, <1>2, <2>1, <3>1, DisturbingKeepsType DEF ModeType, MayDisturb
    <3>3. QED BY <1>2, <2>1, <3>1, <3>2, SameKeepsType DEF TypeOK
  <2>5. QED BY <2>2, <2>3, <2>4
<1>4. CASE ResetButton
  <2>1. PlaybackType' /\ ModeType'
    BY <1>0, <1>2, <1>4, RewindDisturbs, DisturbingKeepsType
    DEF ResetButton, ModeType, MayDisturb
  <2>2. UNCHANGED <<kit, shift>>
    BY <1>4 DEF ResetButton
  <2>3. QED BY <1>2, <1>4, <2>1, <2>2, SameKeepsType DEF ResetButton, TypeOK
<1>5. CASE SyncButton
  <2>1. PlaybackType' /\ ModeType'
    BY <1>0, <1>2, <1>5, DisturbingKeepsType DEF SyncButton, ModeType, MayDisturb
  <2>2. UNCHANGED <<kit, shift>>
    BY <1>5 DEF SyncButton
  <2>3. QED BY <1>2, <1>5, <2>1, <2>2, SameKeepsType DEF SyncButton, TypeOK
<1>6. CASE PlayButton
  <2>1. PlaybackType' /\ ModeType'
    BY <1>0, <1>2, <1>6, RewindDisturbs, DisturbingKeepsType
    DEF PlayButton, play_or_stop_sequence, Arm, Stop, ModeType, MayDisturb
  <2>2. UNCHANGED <<kit, shift>>
    BY <1>6 DEF PlayButton
  <2>3. QED BY <1>2, <1>6, <2>1, <2>2, SameKeepsType DEF PlayButton, TypeOK
<1>7. CASE MemoryButton
  <2>1. ShiftType'
    <3> DEFINE held == 5 \in sides
    <3>1. shift_active' = held \/ shift_active' = shift_active
      BY <1>7 DEF MemoryButton
    <3>2. held \in BOOLEAN
      OBVIOUS
    <3> HIDE DEF held
    <3>3. shift_active' \in BOOLEAN
      BY <1>0, <3>1, <3>2 DEF ShiftType
    <3>4. QED BY <1>0, <1>7, <3>3 DEF MemoryButton, ShiftType
  <2>2. PlaybackType' /\ ModeType'
    BY <1>0, <1>2, <1>7, DisturbingKeepsType DEF MemoryButton, Show, ModeType, MayDisturb
  <2>3. UNCHANGED kit
    BY <1>7 DEF MemoryButton
  <2>4. QED BY <1>2, <1>7, <2>1, <2>2, <2>3, SameKeepsType DEF MemoryButton, TypeOK
<1>8. QED BY <1>1, <1>3, <1>4, <1>5, <1>6, <1>7

\* The encoders keep the types.
LEMMA EncodersKeepType ==
    ASSUME TypeOK, NEW e \in Encoders,
           \/ \E c \in Clips : TurnClip(e, c)
           \/ \E n \in Buffers \cup 0..3 : TurnPattern(e, n)
           \/ \E v \in Velocities : TurnStep(e, v)
           \/ PressEncoder(e)
           \/ \E short \in BOOLEAN : ReleaseEncoder(e, short)
           \/ ReleaseElsewhere(e)
    PROVE  TypeOK'
<1>0. /\ PlaybackType /\ KitType /\ ModeType /\ ShiftType /\ ButtonsType /\ MemoryType
      /\ seq_state \in {"DISABLED", "WAIT_FOR_SYNC", "PLAYBACK"}
      /\ SlotOf(e) \in Slots
  BY SlotOfType DEF TypeOK, PlaybackType
<1>1. ASSUME Encoder(e)
      PROVE  /\ UNCHANGED <<scenario, clock, eeprom, shift_active, slot_memory>>
             /\ UNCHANGED <<seq_state, rythmIndex, sent, sounding, op_mode,
                            seq_traktor_mode, sides, prev_seq_side_sw_state, passing>>
  BY <1>1 DEF Encoder
<1>2. CASE \E c \in Clips : TurnClip(e, c)
  <2>1. PICK c \in Clips : TurnClip(e, c)
    BY <1>2
  <2>2. KitType'
    BY <1>0, <2>1 DEF TurnClip, KitType
  <2>3. PlaybackType' /\ ModeType' /\ ButtonsType'
    BY <1>0, <1>1, <2>1, DisturbingKeepsType DEF TurnClip, ModeType, ButtonsType, MayDisturb
  <2>4. UNCHANGED <<work, seq_memory_slot_state>>
    BY <2>1 DEF TurnClip
  <2>5. QED BY <1>1, <2>1, <2>2, <2>3, <2>4, SameKeepsType DEF TurnClip, TypeOK
<1>3. CASE \E n \in Buffers \cup 0..3 : TurnPattern(e, n)
  <2>1. PICK n \in Buffers \cup 0..3 : TurnPattern(e, n)
    BY <1>3
  <2>2. KitType' /\ mod_level' \in [Slots -> 0..3] /\ MayDisturb
    BY <1>0, <2>1 DEF TurnPattern, KitType, ButtonsType, MayDisturb
  <2>3. PlaybackType' /\ ModeType' /\ ButtonsType'
    BY <1>0, <1>1, <2>1, <2>2, DisturbingKeepsType DEF TurnPattern, ModeType, ButtonsType
  <2>4. UNCHANGED <<work, seq_memory_slot_state>>
    BY <2>1 DEF TurnPattern
  <2>5. QED BY <1>1, <2>1, <2>2, <2>3, <2>4, SameKeepsType DEF TurnPattern, TypeOK
<1>4. CASE \E v \in Velocities : TurnStep(e, v)
  <2>1. PICK v \in Velocities : TurnStep(e, v)
    BY <1>4
  <2>2. KitType' /\ MayDisturb
    BY <1>0, <2>1, EditKeepsType, SequencerAssumption DEF TurnStep, KitType, Steps
  <2>3. PlaybackType' /\ ModeType' /\ ButtonsType'
    BY <1>0, <1>1, <2>1, <2>2, DisturbingKeepsType DEF TurnStep, ModeType, ButtonsType
  <2>4. UNCHANGED <<work, seq_memory_slot_state>>
    BY <2>1 DEF TurnStep
  <2>5. QED BY <1>1, <2>1, <2>2, <2>3, <2>4, SameKeepsType DEF TurnStep, TypeOK
<1>5. CASE PressEncoder(e)
  <2>1. KitType' /\ MayDisturb
    <3>1. CASE sequencerDisplayState = "PATTERN_EDIT"
      <4>1. PICK v \in Levels : EditStep(e, v)
        BY <1>5, <3>1 DEF PressEncoder, Levels
      <4>2. QED BY <1>0, <1>5, <4>1, EditKeepsType DEF PressEncoder, KitType, Steps
    <3>2. CASE sequencerDisplayState # "PATTERN_EDIT"
      BY <1>0, <1>5, <3>2 DEF PressEncoder, KitType, MayDisturb
    <3>3. QED BY <3>1, <3>2
  <2>2. /\ work' # None => work' \in [what : Tasks, slot : Memories]
        /\ seq_memory_slot_state' \subseteq Memories
    <3>1. CASE sequencerDisplayState = "PATTERN_MEMORY"
      <4>1. PressMemory(e)
        BY <1>5, <3>1 DEF PressEncoder
      <4>2. PICK task \in Tasks : work' = [what |-> task, slot |-> e]
        BY <4>1 DEF PressMemory, Tasks
      <4>3. seq_memory_slot_state' \subseteq Memories
        BY <1>0, <4>1 DEF PressMemory, MemoryType
      <4>4. QED BY <4>2, <4>3 DEF Memories
    <3>2. CASE sequencerDisplayState # "PATTERN_MEMORY"
      BY <1>0, <1>5, <3>2 DEF PressEncoder, MemoryType
    <3>3. QED BY <3>1, <3>2
  <2>3. MemoryType'
    BY <1>0, <1>1, <1>5, <2>2 DEF PressEncoder, MemoryType, eeprom
  <2>4. PlaybackType' /\ ModeType' /\ ButtonsType'
    BY <1>0, <1>1, <1>5, <2>1, DisturbingKeepsType DEF PressEncoder, ModeType, ButtonsType
  <2>5. QED BY <1>1, <1>5, <2>1, <2>3, <2>4, SameKeepsType DEF PressEncoder, TypeOK
<1>6. CASE \E short \in BOOLEAN : ReleaseEncoder(e, short)
  <2>1. /\ Encoder(e) /\ down' = down \ {e}
        /\ mod_level' = [mod_level EXCEPT ![SlotOf(e)] = 0]
        /\ sequencerDisplayState' \in {sequencerDisplayState, "PATTERN_EDIT"}
        /\ selectedSlot' \in {selectedSlot, SlotOf(e)}
        /\ UNCHANGED kit /\ UNCHANGED <<lost, work, seq_memory_slot_state>>
    BY <1>6 DEF ReleaseEncoder, Show
  <2>2. PlaybackType' /\ ModeType'
    BY <1>0, <1>1, <2>1, DisturbingKeepsType DEF ModeType, MayDisturb
  <2>4. ButtonsType'
    <3>1. mod_level' \in [Slots -> 0..3]
      BY <1>0, <2>1 DEF ButtonsType
    <3>2. down' \subseteq Encoders
      BY <1>0, <2>1 DEF ButtonsType
    <3>3. QED BY <1>0, <1>1, <2>1, <3>1, <3>2 DEF ButtonsType
  <2>3. QED BY <1>1, <2>1, <2>2, <2>4, SameKeepsType DEF TypeOK
<1>7. CASE ReleaseElsewhere(e)
  <2>1. ButtonsType'
    BY <1>0, <1>7 DEF ReleaseElsewhere, ButtonsType
  <2>2. UNCHANGED <<scenario, clock, playback, kit, mode, shift, memory>>
    BY <1>7 DEF ReleaseElsewhere
  <2>3. QED BY <2>1, <2>2, SameKeepsType DEF TypeOK
<1>8. QED BY <1>2, <1>3, <1>4, <1>5, <1>6, <1>7

\* Work on the memory, and the loss of power, keep the types.
LEMMA MemoryKeepsType ==
    ASSUME TypeOK,
           SavePage1 \/ SavePage2 \/ DeleteFlag \/ LoadPatterns \/ LoadClips \/ PowerLoss
    PROVE  TypeOK'
<1>0. /\ PlaybackType /\ KitType /\ MemoryType
      /\ seq_state \in {"DISABLED", "WAIT_FOR_SYNC", "PLAYBACK"}
  BY DEF TypeOK, PlaybackType
<1>1. ASSUME NEW what, Working(what)
      PROVE  work.slot \in Memories /\ work \in [what : Tasks, slot : Memories]
  BY <1>0, <1>1 DEF Working, MemoryType
<1>2. ASSUME Memory
      PROVE  /\ UNCHANGED <<scenario, clock, mode, shift, buttons>>
             /\ UNCHANGED <<seq_state, rythmIndex, sent, sounding>>
  BY <1>2 DEF Memory
<1>3. CASE SavePage1
  <2>1. work' \in [what : Tasks, slot : Memories]
    BY <1>1, <1>3 DEF SavePage1, Tasks
  <2>2. page1' \in [Memories -> [Slots -> Patterns]]
    BY <1>0, <1>1, <1>3, PlayingType DEF SavePage1, WritePatterns, MemoryType
  <2>3. MemoryType'
    BY <1>0, <1>1, <1>3, <2>1, <2>2 DEF SavePage1, WritePatterns, MemoryType
  <2>4. PlaybackType'
    BY <1>0, <1>2, <1>3, DisturbingKeepsType DEF SavePage1, MayDisturb
  <2>5. QED BY <1>2, <1>3, <2>3, <2>4, SameKeepsType DEF SavePage1, TypeOK
<1>4. CASE SavePage2
  <2>1. page2' \in [Memories -> [clip : [Slots -> Clips], full : BOOLEAN]]
    BY <1>0, <1>1, <1>4 DEF SavePage2, WriteRest, MemoryType, KitType
  <2>2. MemoryType'
    BY <1>0, <1>4, <2>1 DEF SavePage2, WriteRest, MemoryType
  <2>3. PlaybackType'
    BY <1>0, <1>2, <1>4, DisturbingKeepsType DEF SavePage2, MayDisturb
  <2>4. QED BY <1>2, <1>4, <2>2, <2>3, SameKeepsType DEF SavePage2, TypeOK
<1>5. CASE DeleteFlag
  <2>1. page2' \in [Memories -> [clip : [Slots -> Clips], full : BOOLEAN]]
    BY <1>0, <1>1, <1>5 DEF DeleteFlag, MemoryType
  <2>2. MemoryType'
    BY <1>0, <1>5, <2>1 DEF DeleteFlag, MemoryType
  <2>3. PlaybackType'
    BY <1>0, <1>2, <1>5, DisturbingKeepsType DEF DeleteFlag, MayDisturb
  <2>4. QED BY <1>2, <1>5, <2>2, <2>3, SameKeepsType DEF DeleteFlag, TypeOK
<1>6. CASE LoadPatterns
  <2>1. 0 \in Buffers /\ page1[work.slot] \in [Slots -> Patterns]
    <3>1. work.slot \in Memories
      BY <1>1, <1>6 DEF LoadPatterns
    <3>2. page1 \in [Memories -> [Slots -> Patterns]]
      BY <1>0 DEF MemoryType
    <3>3. 0 \in Buffers
      BY SequencerAssumption DEF Buffers
    <3>4. QED BY <3>1, <3>2, <3>3
  <2>2. KitType'
    BY <1>0, <1>6, <2>1 DEF LoadPatterns, KitType
  <2>3. work' \in [what : Tasks, slot : Memories]
    BY <1>1, <1>6 DEF LoadPatterns, Tasks
  <2>4. MemoryType'
    BY <1>0, <1>6, <2>3 DEF LoadPatterns, MemoryType, eeprom
  <2>5. PlaybackType'
    BY <1>0, <1>2, <1>6, DisturbingKeepsType DEF LoadPatterns, MayDisturb
  <2>6. QED BY <1>2, <1>6, <2>2, <2>4, <2>5, SameKeepsType DEF LoadPatterns, TypeOK
<1>7. CASE LoadClips
  <2>1. KitType'
    BY <1>0, <1>1, <1>7 DEF LoadClips, KitType, MemoryType
  <2>2. MemoryType'
    BY <1>0, <1>7 DEF LoadClips, MemoryType, eeprom
  <2>3. PlaybackType'
    BY <1>0, <1>2, <1>7, DisturbingKeepsType DEF LoadClips, MayDisturb
  <2>4. QED BY <1>2, <1>7, <2>1, <2>2, <2>3, SameKeepsType DEF LoadClips, TypeOK
<1>8. CASE PowerLoss
  <2>1. 0 \in Slots /\ 0 \in Clips /\ 0 \in Buffers /\ 0 \in 0..MaxLate
    BY SequencerAssumption DEF Slots, Clips, Buffers
  <2>2. Blank \in Patterns /\ Beat \in Patterns
    BY DEF Blank, Beat, Patterns, Levels
  <2>3. ClockType'
    <3>1. tick_counter' = 0 /\ clock_stable' = FALSE /\ scheduled_task' = "none" /\ late' = 0
      BY <1>8 DEF PowerLoss
    <3>2. clock_stable' \in BOOLEAN
      BY <3>1
    <3>3. QED BY <2>1, <3>1, <3>2 DEF ClockType
  <2>4. PlaybackType'
    BY <1>0, <1>8, DisturbingKeepsType DEF PowerLoss, MayDisturb
  <2>5. KitType'
    <3>1. /\ slot_clip' = [s \in Slots |-> 0] /\ slotSelectedBuffer' = [s \in Slots |-> 0]
          /\ pattern' = [s \in Slots |-> [n \in Buffers |-> IF n = 0 THEN Blank ELSE Beat]]
      BY <1>8 DEF PowerLoss
    <3>2. QED BY <2>1, <2>2, <3>1 DEF KitType
  <2>6. ModeType'
    <3>1. /\ op_mode' = "normal" /\ seq_traktor_mode' = FALSE
          /\ sequencerDisplayState' = "OFF" /\ selectedSlot' = 0
      BY <1>8 DEF PowerLoss
    <3>2. seq_traktor_mode' \in BOOLEAN
      BY <3>1
    <3>3. QED BY <2>1, <3>1, <3>2 DEF ModeType
  <2>7. ShiftType'
    <3>1. /\ shift_active' = FALSE
          /\ slot_memory' = [s \in Slots |-> [clip |-> 0, buffer |-> 0, steps |-> Blank]]
      BY <1>8 DEF PowerLoss
    <3>2. shift_active' \in BOOLEAN
      BY <3>1
    <3>3. QED BY <2>1, <2>2, <3>1, <3>2 DEF ShiftType
  <2>8. ButtonsType'
    <3>1. /\ prev_seq_side_sw_state' = {} /\ mod_level' = [s \in Slots |-> 0]
          /\ passing' = FALSE /\ UNCHANGED <<sides, down>>
      BY <1>8 DEF PowerLoss
    <3>2. passing' \in BOOLEAN
      BY <3>1
    <3>3. QED BY <3>1, <3>2 DEF TypeOK, ButtonsType
  <2>9. MemoryType'
    <3>1. work' = None /\ seq_memory_slot_state' = FullSlots /\ UNCHANGED <<page1, page2>>
      BY <1>8 DEF PowerLoss, eeprom
    <3>2. QED BY <1>0, <3>1 DEF MemoryType, FullSlots
  <2>10. scenario' \in Scenarios
    BY <1>8 DEF PowerLoss, TypeOK
  <2>11. QED
    BY <2>3, <2>4, <2>5, <2>6, <2>7, <2>8, <2>9, <2>10 DEF TypeOK
<1>9. QED BY <1>3, <1>4, <1>5, <1>6, <1>7, <1>8

\* Every step keeps the types.
LEMMA NextType == TypeOK /\ [Next]_vars => TypeOK'
<1> SUFFICES ASSUME TypeOK, [Next]_vars PROVE TypeOK'
  OBVIOUS
<1>1. CASE UNCHANGED vars
  BY <1>1, SameKeepsType DEF vars, TypeOK
<1>2. CASE Next
  <2>1. 0 \in 0..5
    OBVIOUS
  <2>2. QED
    BY <1>2, <2>1, ClockKeepsType, SidesKeepType, EncodersKeepType, MemoryKeepsType DEF Next
<1>3. QED BY <1>1, <1>2

-----------------------------------------------------------------------------
\* Notes.

\* Nothing happens to a note while its place, its clip and its pattern stay.
LEMMA NotesStay ==
    ASSUME NotesEnd, UNCHANGED <<sounding, lost, rythmIndex>>, UNCHANGED kit
    PROVE  NotesEnd'
<1>1. \A s \in Slots : Off(s)' = Off(s)
  BY DEF Off, get_step_state, PrevStep, kit
<1>2. QED BY <1>1 DEF NotesEnd

\* The notes of these slots are disturbed, and nothing happens to those of the others.
DisturbsOnly(S) == Disturbs(S) /\ \A s \in Slots \ S : Off(s)' = Off(s)

\* What is disturbed is no longer owed an end, and the other slots keep theirs.
LEMMA NotesDisturbed ==
    ASSUME NotesEnd, NEW S, DisturbsOnly(S), UNCHANGED sounding
    PROVE  NotesEnd'
<1> SUFFICES ASSUME NEW s \in Slots PROVE (sounding[s] \subseteq (lost[s] \cup Off(s)))'
  BY DEF NotesEnd
<1> DEFINE off == Off(s)'
<1> SUFFICES sounding'[s] \subseteq (lost'[s] \cup off)
  OBVIOUS
<1>1. lost'[s] = IF s \in S THEN sounding[s] ELSE lost[s]
  BY DEF DisturbsOnly, Disturbs
<1>2. s \notin S => off = Off(s)
  BY DEF DisturbsOnly
<1>3. sounding'[s] = sounding[s] /\ sounding[s] \subseteq (lost[s] \cup Off(s))
  BY DEF NotesEnd
<1> HIDE DEF off
<1>4. QED BY <1>1, <1>2, <1>3

\* Where the place stays, so does the note of a slot whose clip, choice of patterns
\* and patterns stay.
LEMMA OffStays ==
    ASSUME NEW s \in Slots, rythmIndex' = rythmIndex, slot_clip'[s] = slot_clip[s],
           slotSelectedBuffer'[s] = slotSelectedBuffer[s], pattern'[s] = pattern[s]
    PROVE  Off(s)' = Off(s)
<1>1. PrevStep' = PrevStep
  BY DEF PrevStep
<1>2. get_step_state(s, PrevStep)' = get_step_state(s, PrevStep)
  BY <1>1 DEF get_step_state
<1>3. QED BY <1>2 DEF Off

\* To set the place back disturbs every slot, or moves nothing.
LEMMA RewindDisturbsOnly == Rewind /\ UNCHANGED kit => \E S : DisturbsOnly(S)
<1> SUFFICES ASSUME Rewind, UNCHANGED kit PROVE \E S : DisturbsOnly(S)
  OBVIOUS
<1>1. CASE rythmIndex = 0
  <2>1. Disturbs({}) /\ rythmIndex' = rythmIndex
    BY <1>1 DEF Rewind
  <2>2. \A s \in Slots : Off(s)' = Off(s)
    BY <2>1, OffStays DEF kit
  <2>3. DisturbsOnly({})
    BY <2>1, <2>2 DEF DisturbsOnly
  <2>4. QED BY <2>3
<1>2. CASE rythmIndex # 0
  <2>1. DisturbsOnly(Slots)
    BY <1>2 DEF Rewind, DisturbsOnly
  <2>2. QED BY <2>1
<1>3. QED BY <1>1, <1>2

\* What changes in some slots disturbs only these.
LEMMA ChangeDisturbsOnly ==
    ASSUME Disturbs(Changed), UNCHANGED rythmIndex
    PROVE  \E S : DisturbsOnly(S)
<1>1. \A s \in Slots \ Changed : Off(s)' = Off(s)
  BY OffStays DEF Changed
<1>2. DisturbsOnly(Changed)
  BY <1>1 DEF DisturbsOnly
<1>3. QED BY <1>2

\* A trigger releases the notes of the step before, and leaves those of its own
\* step where the next one will look.
LEMMA NotesTriggered ==
    ASSUME TypeOK, NotesEnd, send_triggers, UNCHANGED kit
    PROVE  NotesEnd'
<1>1. rythmIndex \in Steps /\ NumSlots \in Nat /\ NumSlots > 0
  BY SequencerAssumption DEF TypeOK, PlaybackType
<1>2. PrevStep' = rythmIndex
  BY <1>1, StepsGoRound DEF PrevStep, send_triggers, NextStep, Steps, Encoders
<1> SUFFICES ASSUME NEW s \in Slots PROVE (sounding[s] \subseteq (lost[s] \cup Off(s)))'
  BY DEF NotesEnd
<1>3. Off(s)' = IF get_step_state(s, rythmIndex) # 0 THEN {slot_clip[s]} ELSE {}
  BY <1>2 DEF Off, get_step_state, kit
<1>4. On(s) \subseteq {slot_clip[s]}
  BY DEF On
<1>5. On(s) \subseteq (Forestalled(s) \cup Off(s)')
  BY <1>3, <1>4 DEF Forestalled
<1>6. /\ sounding'[s] = (sounding[s] \ Off(s)) \cup On(s)
      /\ lost'[s] = ((lost[s] \ Off(s)) \ On(s)) \cup Forestalled(s)
      /\ sounding[s] \subseteq (lost[s] \cup Off(s))
  BY DEF send_triggers, NotesEnd
<1> DEFINE off == Off(s)'
<1>7. sounding'[s] \subseteq (lost'[s] \cup off)
  <2> HIDE DEF off
  <2>1. On(s) \subseteq (Forestalled(s) \cup off)
    BY <1>5 DEF off
  <2>2. QED BY <1>6, <2>1
<1>8. QED BY <1>7

\* A step that is edited is not the one a note waits for, or the note is disturbed.
LEMMA NotesEdited ==
    ASSUME TypeOK, NotesEnd, NEW i \in Steps, NEW v, EditStep(i, v),
           UNCHANGED <<sounding, rythmIndex, slot_clip, slotSelectedBuffer>>
    PROVE  NotesEnd'
<1>0. \A s \in Slots \ {selectedSlot} : pattern'[s] = pattern[s]
  BY DEF EditStep, set_step_state, TypeOK, KitType
<1>1. CASE i = PrevStep
  <2>1. Disturbs({selectedSlot})
    BY <1>1 DEF EditStep
  <2>2. \A s \in Slots \ {selectedSlot} : Off(s)' = Off(s)
    BY <1>0, OffStays
  <2>3. DisturbsOnly({selectedSlot})
    BY <2>1, <2>2 DEF DisturbsOnly
  <2>4. QED BY <2>3, NotesDisturbed
<1>2. CASE i # PrevStep
  <2>1. lost' = lost
    BY <1>2 DEF EditStep
  <2>2. \A s \in Slots : get_step_state(s, PrevStep)' = get_step_state(s, PrevStep)
    <3>1. PrevStep' = PrevStep
      BY DEF PrevStep
    <3>2. \A s \in Slots :
            pattern'[s][slotSelectedBuffer[s]][PrevStep]
              = pattern[s][slotSelectedBuffer[s]][PrevStep]
      BY <1>2 DEF EditStep, set_step_state, TypeOK, KitType, ModeType, Patterns
    <3>3. QED BY <3>1, <3>2 DEF get_step_state
  <2>3. \A s \in Slots : Off(s)' = Off(s)
    BY <2>2 DEF Off
  <2>4. QED BY <2>1, <2>3 DEF NotesEnd
<1>3. QED BY <1>1, <1>2

\* Every step sees to the notes in one of these ways.
LEMMA NextNotes == TypeOK /\ NotesEnd /\ [Next]_vars => NotesEnd'
<1> SUFFICES ASSUME TypeOK, NotesEnd, [Next]_vars PROVE NotesEnd'
  OBVIOUS
<1> DEFINE Stay == UNCHANGED <<sounding, lost, rythmIndex>> /\ UNCHANGED kit
           Disturbed == (\E S : DisturbsOnly(S)) /\ UNCHANGED sounding
           Triggered == send_triggers /\ UNCHANGED kit
           Edited == \E i \in Steps, v \in Levels :
                       /\ EditStep(i, v)
                       /\ UNCHANGED <<sounding, rythmIndex, slot_clip, slotSelectedBuffer>>
<1>0. SUFFICES Stay \/ Disturbed \/ Triggered \/ Edited
  BY NotesStay, NotesDisturbed, NotesTriggered, NotesEdited
<1>1. CASE midi_clock
  BY <1>1 DEF midi_clock, seq_midi_clock_handler, NoTriggers
<1>2. CASE real_time_start
  BY <1>2 DEF real_time_start
<1>3. CASE real_time_stop
  BY <1>3, RewindDisturbsOnly DEF real_time_stop
<1>4. CASE do_task
  BY <1>4 DEF do_task, NoTriggers
<1>5. CASE \E on \in BOOLEAN : ReceivePlay(on)
  BY <1>5, RewindDisturbsOnly DEF ReceivePlay, Arm, Stop
<1>6. CASE ReceiveEnable
  BY <1>6 DEF ReceiveEnable, playback
<1>7. ASSUME NEW b \in 0..5, MoveSide(b) PROVE Stay
  BY <1>7 DEF MoveSide, playback
<1>8. ASSUME NEW b \in 0..5, ShiftButton(b) PROVE Stay \/ Disturbed
  BY <1>8, ChangeDisturbsOnly DEF ShiftButton, Edge, MiddleButton, ShiftDown, ShiftUp
<1>9. CASE ResetButton
  BY <1>9, RewindDisturbsOnly DEF ResetButton, Edge
<1>10. CASE SyncButton
  BY <1>10 DEF SyncButton, Edge
<1>11. CASE PlayButton
  BY <1>11, RewindDisturbsOnly DEF PlayButton, Edge, play_or_stop_sequence, Arm, Stop
<1>12. CASE MemoryButton
  BY <1>12 DEF MemoryButton, Edge
<1>13. ASSUME NEW e \in Encoders, NEW c \in Clips, TurnClip(e, c) PROVE Disturbed
  <2>1. \A s \in Slots \ {SlotOf(e)} : slot_clip'[s] = slot_clip[s]
    BY <1>13 DEF TurnClip, TypeOK, KitType
  <2>2. Disturbs({SlotOf(e)}) /\ UNCHANGED <<sounding, rythmIndex, slotSelectedBuffer, pattern>>
    BY <1>13 DEF TurnClip, Encoder
  <2>3. DisturbsOnly({SlotOf(e)})
    BY <2>1, <2>2, OffStays DEF DisturbsOnly
  <2>4. QED BY <2>2, <2>3
<1>14. ASSUME NEW e \in Encoders, NEW n \in Buffers \cup 0..3, TurnPattern(e, n)
       PROVE  Stay \/ Disturbed
  <2>1. CASE e \in down
    BY <1>14, <2>1 DEF TurnPattern, Encoder, kit
  <2>2. CASE e \notin down
    <3>1. \A s \in Slots \ {SlotOf(e)} : slotSelectedBuffer'[s] = slotSelectedBuffer[s]
      BY <1>14, <2>2 DEF TurnPattern, TypeOK, KitType
    <3>2. Disturbs({SlotOf(e)}) /\ UNCHANGED <<sounding, rythmIndex, slot_clip, pattern>>
      BY <1>14, <2>2 DEF TurnPattern, Encoder
    <3>3. DisturbsOnly({SlotOf(e)})
      BY <3>1, <3>2, OffStays DEF DisturbsOnly
    <3>4. QED BY <3>2, <3>3
  <2>3. QED BY <2>1, <2>2
<1>15. ASSUME NEW e \in Encoders, NEW v \in Velocities, TurnStep(e, v) PROVE Edited
  BY <1>15, SequencerAssumption DEF TurnStep, Encoder, Steps
<1>16. ASSUME NEW e \in Encoders, PressEncoder(e) PROVE Stay \/ Edited
  <2>1. CASE sequencerDisplayState = "PATTERN_EDIT"
    <3>1. PICK v \in Levels : EditStep(e, v)
      BY <1>16, <2>1 DEF PressEncoder, Levels
    <3>2. QED BY <1>16, <3>1 DEF PressEncoder, Encoder, Steps
  <2>2. CASE sequencerDisplayState # "PATTERN_EDIT"
    BY <1>16, <2>2 DEF PressEncoder, Encoder, kit
  <2>3. QED BY <2>1, <2>2
<1>17. ASSUME NEW e \in Encoders, NEW short \in BOOLEAN, ReleaseEncoder(e, short) PROVE Stay
  BY <1>17 DEF ReleaseEncoder, Encoder
<1>18. ASSUME NEW e \in Encoders, ReleaseElsewhere(e) PROVE Stay
  BY <1>18 DEF ReleaseElsewhere, playback
<1>19. CASE SavePage1 \/ SavePage2 \/ DeleteFlag
  BY <1>19 DEF SavePage1, SavePage2, DeleteFlag, Memory
<1>20. CASE LoadPatterns \/ LoadClips
  BY <1>20, ChangeDisturbsOnly DEF LoadPatterns, LoadClips, Memory
<1>21. CASE PowerLoss
  BY <1>21 DEF PowerLoss, DisturbsOnly
<1>22. CASE UNCHANGED vars
  BY <1>22 DEF vars, playback
<1> HIDE DEF Stay, Disturbed, Triggered, Edited
<1>23. QED
  BY <1>1, <1>2, <1>3, <1>4, <1>5, <1>6, <1>7, <1>8, <1>9, <1>10, <1>11, <1>12, <1>13,
     <1>14, <1>15, <1>16, <1>17, <1>18, <1>19, <1>20, <1>21, <1>22 DEF Next

-----------------------------------------------------------------------------
\* Triggers.

\* The places of a sixteenth, and the tick that leads from one to the next.
LEMMA Places ==
    ASSUME NEW t \in 0..23
    PROVE  /\ t % 6 \in 0..5
           /\ ((t + 1) % 24) % 6 = IF t % 6 = 5 THEN 0 ELSE (t % 6) + 1
           /\ (t + 2) % 6 = 0 <=> t % 6 = 4
           /\ t = 0 => t % 6 = 0
           /\ t = 1 => t % 6 = 1
<1>1. (t + 1) % 24 = IF t = 23 THEN 0 ELSE t + 1
  OBVIOUS
<1>2. QED BY <1>1

\* A tick takes a sixteenth that has had its due one place further.
LEMMA TickKeepsTriggers ==
    ASSUME TypeOK, TriggerInv, midi_clock
    PROVE  TriggerInv'
<1>1. /\ tick_counter \in 0..23 /\ clock_stable \in BOOLEAN /\ late \in 0..MaxLate
      /\ scheduled_task \in {"none", "schedule_trigger", "send_triggers"}
      /\ MaxLate \in 0..1 /\ None \notin Int
  BY SequencerAssumption DEF TypeOK, ClockType
<1> DEFINE p == tick_counter % 6
<1>2. /\ p \in 0..5 /\ Phase = p
      /\ Phase' = IF p = 5 THEN 0 ELSE p + 1
      /\ (tick_counter + 2) % 6 = 0 <=> p = 4
      /\ tick_counter = 0 => p = 0
      /\ tick_counter = 1 => p = 1
  BY <1>1, Places DEF Phase, midi_clock
<1>3. tick_counter % 6 = p
  OBVIOUS
<1> HIDE DEF p
<1>4. /\ scheduled_task # "none" => late < MaxLate
      /\ late' = IF scheduled_task = "none" THEN 0 ELSE late + 1
      /\ seq_midi_clock_handler(clock_stable')
  BY DEF midi_clock
<1>5. clock_stable' \in BOOLEAN /\ (p # 1 => clock_stable' = clock_stable)
  BY <1>1, <1>2 DEF midi_clock, MaySettle
<1>6. (scheduled_task = "none" => late = 0)
      /\ (scheduled_task # "none" => late = 0 /\ p \in {0, 5})
  BY <1>1, <1>2, <1>4 DEF TriggerInv, TaskIsFresh
<1>7. /\ scheduled_task # "none" => scheduled_task' # "none"
      /\ scheduled_task' # "none" /\ scheduled_task = "none" => p = 4
  BY <1>2, <1>4 DEF seq_midi_clock_handler
<1>8. TaskIsFresh'
  BY <1>1, <1>2, <1>4, <1>6, <1>7 DEF TaskIsFresh
<1>9. ASSUME sent' # None
      PROVE  /\ seq_state' = "PLAYBACK"
             /\ p = 0 => scheduled_task' = "none" /\ sent' = 1
             /\ p \in 1..3 => scheduled_task' = "none" /\ sent' = 1
             /\ p = 4 => IF scheduled_task' # "none" THEN clock_stable' /\ sent' = 0
                         ELSE sent' = IF clock_stable' THEN 1 ELSE 0
             /\ p = 5 => /\ scheduled_task' = scheduled_task
                         /\ sent' = IF clock_stable' /\ scheduled_task = "none" THEN 1 ELSE 0
                         /\ scheduled_task # "none" => clock_stable'
  <2>1. sent # None =>
          /\ seq_state = "PLAYBACK"
          /\ p \in 1..4 => scheduled_task = "none" /\ sent = 1
          /\ p = 5 /\ scheduled_task # "none" => clock_stable /\ sent = 0
          /\ p = 5 /\ scheduled_task = "none" => sent = IF clock_stable THEN 1 ELSE 0
          /\ p = 0 => /\ scheduled_task = "none"
                      /\ sent = IF clock_stable THEN 1 ELSE 0
    BY <1>2, <1>6 DEF TriggerInv, SentSoFar
  <2>2. CASE seq_state = "WAIT_FOR_SYNC" /\ tick_counter = 0
    BY <1>2, <1>4, <1>9, <2>2 DEF seq_midi_clock_handler
  <2>3. CASE seq_state # "PLAYBACK" /\ ~(seq_state = "WAIT_FOR_SYNC" /\ tick_counter = 0)
    BY <1>2, <1>4, <1>9, <2>1, <2>3 DEF seq_midi_clock_handler
  <2>4. CASE seq_state = "PLAYBACK" /\ p = 4
    BY <1>2, <1>3, <1>4, <1>5, <1>6, <1>9, <2>4 DEF seq_midi_clock_handler
  <2>5. CASE seq_state = "PLAYBACK" /\ p = 0
    BY <1>2, <1>3, <1>4, <1>5, <1>6, <1>9, <2>1, <2>5 DEF seq_midi_clock_handler, Counted
  <2>6. CASE seq_state = "PLAYBACK" /\ p \in {1, 2, 3, 5}
    <3>1. sent' = sent /\ seq_state' = seq_state /\ scheduled_task' = scheduled_task
      BY <1>2, <1>3, <1>4, <2>6 DEF seq_midi_clock_handler
    <3>2. QED BY <1>5, <1>9, <2>1, <2>6, <3>1
  <2>7. QED BY <1>2, <2>2, <2>3, <2>4, <2>5, <2>6
<1>10. SentSoFar'
  BY <1>2, <1>4, <1>6, <1>9 DEF SentSoFar
<1>11. QED BY <1>8, <1>10 DEF TriggerInv

\* The scheduler sends what is due, once.
LEMMA TaskKeepsTriggers ==
    ASSUME TypeOK, TriggerInv, do_task
    PROVE  TriggerInv'
<1>1. tick_counter \in 0..23 /\ None \notin Int
  BY SequencerAssumption DEF TypeOK, ClockType
<1>2. Phase \in 0..5 /\ Phase' = Phase
  BY <1>1, Places DEF Phase, do_task
<1>3. CASE scheduled_task = "schedule_trigger"
  BY <1>2, <1>3 DEF do_task, TriggerInv, TaskIsFresh, SentSoFar
<1>4. CASE scheduled_task = "send_triggers"
  <2>1. TaskIsFresh'
    BY <1>4 DEF do_task, TaskIsFresh
  <2>2. /\ scheduled_task' = "none" /\ UNCHANGED <<seq_state, clock_stable>>
        /\ sent' = IF seq_state = "PLAYBACK" THEN Counted(1) ELSE sent
    BY <1>4 DEF do_task
  <2>3. SentSoFar'
    BY <1>1, <1>2, <1>4, <2>2 DEF TriggerInv, SentSoFar, Counted
  <2>4. QED BY <2>1, <2>3 DEF TriggerInv
<1>5. QED BY <1>3, <1>4 DEF do_task

\* What else happens leaves the clock and the count alone, or ends the count.
LEMMA NextTriggers == TypeOK /\ TriggerInv /\ [Next]_vars => TriggerInv'
<1> SUFFICES ASSUME TypeOK, TriggerInv, [Next]_vars PROVE TriggerInv'
  OBVIOUS
<1> DEFINE Same == UNCHANGED <<tick_counter, clock_stable, scheduled_task, late>>
                   /\ (UNCHANGED <<sent, seq_state>> \/ sent' = None)
<1>1. Same => TriggerInv'
  BY DEF TriggerInv, TaskIsFresh, SentSoFar, Phase
<1>2. CASE midi_clock
  BY <1>2, TickKeepsTriggers
<1>3. CASE do_task
  BY <1>3, TaskKeepsTriggers
<1>4. CASE real_time_start
  <2>1. tick_counter' = 0 /\ sent' = None /\ UNCHANGED <<scheduled_task, late>>
    BY <1>4 DEF real_time_start
  <2>2. Phase' = 0
    BY <2>1 DEF Phase
  <2>3. QED BY <2>1, <2>2 DEF TriggerInv, TaskIsFresh, SentSoFar
<1>5. CASE real_time_stop
  BY <1>5 DEF real_time_stop, TriggerInv, TaskIsFresh, SentSoFar
<1>6. CASE PowerLoss
  BY <1>6 DEF PowerLoss, TriggerInv, TaskIsFresh, SentSoFar
<1>7. CASE \E on \in BOOLEAN : ReceivePlay(on)
  BY <1>1, <1>7 DEF ReceivePlay, clock
<1>8. CASE ReceiveEnable
  BY <1>1, <1>8 DEF ReceiveEnable, clock, playback
<1>9. ASSUME NEW b \in 0..5, MoveSide(b) \/ ShiftButton(b) PROVE Same
  <2>1. CASE MoveSide(b)
    BY <2>1 DEF MoveSide, clock, playback
  <2>2. CASE ShiftButton(b)
    BY <2>2 DEF ShiftButton, Edge, MiddleButton, clock
  <2>3. QED BY <1>9, <2>1, <2>2
<1>10. CASE ResetButton \/ SyncButton \/ PlayButton \/ MemoryButton
  BY <1>1, <1>10
  DEF ResetButton, SyncButton, PlayButton, play_or_stop_sequence, MemoryButton, Edge, clock
<1>11. ASSUME NEW e \in Encoders, Encoder(e) PROVE Same
  BY <1>11 DEF Encoder, clock
<1>12. CASE \E e \in Encoders : Encoder(e)
  BY <1>1, <1>11, <1>12
<1>13. CASE \E e \in Encoders : ReleaseElsewhere(e)
  BY <1>1, <1>13 DEF ReleaseElsewhere, clock, playback
<1>14. CASE Memory
  BY <1>1, <1>14 DEF Memory, clock
<1>15. CASE UNCHANGED vars
  BY <1>1, <1>15 DEF vars, clock, playback
<1> HIDE DEF Same
<1>16. QED
  <2>1. ASSUME NEW e \in Encoders,
               \/ \E c \in Clips : TurnClip(e, c)
               \/ \E n \in Buffers \cup 0..3 : TurnPattern(e, n)
               \/ \E v \in Velocities : TurnStep(e, v)
               \/ PressEncoder(e)
               \/ \E short \in BOOLEAN : ReleaseEncoder(e, short)
        PROVE  Encoder(e)
    BY <2>1 DEF TurnClip, TurnPattern, TurnStep, PressEncoder, ReleaseEncoder
  <2>2. SavePage1 \/ SavePage2 \/ DeleteFlag \/ LoadPatterns \/ LoadClips => Memory
    BY DEF SavePage1, SavePage2, DeleteFlag, LoadPatterns, LoadClips
  <2>3. QED
    BY <1>1, <1>2, <1>3, <1>4, <1>5, <1>6, <1>7, <1>8, <1>9, <1>10, <1>12, <1>13, <1>14,
       <1>15, <2>1, <2>2 DEF Next

-----------------------------------------------------------------------------
\* Shift.

\* Pressing shift remembers what plays.
LEMMA PressKeepsShift ==
    ASSUME TypeOK, ShiftInv, work = None, UNCHANGED work, ShiftDown,
           sequencerDisplayState = "DEFAULT", UNCHANGED sequencerDisplayState
    PROVE  ShiftInv'
<1>1. KitType
  BY DEF TypeOK
<1>2. CASE shift_active
  BY <1>2 DEF ShiftDown, ShiftInv, ShiftHolds, WorkHasItsPage
<1>3. CASE ~shift_active
  <2>1. /\ slot_memory' = [s \in Slots |-> Saved(s)]
        /\ shifted' = <<slot_clip, slotSelectedBuffer, pattern>> /\ pattern' = pattern
    BY <1>3 DEF ShiftDown, kit
  <2>2. \A s \in Slots : /\ slot_memory'[s].clip = slot_clip[s]
                         /\ slot_memory'[s].buffer = slotSelectedBuffer[s]
                         /\ slot_memory'[s].steps = pattern[s][slotSelectedBuffer[s]]
    BY <2>1 DEF Saved
  <2>3. /\ slot_clip = [s \in Slots |-> slot_memory'[s].clip]
        /\ slotSelectedBuffer = [s \in Slots |-> slot_memory'[s].buffer]
    BY <1>1, <2>2 DEF KitType
  <2>4. QED BY <2>1, <2>2, <2>3 DEF ShiftInv, ShiftHolds, WorkHasItsPage
<1>4. QED BY <1>2, <1>3

\* While shift is held on its page, nothing touches the patterns; every way off the
\* page, and the release, ends the memory.
LEMMA NextShift == TypeOK /\ ShiftInv /\ [Next]_vars => ShiftInv'
<1> SUFFICES ASSUME TypeOK, ShiftInv, [Next]_vars PROVE ShiftInv'
  OBVIOUS
<1> DEFINE Quiet == UNCHANGED <<slot_memory, pattern>> \/ shifted = None
           Stays == UNCHANGED <<shifted, sequencerDisplayState>> /\ Quiet
           Idle == work = None /\ UNCHANGED work
           Ends == shifted' = None
           Work == work' # None =>
                     /\ UNCHANGED sequencerDisplayState
                     /\ work # None \/ sequencerDisplayState = "PATTERN_MEMORY"
           Kept == (Stays \/ Ends) /\ Work
<1>1. Kept => ShiftInv'
  BY DEF ShiftInv, ShiftHolds, WorkHasItsPage
<1>2. Free => work = None
  BY DEF Free
<1>3. CASE midi_clock
  <2>1. sequencerDisplayState' # sequencerDisplayState => sequencerDisplayState = "OFF"
    BY <1>3 DEF midi_clock
  <2>2. UNCHANGED <<shifted, slot_memory, pattern>> /\ Idle
    BY <1>2, <1>3 DEF midi_clock, shift, kit, memory
  <2>3. QED BY <2>1, <2>2 DEF ShiftInv, ShiftHolds, WorkHasItsPage
<1>4. CASE real_time_start
  BY <1>1, <1>4 DEF real_time_start, shift, kit, mode, memory
<1>5. CASE real_time_stop
  BY <1>1, <1>5 DEF real_time_stop, shift, kit, mode, memory
<1>6. CASE do_task
  BY <1>1, <1>6 DEF do_task, shift, kit, mode, memory
<1>7. CASE \E on \in BOOLEAN : ReceivePlay(on)
  BY <1>1, <1>7 DEF ReceivePlay, shift, kit, mode, memory
<1>8. CASE ReceiveEnable
  BY <1>1, <1>8 DEF ReceiveEnable, shift, kit, memory
<1>9. ASSUME NEW b \in 0..5, MoveSide(b) PROVE Kept
  BY <1>9 DEF MoveSide, shift, kit, memory
<1>10. ASSUME NEW b \in 0..5, ShiftButton(b) PROVE ShiftInv'
  <2>1. Idle /\ MiddleButton(b \in sides)
    BY <1>10 DEF ShiftButton, Edge, memory
  <2>2. CASE sequencerDisplayState = "DEFAULT" /\ b \in sides
    BY <2>1, <2>2, PressKeepsShift DEF MiddleButton
  <2>3. CASE sequencerDisplayState = "DEFAULT" /\ ~(b \in sides)
    <3>1. Ends
      BY <2>1, <2>3 DEF MiddleButton, ShiftUp
    <3>2. QED BY <1>1, <2>1, <3>1
  <2>4. CASE sequencerDisplayState # "DEFAULT"
    <3>1. shifted' = None
      BY <2>1, <2>4 DEF MiddleButton, Show, ShiftInv, ShiftHolds
    <3>2. QED BY <1>1, <2>1, <3>1
  <2>5. QED BY <2>2, <2>3, <2>4
<1>11. CASE ResetButton
  BY <1>1, <1>11 DEF ResetButton, Edge, shift, kit, memory
<1>12. CASE SyncButton
  BY <1>1, <1>12 DEF SyncButton, Edge, shift, kit, memory
<1>13. CASE PlayButton
  BY <1>1, <1>13 DEF PlayButton, Edge, shift, kit, memory
<1>14. CASE MemoryButton
  BY <1>1, <1>14 DEF MemoryButton, Edge, Show, kit, memory
<1>15. ASSUME NEW e \in Encoders, NEW c \in Clips, TurnClip(e, c) PROVE Kept
  BY <1>15 DEF TurnClip, Encoder
<1>16. ASSUME NEW e \in Encoders, NEW n \in Buffers \cup 0..3, TurnPattern(e, n) PROVE Kept
  BY <1>16 DEF TurnPattern, Encoder
<1>17. ASSUME NEW e \in Encoders, NEW v \in Velocities, TurnStep(e, v) PROVE Kept
  BY <1>17 DEF TurnStep, Encoder, ShiftInv, ShiftHolds
<1>18. ASSUME NEW e \in Encoders, PressEncoder(e) PROVE Kept
  <2>1. UNCHANGED <<shifted, sequencerDisplayState, slot_memory>>
    BY <1>18 DEF PressEncoder, Encoder
  <2>2. pattern' = pattern \/ sequencerDisplayState = "PATTERN_EDIT"
    BY <1>18 DEF PressEncoder
  <2>3. work' = work \/ sequencerDisplayState = "PATTERN_MEMORY"
    BY <1>18 DEF PressEncoder
  <2>4. QED BY <2>1, <2>2, <2>3 DEF ShiftInv, ShiftHolds
<1>19. ASSUME NEW e \in Encoders, NEW short \in BOOLEAN, ReleaseEncoder(e, short) PROVE Kept
  <2>1. Idle /\ UNCHANGED <<slot_memory, pattern>>
    BY <1>2, <1>19 DEF ReleaseEncoder, Encoder, kit
  <2>2. UNCHANGED <<shifted, sequencerDisplayState>>
          \/ Show("PATTERN_EDIT")
    BY <1>19 DEF ReleaseEncoder
  <2>3. QED BY <2>1, <2>2 DEF Show
<1>20. ASSUME NEW e \in Encoders, ReleaseElsewhere(e) PROVE Kept
  BY <1>20 DEF ReleaseElsewhere, shift, kit, mode, memory
<1>21. CASE SavePage1 \/ SavePage2 \/ DeleteFlag \/ LoadPatterns \/ LoadClips
  <2>1. work # None /\ Memory
    BY <1>21 DEF SavePage1, SavePage2, DeleteFlag, LoadPatterns, LoadClips, Working
  <2>2. UNCHANGED <<shifted, sequencerDisplayState>> /\ shifted = None
    BY <2>1 DEF Memory, mode, shift, ShiftInv, ShiftHolds, WorkHasItsPage
  <2>3. QED BY <1>1, <2>1, <2>2
<1>22. CASE PowerLoss
  BY <1>1, <1>22 DEF PowerLoss
<1>23. CASE UNCHANGED vars
  BY <1>1, <1>23 DEF vars, shift, kit, mode, memory
<1> HIDE DEF Kept
<1>24. QED
  BY <1>1, <1>3, <1>4, <1>5, <1>6, <1>7, <1>8, <1>9, <1>10, <1>11, <1>12, <1>13, <1>14,
     <1>15, <1>16, <1>17, <1>18, <1>19, <1>20, <1>21, <1>22, <1>23 DEF Next

\* The release puts back what the press remembered, and no other step ends shift
\* on its page.
LEMMA StepUndoesShift ==
    ASSUME TypeOK, ShiftInv, [Next]_vars,
           shifted # None, shift_active, ~shift_active',
           sequencerDisplayState' = "DEFAULT"
    PROVE  kit' = shifted
<1>1. PICK b \in 0..5 : ShiftButton(b)
  <2>1. ~UNCHANGED shift_active
    OBVIOUS
  <2>2. midi_clock \/ real_time_start \/ real_time_stop \/ do_task \/ ReceiveEnable
          \/ (\E on \in BOOLEAN : ReceivePlay(on))
        => UNCHANGED shift_active
    BY DEF midi_clock, real_time_start, real_time_stop, do_task, ReceiveEnable, ReceivePlay,
           shift
  <2>3. (\E b \in 0..5 : MoveSide(b)) \/ ResetButton \/ SyncButton \/ PlayButton
        => UNCHANGED shift_active
    BY DEF MoveSide, ResetButton, SyncButton, PlayButton, shift
  <2>4. ~MemoryButton
    BY DEF MemoryButton, Show, ShiftInv, ShiftHolds
  <2>5. \A e \in Encoders :
          \/ \E c \in Clips : TurnClip(e, c)
          \/ \E n \in Buffers \cup 0..3 : TurnPattern(e, n)
          \/ \E v \in Velocities : TurnStep(e, v)
          \/ PressEncoder(e)
          \/ \E short \in BOOLEAN : ReleaseEncoder(e, short)
          \/ ReleaseElsewhere(e)
          => UNCHANGED shift_active
    BY DEF TurnClip, TurnPattern, TurnStep, PressEncoder, ReleaseEncoder, ReleaseElsewhere,
           Encoder, shift
  <2>6. SavePage1 \/ SavePage2 \/ DeleteFlag \/ LoadPatterns \/ LoadClips \/ UNCHANGED vars
        => UNCHANGED shift_active
    BY DEF SavePage1, SavePage2, DeleteFlag, LoadPatterns, LoadClips, Memory, vars, shift
  <2>7. ~PowerLoss
    BY DEF PowerLoss
  <2>8. QED BY <2>1, <2>2, <2>3, <2>4, <2>5, <2>6, <2>7 DEF Next
<1>2. sequencerDisplayState = "DEFAULT" /\ MiddleButton(b \in sides)
  BY <1>1 DEF ShiftButton, ShiftInv, ShiftHolds
<1>3. ShiftUp
  <2>1. ShiftDown => shift_active' = shift_active
    BY DEF ShiftDown
  <2>2. QED BY <1>2, <2>1 DEF MiddleButton
<1>4. /\ slot_clip' = [s \in Slots |-> slot_memory[s].clip]
      /\ slotSelectedBuffer' = [s \in Slots |-> slot_memory[s].buffer]
      /\ pattern' = [s \in Slots |->
                       [pattern[s] EXCEPT ![slot_memory[s].buffer] = slot_memory[s].steps]]
  BY <1>3 DEF ShiftUp, Restore
<1>5. pattern' = pattern
  <2>1. \A s \in Slots :
          [pattern[s] EXCEPT ![slot_memory[s].buffer] = slot_memory[s].steps] = pattern[s]
    BY DEF TypeOK, KitType, ShiftType, ShiftInv, ShiftHolds
  <2>2. QED BY <1>4, <2>1 DEF TypeOK, KitType
<1>6. QED BY <1>4, <1>5 DEF kit, ShiftInv, ShiftHolds

-----------------------------------------------------------------------------
\* The pattern memory.

\* What a slot holds, as the store sees it.
Held(m) == IF page2[m].full THEN [steps |-> page1[m], clip |-> page2[m].clip] ELSE None

\* A kit is not the empty slot.
LEMMA HeldIsKit ==
    ASSUME TypeOK, NEW m \in Memories
    PROVE  Held(m) # None <=> page2[m].full
<1>1. [steps |-> page1[m], clip |-> page2[m].clip]
        \in [steps : [Slots -> [Steps -> Levels]], clip : [Slots -> Clips]]
  BY DEF TypeOK, MemoryType, Patterns
<1>2. QED BY <1>1, SequencerAssumption DEF Held

\* No task is at two slots, and only one task is at work.
LEMMA OneTask ==
    \A v, w, m, n : WorkingAt(v, m) /\ WorkingAt(w, n) => v = w /\ m = n
  BY DEF WorkingAt, Working

\* Nothing happens to the memory while no task moves and what plays stays.
LEMMA MemoryRests ==
    ASSUME MemoryInv, UNCHANGED <<page1, page2>>,
           \/ work' = None /\ UNCHANGED seq_memory_slot_state /\ ~Working("delete")
                /\ ~Working("save page 2")
           \/ work' = None /\ seq_memory_slot_state' = FullSlots
           \/ UNCHANGED <<work, seq_memory_slot_state>> /\ UNCHANGED kit
    PROVE  MemoryInv'
<1>1. CASE work' = None /\ UNCHANGED seq_memory_slot_state
             /\ ~Working("delete") /\ ~Working("save page 2")
  BY <1>1 DEF MemoryInv, FlagsAgree, SavesIntoEmpty, LoadsFull, WorkingAt, Working
<1>2. CASE work' = None /\ seq_memory_slot_state' = FullSlots
  BY <1>2 DEF MemoryInv, FlagsAgree, SavesIntoEmpty, LoadsFull, WorkingAt, Working, FullSlots
<1>3. CASE UNCHANGED <<work, seq_memory_slot_state>> /\ UNCHANGED kit
  <2>1. Kit' = Kit
    BY <1>3 DEF Kit, kit
  <2>2. KeptSteps(Kit.steps)' = KeptSteps(Kit.steps)
    BY <2>1 DEF KeptSteps
  <2>3. \A what, m : WorkingAt(what, m)' <=> WorkingAt(what, m)
    BY <1>3 DEF WorkingAt, Working
  <2>4. QED
    BY <1>3, <2>2, <2>3 DEF MemoryInv, FlagsAgree, SavesIntoEmpty, LoadsFull, kit
<1>4. QED BY <1>1, <1>2, <1>3

\* The memory agrees with itself at start.
LEMMA InitMemory == Init => MemoryInv
  BY DEF Init, sequencer_init, MemoryInv, FlagsAgree, SavesIntoEmpty, LoadsFull, WorkingAt,
         Working

\* A press on the memory's page deletes, loads what is full or saves into what is not.
LEMMA PressKeepsMemory ==
    ASSUME TypeOK, MemoryInv, NEW e \in Memories, work = None, PressMemory(e),
           UNCHANGED <<page1, page2>>
    PROVE  MemoryInv'
<1>1. \A m \in Memories : page2[m].full <=> m \in seq_memory_slot_state
  BY DEF MemoryInv, FlagsAgree, WorkingAt, Working
<1>2. PICK task \in {"delete", "load patterns", "save page 1"} :
        /\ work' = [what |-> task, slot |-> e]
        /\ task = "delete" <=> shift_active
        /\ task = "load patterns" => e \in seq_memory_slot_state
        /\ task = "save page 1" => e \notin seq_memory_slot_state
  BY DEF PressMemory
<1>3. \A what, m : WorkingAt(what, m)' => what = task /\ m = e
  <2>1. work'.what = task /\ work'.slot = e
    BY <1>2
  <2>2. QED BY <2>1 DEF WorkingAt, Working
<1>4. CASE task = "delete"
  <2>1. work' # None /\ work'.what = "delete" /\ work'.slot = e
    <3>1. work' \in [what : Tasks, slot : Memories]
      BY <1>2 DEF Tasks
    <3>2. QED BY <1>2, <1>4, <3>1, SequencerAssumption
  <2>2. QED
    BY <1>1, <1>2, <1>3, <1>4, <2>1
    DEF PressMemory, MemoryInv, FlagsAgree, SavesIntoEmpty, LoadsFull, WorkingAt, Working
<1>5. CASE task # "delete"
  <2>1. seq_memory_slot_state' = seq_memory_slot_state
    BY <1>2, <1>5 DEF PressMemory
  <2>2. \A m \in Memories :
          /\ ~WorkingAt("save page 2", m)' /\ ~WorkingAt("load clips", m)'
          /\ WorkingAt("save page 1", m)' => ~page2[m].full
          /\ WorkingAt("load patterns", m)' => page2[m].full
          /\ ~WorkingAt("delete", m)'
    <3>1. ASSUME NEW m \in Memories, WorkingAt("save page 1", m)' PROVE ~page2[m].full
      BY <1>1, <1>2, <1>3, <3>1
    <3>2. ASSUME NEW m \in Memories, WorkingAt("load patterns", m)' PROVE page2[m].full
      BY <1>1, <1>2, <1>3, <3>2
    <3>3. task # "save page 2" /\ task # "load clips"
      OBVIOUS
    <3>4. \A m \in Memories : /\ ~WorkingAt("save page 2", m)' /\ ~WorkingAt("load clips", m)'
                             /\ ~WorkingAt("delete", m)'
      BY <1>3, <1>5, <3>3
    <3>5. QED BY <3>1, <3>2, <3>4
  <2>3. FlagsAgree'
    BY <1>1, <2>1, <2>2 DEF FlagsAgree
  <2>4. SavesIntoEmpty' /\ LoadsFull'
    BY <2>2 DEF SavesIntoEmpty, LoadsFull
  <2>5. QED BY <2>3, <2>4 DEF MemoryInv
<1>6. QED BY <1>4, <1>5

\* Each task leaves the slot it works on as the next one needs it.
LEMMA TasksKeepMemory ==
    ASSUME TypeOK, MemoryInv,
           SavePage1 \/ SavePage2 \/ DeleteFlag \/ LoadPatterns \/ LoadClips
    PROVE  MemoryInv'
<1>0. MemoryType /\ KitType
  BY DEF TypeOK
<1>1. ASSUME NEW what, Working(what)
      PROVE  /\ work.slot \in Memories /\ work \in [what : Tasks, slot : Memories]
             /\ work.what = what
             /\ \A m \in Memories : WorkingAt(what, m) <=> m = work.slot
             /\ \A other : other # what => \A m \in Memories : ~WorkingAt(other, m)
  BY <1>0, <1>1 DEF Working, WorkingAt, MemoryType
<1>2. CASE SavePage1
  <2> DEFINE m0 == work.slot
  <2>1. /\ Working("save page 1") /\ m0 \in Memories
        /\ page1' = [page1 EXCEPT ![m0] = KeptSteps(Kit.steps)] /\ page2' = page2
        /\ seq_memory_slot_state' = seq_memory_slot_state \cup {m0}
        /\ work' = [work EXCEPT !.what = "save page 2"] /\ UNCHANGED kit
    BY <1>1, <1>2 DEF SavePage1, WritePatterns
  <2>2. work' \in [what : Tasks, slot : Memories]
        /\ work'.what = "save page 2" /\ work'.slot = m0
    BY <1>1, <2>1 DEF Tasks
  <2>3. \A m \in Memories :
          /\ WorkingAt("save page 2", m)' <=> m = m0
          /\ ~WorkingAt("save page 1", m)' /\ ~WorkingAt("load patterns", m)'
          /\ ~WorkingAt("load clips", m)' /\ ~WorkingAt("delete", m)'
    BY <2>2, SequencerAssumption DEF WorkingAt, Working
  <2>4. ~page2[m0].full
    BY <1>1, <2>1 DEF MemoryInv, SavesIntoEmpty
  <2>5. KeptSteps(Kit.steps)' = KeptSteps(Kit.steps)
    BY <2>1 DEF KeptSteps, Kit, kit
  <2>6. page1'[m0] = KeptSteps(Kit.steps)
    BY <1>0, <2>1 DEF MemoryType
  <2>7. \A m \in Memories : page2[m].full => m \in seq_memory_slot_state
    BY <1>1, <2>1 DEF MemoryInv, FlagsAgree
  <2>8. \A m \in Memories : ~page2[m].full => m \notin seq_memory_slot_state
    BY <1>1, <2>1 DEF MemoryInv, FlagsAgree
  <2> HIDE DEF m0
  <2>9. FlagsAgree'
    BY <2>1, <2>3, <2>7, <2>8 DEF FlagsAgree
  <2>10. SavesIntoEmpty' /\ LoadsFull'
    BY <2>1, <2>3, <2>4, <2>5, <2>6 DEF SavesIntoEmpty, LoadsFull
  <2>11. QED BY <2>9, <2>10 DEF MemoryInv
<1>3. ASSUME work' = None
      PROVE  \A what, m : ~WorkingAt(what, m)'
  BY <1>3 DEF WorkingAt, Working
<1>4. CASE SavePage2
  <2>1. /\ Working("save page 2") /\ work.slot \in Memories
        /\ page2' = [page2 EXCEPT ![work.slot] = [clip |-> slot_clip, full |-> TRUE]]
        /\ seq_memory_slot_state' = seq_memory_slot_state /\ work' = None
    BY <1>1, <1>4 DEF SavePage2, WriteRest
  <2>2. ASSUME NEW m \in Memories PROVE page2'[m].full <=> m \in seq_memory_slot_state
    <3>1. page2[m].full => m \in seq_memory_slot_state
      BY <1>1, <2>1 DEF MemoryInv, FlagsAgree
    <3>2. ~page2[m].full /\ m \in seq_memory_slot_state => m = work.slot
      BY <1>1, <2>1 DEF MemoryInv, FlagsAgree
    <3>3. CASE m = work.slot
      <4>1. page2'[m].full
        BY <1>0, <2>1, <3>3 DEF MemoryType
      <4>2. m \in seq_memory_slot_state
        BY <1>1, <2>1, <3>3 DEF MemoryInv, FlagsAgree
      <4>3. QED BY <4>1, <4>2
    <3>4. CASE m # work.slot
      BY <1>0, <2>1, <3>1, <3>2, <3>4 DEF MemoryType
    <3>5. QED BY <3>3, <3>4
  <2>3. QED BY <1>3, <2>1, <2>2 DEF MemoryInv, FlagsAgree, SavesIntoEmpty, LoadsFull
<1>5. CASE DeleteFlag
  <2>1. /\ Working("delete") /\ work.slot \in Memories
        /\ page2' = [page2 EXCEPT ![work.slot].full = FALSE]
        /\ seq_memory_slot_state' = seq_memory_slot_state /\ work' = None
    BY <1>1, <1>5 DEF DeleteFlag
  <2>2. ASSUME NEW m \in Memories PROVE page2'[m].full <=> m \in seq_memory_slot_state
    <3>1. m # work.slot => (page2[m].full <=> m \in seq_memory_slot_state)
      BY <1>1, <2>1 DEF MemoryInv, FlagsAgree
    <3>2. work.slot \notin seq_memory_slot_state
      BY <1>1, <2>1 DEF MemoryInv, FlagsAgree
    <3>3. page2'[m].full = IF m = work.slot THEN FALSE ELSE page2[m].full
      BY <1>0, <2>1 DEF MemoryType
    <3>4. QED BY <3>1, <3>2, <3>3
  <2>3. QED BY <1>3, <2>1, <2>2 DEF MemoryInv, FlagsAgree, SavesIntoEmpty, LoadsFull
<1>6. CASE LoadPatterns
  <2> DEFINE m0 == work.slot
  <2>1. /\ Working("load patterns") /\ m0 \in Memories
        /\ slotSelectedBuffer' = [s \in Slots |-> 0]
        /\ pattern' = [s \in Slots |-> [pattern[s] EXCEPT ![0] = page1[m0][s]]]
        /\ UNCHANGED <<page1, page2, seq_memory_slot_state>>
        /\ work' = [work EXCEPT !.what = "load clips"]
    BY <1>1, <1>6 DEF LoadPatterns, eeprom
  <2>2. work' \in [what : Tasks, slot : Memories]
        /\ work'.what = "load clips" /\ work'.slot = m0
    BY <1>1, <2>1 DEF Tasks
  <2>3. \A m \in Memories :
          /\ WorkingAt("load clips", m)' <=> m = m0
          /\ ~WorkingAt("save page 1", m)' /\ ~WorkingAt("load patterns", m)'
          /\ ~WorkingAt("save page 2", m)' /\ ~WorkingAt("delete", m)'
    BY <2>2, SequencerAssumption DEF WorkingAt, Working
  <2>4. page2[m0].full
    BY <1>1, <2>1 DEF MemoryInv, LoadsFull
  <2>5. \A s \in Slots : slotSelectedBuffer'[s] = 0 /\ pattern'[s][0] = page1[m0][s]
    <3>1. 0 \in Buffers
      BY SequencerAssumption DEF Buffers
    <3>2. QED BY <1>0, <2>1, <3>1 DEF KitType
  <2>6. \A m \in Memories : page2[m].full <=> m \in seq_memory_slot_state
    BY <1>1, <2>1 DEF MemoryInv, FlagsAgree
  <2> HIDE DEF m0
  <2>7. FlagsAgree'
    BY <2>1, <2>3, <2>6 DEF FlagsAgree
  <2>8. SavesIntoEmpty' /\ LoadsFull'
    BY <2>1, <2>3, <2>4, <2>5 DEF SavesIntoEmpty, LoadsFull
  <2>9. QED BY <2>7, <2>8 DEF MemoryInv
<1>7. CASE LoadClips
  <2>1. /\ Working("load clips") /\ work' = None
        /\ UNCHANGED <<page1, page2, seq_memory_slot_state>>
    BY <1>7 DEF LoadClips, eeprom
  <2>2. \A m \in Memories : page2[m].full <=> m \in seq_memory_slot_state
    BY <1>1, <2>1 DEF MemoryInv, FlagsAgree
  <2>3. QED BY <1>3, <2>1, <2>2 DEF MemoryInv, FlagsAgree, SavesIntoEmpty, LoadsFull
<1>8. QED BY <1>2, <1>4, <1>5, <1>6, <1>7

\* What every other step does to the memory: nothing.
LEMMA OthersLeaveMemory ==
    ASSUME [Next]_vars,
           ~(SavePage1 \/ SavePage2 \/ DeleteFlag \/ LoadPatterns \/ LoadClips \/ PowerLoss)
    PROVE  /\ UNCHANGED <<page1, page2, recalled>>
           /\ \/ UNCHANGED <<work, seq_memory_slot_state>> /\ UNCHANGED kit
              \/ work = None /\ UNCHANGED <<work, seq_memory_slot_state>>
              \/ \E e \in Memories : work = None /\ PressMemory(e)
<1> DEFINE Pages == UNCHANGED <<page1, page2, recalled>>
           Rests == UNCHANGED <<work, seq_memory_slot_state>> /\ UNCHANGED kit
           Idle == work = None /\ UNCHANGED <<work, seq_memory_slot_state>>
           Pressed == \E e \in Memories : work = None /\ PressMemory(e)
<1> SUFFICES Pages /\ (Rests \/ Idle \/ Pressed)
  OBVIOUS
<1> USE DEF memory, eeprom
<1>1. CASE midi_clock \/ real_time_start \/ real_time_stop \/ do_task \/ ReceiveEnable
             \/ (\E on \in BOOLEAN : ReceivePlay(on))
  BY <1>1 DEF midi_clock, real_time_start, real_time_stop, do_task, ReceiveEnable, ReceivePlay
<1>2. CASE \E b \in 0..5 : MoveSide(b)
  BY <1>2 DEF MoveSide
<1>3. ASSUME NEW b \in 0..5, Edge(b) PROVE Pages /\ Idle
  BY <1>3 DEF Edge
<1>4. CASE (\E b \in 0..5 : ShiftButton(b)) \/ ResetButton \/ SyncButton \/ PlayButton
             \/ MemoryButton
  <2>1. PICK b \in 0..5 : Edge(b)
    BY <1>4 DEF ShiftButton, ResetButton, SyncButton, PlayButton, MemoryButton
  <2>2. QED BY <1>3, <2>1
<1>5. ASSUME NEW e \in Encoders, Encoder(e) PROVE Pages /\ work = None
  BY <1>5 DEF Encoder, Free
<1>6. ASSUME NEW e \in Encoders,
             \/ \E c \in Clips : TurnClip(e, c)
             \/ \E n \in Buffers \cup 0..3 : TurnPattern(e, n)
             \/ \E v \in Velocities : TurnStep(e, v)
             \/ \E short \in BOOLEAN : ReleaseEncoder(e, short)
      PROVE  Pages /\ Idle
  BY <1>5, <1>6 DEF TurnClip, TurnPattern, TurnStep, ReleaseEncoder
<1>7. ASSUME NEW e \in Encoders, PressEncoder(e) PROVE Pages /\ (Idle \/ Pressed)
  BY <1>5, <1>7 DEF PressEncoder, Memories
<1>8. CASE \E e \in Encoders : ReleaseElsewhere(e)
  BY <1>8 DEF ReleaseElsewhere
<1>9. CASE UNCHANGED vars
  BY <1>9 DEF vars
<1> HIDE DEF Pages, Rests, Idle, Pressed
<1>10. QED BY <1>1, <1>2, <1>4, <1>6, <1>7, <1>8, <1>9 DEF Next

\* Every step keeps the memory in agreement with itself, power loss included.
LEMMA NextMemory == TypeOK /\ MemoryInv /\ [Next]_vars => MemoryInv'
<1> SUFFICES ASSUME TypeOK, MemoryInv, [Next]_vars PROVE MemoryInv'
  OBVIOUS
<1>1. CASE SavePage1 \/ SavePage2 \/ DeleteFlag \/ LoadPatterns \/ LoadClips
  BY <1>1, TasksKeepMemory
<1>2. CASE PowerLoss
  BY <1>2, MemoryRests DEF PowerLoss, eeprom
<1>3. CASE ~(SavePage1 \/ SavePage2 \/ DeleteFlag \/ LoadPatterns \/ LoadClips \/ PowerLoss)
  <2>1. UNCHANGED <<page1, page2>>
    BY <1>3, OthersLeaveMemory
  <2>2. CASE UNCHANGED <<work, seq_memory_slot_state>> /\ UNCHANGED kit
    BY <2>1, <2>2, MemoryRests
  <2>3. CASE work = None /\ UNCHANGED <<work, seq_memory_slot_state>>
    <3>1. ~Working("delete") /\ ~Working("save page 2")
      BY <2>3 DEF Working
    <3>2. QED BY <2>1, <2>3, <3>1, MemoryRests
  <2>4. CASE \E e \in Memories : work = None /\ PressMemory(e)
    BY <2>1, <2>4, PressKeepsMemory
  <2>5. QED BY <1>3, <2>2, <2>3, <2>4, OthersLeaveMemory
<1>4. QED BY <1>1, <1>2, <1>3

\* What the slots hold is what the store holds.
StoreOf == [m \in Memories |-> Held(m)]

\* A step that leaves what the slots hold is a change of what plays, to the store.
LEMMA StoreRests ==
    ASSUME \A m \in Memories : Held(m)' = Held(m), UNCHANGED recalled
    PROVE  Store!Next
<1>1. StoreOf' = StoreOf
  BY DEF StoreOf
<1>2. Store!Change
  BY <1>1 DEF Store!Change, StoreOf, Held
<1>3. QED BY <1>2 DEF Store!Next

\* To save, to delete and to recall are the steps of the store.
LEMMA StoreSteps ==
    ASSUME NEW m \in Memories, Store!Save(m) \/ Store!Delete(m) \/ Store!Recall(m)
    PROVE  Store!Next
  BY DEF Store!Next

\* Every step of the pattern memory is a step of the store, or none.
LEMMA StepIsStoreStep ==
    ASSUME TypeOK, MemoryInv, [Next]_vars
    PROVE  [Store!Next]_(Store!vars)
<1> SUFFICES Store!Next
  OBVIOUS
<1>0. MemoryType /\ KitType
  BY DEF TypeOK
<1>1. ASSUME NEW what, Working(what)
      PROVE  work.slot \in Memories /\ WorkingAt(what, work.slot)
  BY <1>0, <1>1 DEF Working, WorkingAt, MemoryType
<1>2. UNCHANGED <<page1, page2>> => \A m \in Memories : Held(m)' = Held(m)
  BY DEF Held
<1>3. CASE SavePage1
  <2>1. /\ work.slot \in Memories /\ ~page2[work.slot].full
        /\ page1' = [page1 EXCEPT ![work.slot] = KeptSteps(Kit.steps)]
        /\ UNCHANGED <<page2, recalled>>
    BY <1>1, <1>3 DEF SavePage1, WritePatterns, MemoryInv, SavesIntoEmpty
  <2>2. \A m \in Memories : Held(m)' = Held(m)
    BY <1>0, <2>1 DEF Held, MemoryType
  <2>3. QED BY <2>1, <2>2, StoreRests
<1>4. CASE SavePage2
  <2>1. /\ work.slot \in Memories /\ ~page2[work.slot].full
        /\ page1[work.slot] = KeptSteps(Kit.steps)
        /\ page2' = [page2 EXCEPT ![work.slot] = [clip |-> slot_clip, full |-> TRUE]]
        /\ UNCHANGED <<page1, recalled>> /\ UNCHANGED kit
    BY <1>1, <1>4 DEF SavePage2, WriteRest, MemoryInv, SavesIntoEmpty
  <2>2. Held(work.slot) = None
    BY <2>1 DEF Held
  <2>3. KeptKit(Kit) = [steps |-> KeptSteps(Kit.steps), clip |-> slot_clip]
    BY DEF KeptKit, Kit
  <2>4. \A m \in Memories : Held(m)' = IF m = work.slot THEN KeptKit(Kit) ELSE Held(m)
    BY <1>0, <2>1, <2>3 DEF Held, MemoryType
  <2>5. StoreOf' = [StoreOf EXCEPT ![work.slot] = KeptKit(Kit)]
    BY <2>4 DEF StoreOf
  <2>6. Kit' = Kit
    BY <2>1 DEF Kit, kit
  <2>7. StoreOf[work.slot] = None
    BY <2>1, <2>2 DEF StoreOf
  <2>8. PICK m \in Memories : m = work.slot
    BY <2>1
  <2>9. Store!Save(m)
    BY <2>1, <2>5, <2>6, <2>7, <2>8 DEF Store!Save, StoreOf, Held
  <2>10. QED BY <2>9, StoreSteps
<1>5. CASE DeleteFlag
  <2>1. /\ work.slot \in Memories
        /\ page2' = [page2 EXCEPT ![work.slot].full = FALSE]
        /\ UNCHANGED <<page1, recalled>> /\ UNCHANGED kit
    BY <1>1, <1>5 DEF DeleteFlag
  <2>2. \A m \in Memories : Held(m)' = IF m = work.slot THEN None ELSE Held(m)
    BY <1>0, <2>1 DEF Held, MemoryType
  <2>3. StoreOf' = [StoreOf EXCEPT ![work.slot] = None]
    BY <2>2 DEF StoreOf
  <2>4. Kit' = Kit
    BY <2>1 DEF Kit, kit
  <2>5. PICK m \in Memories : m = work.slot
    BY <2>1
  <2>6. Store!Delete(m)
    BY <2>1, <2>3, <2>4, <2>5 DEF Store!Delete, StoreOf, Held
  <2>7. QED BY <2>6, StoreSteps
<1>6. CASE LoadPatterns
  BY <1>2, <1>6, StoreRests DEF LoadPatterns, eeprom
<1>7. CASE LoadClips
  <2>1. /\ work.slot \in Memories /\ page2[work.slot].full
        /\ \A s \in Slots : slotSelectedBuffer[s] = 0 /\ pattern[s][0] = page1[work.slot][s]
        /\ slot_clip' = page2[work.slot].clip
        /\ UNCHANGED <<page1, page2, slotSelectedBuffer, pattern>>
        /\ recalled' = [Kit EXCEPT !.clip = slot_clip']
    BY <1>1, <1>7 DEF LoadClips, MemoryInv, LoadsFull, eeprom
  <2>2. Kit.steps = page1[work.slot]
    <3>1. page1[work.slot] \in [Slots -> Patterns]
      BY <1>0, <2>1 DEF MemoryType
    <3>2. Kit.steps = [s \in Slots |-> page1[work.slot][s]]
      BY <2>1 DEF Kit
    <3>3. QED BY <3>1, <3>2
  <2>3. Held(work.slot) = [steps |-> page1[work.slot], clip |-> page2[work.slot].clip]
    BY <2>1 DEF Held
  <2>4. Kit' = Held(work.slot)
    <3>1. Kit' = [steps |-> Kit.steps, clip |-> slot_clip']
      BY <2>1 DEF Kit
    <3>2. QED BY <2>1, <2>2, <2>3, <3>1
  <2>5. recalled' = Held(work.slot)
    <3>1. recalled' = [steps |-> Kit.steps, clip |-> slot_clip']
      BY <2>1 DEF Kit
    <3>2. QED BY <2>1, <2>2, <2>3, <3>1
  <2>6. StoreOf' = StoreOf
    BY <1>2, <2>1 DEF StoreOf
  <2>7. StoreOf[work.slot] = Held(work.slot) /\ Held(work.slot) # None
    BY <2>1, HeldIsKit DEF StoreOf
  <2>8. PICK m \in Memories : m = work.slot
    BY <2>1
  <2>9. Store!Recall(m)
    BY <2>1, <2>4, <2>5, <2>6, <2>7, <2>8 DEF Store!Recall, StoreOf, Held
  <2>10. QED BY <2>9, StoreSteps
<1>8. CASE PowerLoss
  BY <1>2, <1>8, StoreRests DEF PowerLoss, eeprom
<1>9. CASE ~(SavePage1 \/ SavePage2 \/ DeleteFlag \/ LoadPatterns \/ LoadClips \/ PowerLoss)
  BY <1>2, <1>9, OthersLeaveMemory, StoreRests
<1>10. QED BY <1>3, <1>4, <1>5, <1>6, <1>7, <1>8, <1>9

-----------------------------------------------------------------------------
\* Every variable keeps its type, for any number of slots, clips and patterns; in
\* particular the step stays within the pattern (sequencer.c:343-395).
THEOREM TypeCorrect == Spec => []TypeOK
<1>1. Init => TypeOK
  BY InitType
<1>2. TypeOK /\ [Next]_vars => TypeOK'
  BY NextType
<1>3. QED BY <1>1, <1>2, PTL DEF Spec

\* A note of a pattern is released by the step that follows it, whatever the number of
\* slots and the length of the pattern, unless the clip or the pattern of that very
\* slot, or the place of all, was changed under it (send_triggers).
THEOREM NotesAreReleased == Spec => []NotesEnd
<1>1. Init => NotesEnd
  BY DEF Init, NotesEnd
<1>2. TypeOK /\ NotesEnd /\ [Next]_vars => NotesEnd'
  BY NextNotes
<1>3. QED BY <1>1, <1>2, TypeCorrect, PTL DEF Spec

\* Every sixteenth that is counted has exactly one trigger, across the change from
\* triggers sent with the tick to triggers scheduled ahead of it.
THEOREM TriggersComeOnce == Spec => []OneTriggerPerSixteenth
<1>1. Init => TriggerInv
  BY DEF Init, sequencer_init, TriggerInv, TaskIsFresh, SentSoFar
<1>2. TypeOK /\ TriggerInv /\ [Next]_vars => TriggerInv'
  BY NextTriggers
<1>3. TypeOK /\ TriggerInv => OneTriggerPerSixteenth
  <2>1. ASSUME TypeOK, TriggerInv, sent # None
        PROVE  sent <= 1 /\ ((tick_counter + 2) % 6 = 0 /\ scheduled_task = "none" => sent = 1)
    <3>1. tick_counter \in 0..23
      BY <2>1 DEF TypeOK, ClockType
    <3>2. Phase \in 0..5 /\ ((tick_counter + 2) % 6 = 0 <=> Phase = 4)
      BY <3>1, Places DEF Phase
    <3>3. QED BY <2>1, <3>2 DEF TriggerInv, SentSoFar
  <2>2. QED BY <2>1 DEF OneTriggerPerSixteenth
<1>4. QED BY <1>1, <1>2, <1>3, TypeCorrect, PTL DEF Spec

\* Releasing shift puts back the clips, the choice of patterns and the patterns of
\* the moment it was pressed (do_alternate_functions).
THEOREM ShiftIsUndone == Spec => ShiftUndoes
<1>1. Init => ShiftInv
  BY DEF Init, sequencer_init, ShiftInv, ShiftHolds, WorkHasItsPage
<1>2. TypeOK /\ ShiftInv /\ [Next]_vars => ShiftInv'
  BY NextShift
<1>3. TypeOK /\ ShiftInv /\ [Next]_vars
        => [/\ shifted # None /\ shift_active /\ ~shift_active'
            /\ sequencerDisplayState' = "DEFAULT"
            => kit' = shifted]_vars
  BY StepUndoesShift
<1>4. QED BY <1>1, <1>2, <1>3, TypeCorrect, PTL DEF Spec, ShiftUndoes

\* The pattern memory keeps what is saved in it, whole, across power failures at
\* any point of a save, a load or a deletion: it is a SlotStore.
THEOREM Implementation == Spec => SlotsSurvive
<1>1. Init => Store!Init
  BY DEF Init, Store!Init
<1>2. Init => MemoryInv
  BY InitMemory
<1>3. TypeOK /\ MemoryInv /\ [Next]_vars => MemoryInv'
  BY NextMemory
<1>4. TypeOK /\ MemoryInv /\ [Next]_vars => [Store!Next]_(Store!vars)
  BY StepIsStoreStep
<1>5. QED BY <1>1, <1>2, <1>3, <1>4, TypeCorrect, PTL DEF Spec, SlotsSurvive, Store!Spec
=============================================================================
