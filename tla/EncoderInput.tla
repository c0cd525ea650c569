---------------------------- MODULE EncoderInput ----------------------------
(***************************************************************************)
(* One encoder on its way from the pins to the main loop (input.c).  A     *)
(* timer interrupt decodes the two channels and adds up the steps; the     *)
(* main loop takes the steps and the time they took, four memory accesses  *)
(* the interrupt may fall between.  The sixteen encoders do not influence  *)
(* one another, so one is enough.                                          *)
(***************************************************************************)
EXTENDS Integers

CONSTANTS
    ENCODER_INACTIVE_THRESHOLD,     \* 100 scans
    ENCODER_DEBOUNCE_CYCLE_TIMEOUT, \* 6 scans
    StateHalf,      \* an int8_t holds -StateHalf..StateHalf-1 (128)
    CycleRange,     \* a uint16_t holds 0..CycleRange-1 (65536)
    MaxEvents       \* bound: movements between two reads by the main loop

ASSUME InputAssumption ==
    /\ ENCODER_DEBOUNCE_CYCLE_TIMEOUT \in Nat \ {0, 1}
    /\ ENCODER_INACTIVE_THRESHOLD \in Nat
    /\ ENCODER_INACTIVE_THRESHOLD >= ENCODER_DEBOUNCE_CYCLE_TIMEOUT
    /\ StateHalf \in Nat \ {0} /\ MaxEvents \in Nat
    /\ CycleRange \in Nat /\ CycleRange > ENCODER_INACTIVE_THRESHOLD + 1

VARIABLES
    shaft,              \* the position the last scan saw, 0..3 of a cycle
    cha_prev, chb_prev, \* encoder_cha_state_prev, encoder_chb_state_prev
    inactive_counter, last_movement, encoder_state, event_cycle_counts,
    irq_enabled,
    pc, new_value, cycle_count,     \* the main loop and its locals
    phase,      \* history: "boot", "first" read of the loop, "running"
    moved, events, orderly,     \* history: the shaft since the last read
    due, due_orderly,           \* history: the same, up to the last read
    event       \* history: last movement, scans since, steps of its bounce

pins    == <<shaft, cha_prev, chb_prev>>
counted == <<inactive_counter, last_movement, encoder_state, event_cycle_counts>>
loop    == <<irq_enabled, pc, new_value, cycle_count, phase>>
history == <<moved, events, orderly, due, due_orderly, event>>
vars    == <<pins, counted, loop, history>>

-----------------------------------------------------------------------------
\* int8_t and uint16_t arithmetic.
Int8(n)   == ((n + StateHalf) % (2 * StateHalf)) - StateHalf
UInt16(n) == n % CycleRange

\* The levels of the two channels at a position of the shaft: turning
\* clockwise, channel a leads.
ChA(p) == p \in {1, 2}
ChB(p) == p \in {2, 3}

Bit(b, weight) == IF b THEN weight ELSE 0

EncoderActionByState ==
    [i \in 0..15 |-> <<0, -1, 1, -127,  1, 0, -127, -1,
                       -1, -127, 0, 1,  -127, 1, -1, 0>>[i + 1]]

Decoded(a, b) ==
    EncoderActionByState[Bit(a, 4) + Bit(b, 8) + Bit(cha_prev, 1) + Bit(chb_prev, 2)]

\* Mutant: the bound is tested too late.
OneMoreScanLate ==
    IF inactive_counter <= ENCODER_INACTIVE_THRESHOLD
    THEN inactive_counter + 1 ELSE inactive_counter

\* encoder_inactive_counter after a scan that saw no movement.
OneMoreScan ==
    IF inactive_counter < ENCODER_INACTIVE_THRESHOLD
    THEN inactive_counter + 1 ELSE inactive_counter

\* A step counts after a pause, or when it continues the last movement.
Accepted(action) ==
    \/ inactive_counter + 1 >= ENCODER_DEBOUNCE_CYCLE_TIMEOUT
    \/ last_movement = action

\* What a movement of the shaft by m (2: the direction was missed) means,
\* apart from how encoder_scan sees it.
Older(age) ==
    IF age < ENCODER_DEBOUNCE_CYCLE_TIMEOUT THEN age + 1 ELSE age

Reverses(m) == m # event.dir /\ event.age + 1 < ENCODER_DEBOUNCE_CYCLE_TIMEOUT

Record(m, steps) ==
    /\ moved' = moved + (IF m = 2 THEN 0 ELSE m)
    /\ events' = IF m = 0 THEN events ELSE events + 1
    /\ orderly' = (orderly /\ (m = 0 \/ (m # 2 /\ ~Reverses(m))))
    /\ event' =
         IF m \in {-1, 1}
         THEN [dir |-> m, age |-> 0,
               bounce |-> (IF Reverses(m) /\ m = -event.dir THEN event.bounce ELSE 0)
                            + (IF steps = 0 THEN 0 ELSE 1)]
         ELSE [event EXCEPT !.age = Older(@),
                            !.bounce = IF m = 2 THEN 0 ELSE @]
    /\ UNCHANGED <<due, due_orderly>>

\* Mutant: a rejected movement leaves the remembered direction alone.
encoder_scan_forgetful(m) ==
    /\ irq_enabled
    /\ m # 0 => events < MaxEvents
    /\ shaft' = (shaft + m) % 4
    /\ cha_prev' = ChA(shaft')
    /\ chb_prev' = ChB(shaft')
    /\ LET action == Decoded(cha_prev', chb_prev')
           moving == action \in {-1, 1}
           counts == moving /\ Accepted(action)
       IN /\ inactive_counter' = IF moving THEN 0 ELSE OneMoreScan
          /\ last_movement' = IF counts THEN action ELSE last_movement
          /\ encoder_state' = IF counts THEN Int8(encoder_state + action) ELSE encoder_state
          /\ event_cycle_counts' =
               IF counts THEN UInt16(event_cycle_counts + inactive_counter + 1)
               ELSE event_cycle_counts
          /\ Record(m, IF counts THEN action ELSE 0)
    /\ UNCHANGED loop

\* The interrupt: the shaft moved by m since the last scan.
encoder_scan(m) ==
    /\ irq_enabled
    /\ m # 0 => events < MaxEvents
    /\ shaft' = (shaft + m) % 4
    /\ cha_prev' = ChA(shaft')
    /\ chb_prev' = ChB(shaft')
    /\ LET action == Decoded(cha_prev', chb_prev')
           moving == action \in {-1, 1}         \* neither idle nor ambiguous
           counts == moving /\ Accepted(action)
       IN /\ inactive_counter' = IF moving THEN 0 ELSE OneMoreScan
          /\ last_movement' = IF moving THEN action ELSE last_movement
          /\ encoder_state' = IF counts THEN Int8(encoder_state + action) ELSE encoder_state
          /\ event_cycle_counts' =
               IF counts THEN UInt16(event_cycle_counts + inactive_counter + 1)
               ELSE event_cycle_counts
          /\ Record(m, IF counts THEN action ELSE 0)
    /\ UNCHANGED loop

-----------------------------------------------------------------------------
\* The main loop reads the encoder: with interrupts disabled, except in main()
\* before the loop starts, where the start-up noise is thrown away.
Goto(from, to) == pc = from /\ pc' = to

\* Mutant: the loop reads like main() does.
BeginReadUnguarded ==
    /\ Goto("idle", "read_value")
    /\ UNCHANGED <<pins, counted, irq_enabled, new_value, cycle_count, phase, history>>

BeginRead ==
    /\ Goto("idle", "read_value")
    /\ irq_enabled' = (phase = "boot")
    /\ UNCHANGED <<pins, counted, new_value, cycle_count, phase, history>>

\* get_encoder_value: return_value = encoder_state[encoder] ...
ReadValue ==
    /\ Goto("read_value", "clear_value")
    /\ new_value' = encoder_state
    /\ due' = moved
    /\ due_orderly' = orderly
    /\ moved' = 0
    /\ events' = 0
    /\ orderly' = (phase # "boot")
    /\ UNCHANGED <<pins, counted, irq_enabled, cycle_count, phase, event>>

\* ... and encoder_state[encoder] = 0.
ClearValue ==
    /\ Goto("clear_value", "read_cycles")
    /\ encoder_state' = 0
    /\ UNCHANGED <<pins, inactive_counter, last_movement, event_cycle_counts,
                   irq_enabled, new_value, cycle_count, phase, history>>

\* Mutant: the cycles are cleared by the first access and read as zero.
ReadCyclesCleared ==
    /\ Goto("read_cycles", "clear_cycles")
    /\ cycle_count' = 0
    /\ UNCHANGED <<pins, counted, irq_enabled, new_value, phase, history>>

\* get_encoder_cycle_count, likewise.
ReadCycles ==
    /\ Goto("read_cycles", "clear_cycles")
    /\ cycle_count' = event_cycle_counts
    /\ UNCHANGED <<pins, counted, irq_enabled, new_value, phase, history>>

ClearCycles ==
    /\ Goto("clear_cycles", "use")
    /\ event_cycle_counts' = 0
    /\ irq_enabled' = TRUE
    /\ UNCHANGED <<pins, inactive_counter, last_movement, encoder_state,
                   new_value, cycle_count, phase, history>>

\* The values are used (main() ignores them) and go out of scope.
Use ==
    /\ Goto("use", "idle")
    /\ new_value' = 0
    /\ cycle_count' = 0
    /\ phase' = IF phase = "boot" THEN "first" ELSE "running"
    /\ UNCHANGED <<pins, counted, irq_enabled, history>>

Init ==
    /\ shaft = 0 /\ cha_prev = FALSE /\ chb_prev = FALSE
    /\ inactive_counter = 0 /\ last_movement = 0
    /\ encoder_state = 0 /\ event_cycle_counts = CycleRange - 1
    /\ irq_enabled = TRUE
    /\ pc = "idle" /\ new_value = 0 /\ cycle_count = 0 /\ phase = "boot"
    /\ moved = 0 /\ events = 0 /\ orderly = FALSE /\ due = 0 /\ due_orderly = FALSE
    /\ event = [dir |-> 0, age |-> 0, bounce |-> 0]

Next ==
    \/ \E m \in {-1, 0, 1, 2} : encoder_scan(m)
    \/ BeginRead
    \/ ReadValue
    \/ ClearValue
    \/ ReadCycles
    \/ ClearCycles
    \/ Use

Spec == Init /\ [][Next]_vars

-----------------------------------------------------------------------------
Int8Values == -StateHalf..(StateHalf - 1)
Scans == 0..ENCODER_DEBOUNCE_CYCLE_TIMEOUT

TypeOK ==
    /\ shaft \in 0..3 /\ cha_prev \in BOOLEAN /\ chb_prev \in BOOLEAN
    /\ inactive_counter \in 0..ENCODER_INACTIVE_THRESHOLD
    /\ last_movement \in {-1, 0, 1}
    /\ encoder_state \in Int8Values /\ event_cycle_counts \in 0..(CycleRange - 1)
    /\ irq_enabled \in BOOLEAN
    /\ pc \in {"idle", "read_value", "clear_value", "read_cycles", "clear_cycles", "use"}
    /\ new_value \in Int8Values /\ cycle_count \in 0..(CycleRange - 1)
    /\ phase \in {"boot", "first", "running"}
    /\ moved \in -MaxEvents..MaxEvents /\ events \in 0..MaxEvents
    /\ orderly \in BOOLEAN
    /\ due \in -MaxEvents..MaxEvents /\ due_orderly \in BOOLEAN
    /\ event \in [dir : {-1, 0, 1}, age : Scans, bounce : Nat]

\* As long as no reversal was too quick to be counted and no scan came too late
\* to see the direction, what the main loop reads is exactly how far the shaft
\* moved since it last read: the table decodes every movement, a step arriving
\* during the read is neither lost nor counted twice (encoders.c:599 "disable
\* interrupts to ensure we don't lose any data by reading midstream").
ReadsWholeMovement == pc = "use" /\ due_orderly => new_value = due

\* Steps come with the time they took, at least a scan each: the velocity
\* calculation divides by cycle_count (encoders.c:550).
StepsTakeTime ==
    pc = "use" /\ phase = "running" =>
        /\ new_value <= cycle_count
        /\ -new_value <= cycle_count

\* A contact that bounces, however long, is counted at most once: of the
\* movements to and fro that follow each other within the debounce time, one
\* step is taken (input.c:355-368, 379-392).
BounceCountsOnce == event.bounce <= 1

-----------------------------------------------------------------------------
\* The four accesses of a protected read are one step of StepTally: the tally is
\* taken at the first of them.
Started == phase # "boot"
Taking  == pc \in {"clear_value", "read_cycles", "clear_cycles"}

Tally == INSTANCE StepTally WITH
    ready  <- Started,
    steps  <- IF Started /\ pc # "clear_value" THEN encoder_state ELSE 0,
    cycles <- IF Started /\ ~Taking THEN event_cycle_counts ELSE 0,
    taken  <- IF ~Started THEN <<0, 0>>
              ELSE <<new_value, IF pc \in {"clear_value", "read_cycles"}
                                THEN event_cycle_counts ELSE cycle_count>>

\* Interrupted or not, reading an encoder takes steps and time together and whole,
\* as if in one step: EncoderInput implements StepTally.
TakenWhole == Tally!Spec

\* "the number of encoder steps since last time get_encoder_value was called"
\* (input.c:54).
StateIsStepCount ==
    pc = "idle" /\ phase = "running" /\ orderly => encoder_state = moved
=============================================================================
