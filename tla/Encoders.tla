------------------------------ MODULE Encoders ------------------------------
(***************************************************************************)
(* The value of an encoder (encoders.c): how turns become values and MIDI, *)
(* the detent in the middle and the dead zones at the ends, the second     *)
(* value of a shifted encoder, the values the host feeds back, and the     *)
(* transfer of values between banks.                                       *)
(*                                                                         *)
(* A raw value is 100 times a CC value.  Every bank has its own settings   *)
(* for each physical encoder, and two raw values, "base" and "shift", the  *)
(* lower and upper half of the code's virtual encoders.  Only the display  *)
(* of the current bank is kept: change_encoder_bank computes that of the   *)
(* bank it enters before anybody sees it.                                  *)
(*                                                                         *)
(* CC_MAX, CENTER, DETENT_SIZE and DEAD_ZONE_SIZE are 127, 63, 8 and 2 in  *)
(* the code; Ticks bounds how far an encoder turns between two reads.      *)
(* A pass of the main loop reads the switches of all encoders first, then  *)
(* takes each encoder's turn before its switch: "edges" holds the switches *)
(* that have changed and not been acted on.  Encoders come in any order.   *)
(* Left out: notes and super knobs (send_encoder_midi sends more messages  *)
(* for the same value), the MIDI and the colour of the switches (Surface), *)
(* and native mode, which takes the turns away before they get here.       *)
(***************************************************************************)
EXTENDS Integers, FiniteSetsExt

CONSTANTS
    NumBanks, NumEncoders,
    CC_MAX, CENTER, DETENT_SIZE, DEAD_ZONE_SIZE,
    Configs,        \* what encoder_settings may hold: [Banks -> [Encoders -> settings]]
    MaxCount,       \* bound: how far the detent counter runs; 128 in the code
    Ticks,          \* bound: what get_encoder_value may return
    HostMessages    \* bound: the messages the host sends, <<address, value>>

Banks == 0 .. NumBanks - 1
Encoders == 0 .. NumEncoders - 1
Layers == {"base", "shift"}
Actions == {"none", "fine", "reset", "reset_inv", "shift_hold", "shift_toggle"}
Moves == {"direct", "responsive", "velocity"}

Settings ==
    [detent : BOOLEAN, relative : BOOLEAN, move : Moves, action : Actions,
     channel : 0 .. 15, shift_channel : 0 .. 15, number : 0 .. 127]

ASSUME EncodersAssumption ==
    /\ NumBanks \in Nat \ {0} /\ NumEncoders \in Nat \ {0}
    /\ CC_MAX \in 4 .. 127 /\ CENTER \in 2 .. CC_MAX - 2
    /\ DETENT_SIZE \in 1 .. 8 /\ DEAD_ZONE_SIZE \in 1 .. 8
    /\ Configs \subseteq [Banks -> [Encoders -> Settings]]
    /\ MaxCount \in DETENT_SIZE .. 128
    /\ Ticks \subseteq (-127 .. 127) \ {0}
    /\ \A m \in HostMessages : m[2] \in 0 .. CC_MAX

RAW_MAX == CC_MAX * 100
encoder_detent_limit_low == CENTER * 100 - 60
encoder_detent_limit_high == CENTER * 100 + 150

Int8(n) == ((n + 128) % 256) - 128
Int16(n) == ((n + 32768) % 65536) - 32768

\* Mutant: values below zero are not clamped.
clamp_top_only(x) == Min({x, RAW_MAX})
clamp_encoder_raw_value(x) == Min({Max({x, 0}), RAW_MAX})
scale_encoder_value(x) == (x + 50) \div 100
encoder_is_in_detent(x) ==
    x > encoder_detent_limit_low /\ x < encoder_detent_limit_high
encoder_is_in_deadzone(x) == x > RAW_MAX - 1 \/ x < 1

VARIABLES
    config,     \* encoder_settings
    bank,       \* encoder_bank
    raw,        \* raw_encoder_value, by bank, encoder and layer
    counter,    \* encoder_detent_counter, one per physical encoder
    fine,       \* relative_fine_value
    pressed,    \* the encoders whose switch is down
    toggled,    \* enc_switch_toggle_state, per bank
    edges,      \* enc_switch_down and enc_switch_up, less what was acted on
    selecting,  \* g_bank_select_active
    moving,     \* the encoders for which encoder_is_active
    indicator,  \* indicator_value_buffer of the current bank
    \* History: what the host knows.
    heard,      \* the last value it sent or received on each address, or None
    dropped     \* the addresses whose last message from the host was ignored

vars == <<config, bank, raw, counter, fine, pressed, toggled, edges, selecting,
          moving, indicator, heard, dropped>>
switches == <<pressed, toggled, edges, selecting>>

None == -1

\* The address of a value on the bus: a channel and a controller number.
Address(s, layer) ==
    <<IF layer = "base" THEN s.channel ELSE s.shift_channel, s.number>>
Addresses ==
    {Address(config[b][i], layer) : b \in Banks, i \in Encoders, layer \in Layers}

encoder_is_in_shift_state(b, i) ==
    \/ config[b][i].action = "shift_hold" /\ i \in pressed
    \/ config[b][i].action = "shift_toggle" /\ i \in toggled[b]

Layer(b, i) == IF encoder_is_in_shift_state(b, i) THEN "shift" ELSE "base"
Current(i) == raw[bank][i][Layer(bank, i)]

\* The host hears a value of encoder i; its own last message is superseded.
Send(i, layer, value) ==
    LET address == Address(config[bank][i], layer) IN
        /\ heard' = [heard EXCEPT ![address] = value]
        /\ dropped' = dropped \ {address}
NoMidi == UNCHANGED <<heard, dropped>>

-----------------------------------------------------------------------------
\* encoders_init
Init ==
    /\ config \in Configs
    /\ bank = 0
    /\ raw = [b \in Banks |-> [i \in Encoders |-> [layer \in Layers |->
                IF config[b][i].detent THEN CENTER * 100 ELSE 0]]]
    /\ counter = [i \in Encoders |-> 0]
    /\ fine = [i \in Encoders |-> 0]
    /\ pressed = {} /\ edges = {} /\ selecting = FALSE
    /\ toggled = [b \in Banks |-> {}]
    /\ moving = Encoders         \* encoder_inactive_counter starts at 0
    /\ indicator = [i \in Encoders |-> IF config[0][i].detent THEN CENTER ELSE 0]
    /\ heard = [address \in Addresses |-> None]
    /\ dropped = {}

-----------------------------------------------------------------------------
(* transfer_encoder_values_to_other_banks: the values of the current bank  *)
(* go to the encoders of the other banks with the same mapping.            *)

encoder_maps_match(s, t) ==
    s.number = t.number /\ s.relative = t.relative /\ ~s.relative

\* Mutant: only the unshifted channel is compared.
GiversOfBase(b, i, layer) ==
    {j \in Encoders :
        /\ b # bank /\ layer = "base"
        /\ encoder_maps_match(config[bank][j], config[b][i])
        /\ config[bank][j].channel = config[b][i].channel}

\* The encoders of the current bank that hand their value to an encoder's layer;
\* they are visited in ascending order, so the last one counts.
Givers(b, i, layer) ==
    {j \in Encoders :
        LET s == config[bank][j]  t == config[b][i] IN
            /\ b # bank
            /\ encoder_maps_match(s, t)
            /\ Address(s, layer) = Address(t, layer)}

Transferred ==
    [b \in Banks |-> [i \in Encoders |-> [layer \in Layers |->
        LET givers == Givers(b, i, layer) IN
            IF givers = {} THEN raw[b][i][layer] ELSE raw[bank][Max(givers)][layer]]]]

\* refresh_display: what the display shows of the current bank.
Refreshed == [i \in Encoders |-> Current(i) \div 100]

\* After the transfer, the current value of encoder i becomes x.
SetCurrent(i, x) == [Transferred EXCEPT ![bank][i][Layer(bank, i)] = x]

-----------------------------------------------------------------------------
(* A turn read as n ticks.  It first restarts the idle timer, which        *)
(* refreshes the display; then the first of these that applies handles it. *)

DetentApplies(i) == config[bank][i].detent /\ encoder_is_in_detent(Current(i))

\* process_encoder_input_rotary_detent: the value stays until enough ticks
\* have been counted, then jumps to the detent's edge.
TurnInDetent(i, n) ==
    /\ DetentApplies(i)
    /\ LET count == Int8(counter[i] + n) IN
        /\ count \in -MaxCount .. MaxCount
        /\ counter' = [counter EXCEPT ![i] = count]
        /\ IF count > DETENT_SIZE
             THEN /\ raw' = SetCurrent(i, encoder_detent_limit_high)
                  /\ indicator' = Refreshed
           ELSE IF count < -DETENT_SIZE
             THEN /\ raw' = SetCurrent(i, encoder_detent_limit_low)
                  /\ indicator' = Refreshed
           ELSE /\ raw' = Transferred
                /\ indicator' = [Refreshed EXCEPT ![i] = CENTER]
    /\ UNCHANGED fine
    /\ NoMidi

DeadZoneApplies(i) ==
    /\ ~DetentApplies(i)
    /\ ~config[bank][i].relative
    /\ encoder_is_in_deadzone(Current(i))

\* Where the value goes when it leaves the end it is at.
\* Mutant: as if there were only one end.
OffTheBottom(x) == 100
OffTheEnd(x) == IF x < 100 THEN 100 ELSE RAW_MAX - 100

\* process_encoder_input_rotary_deadzone: ticks away from the end are counted,
\* on the same counter, and enough of them move the value off the end.
TurnInDeadZone(i, n) ==
    /\ DeadZoneApplies(i)
    /\ LET atBottom == Current(i) < 100
           atTop == Current(i) > RAW_MAX - 100
           count == IF (atBottom /\ n > 0) \/ (atTop /\ n < 0)
                      THEN Int8(counter[i] + n) ELSE counter[i]
           off == \/ atBottom /\ count > DEAD_ZONE_SIZE
                  \/ atTop /\ count < -DEAD_ZONE_SIZE
       IN  /\ counter' = [counter EXCEPT ![i] = IF off THEN 0 ELSE count]
           /\ raw' = IF off THEN SetCurrent(i, OffTheEnd(Current(i))) ELSE Transferred
    /\ indicator' = Refreshed
    /\ UNCHANGED fine
    /\ NoMidi

FineAdjusts(i) == config[bank][i].action = "fine" /\ i \in pressed

\* process_encoder_input_rotary_relative: the ticks themselves are sent, with
\* the fine adjustment a quarter of them; the value is left to the host.
TurnRelative(i, n) ==
    /\ ~DetentApplies(i)
    /\ config[bank][i].relative
    /\ LET total == fine[i] + n
           sign == IF total < 0 THEN -1 ELSE 1
       IN  fine' = IF FineAdjusts(i)
                     THEN [fine EXCEPT ![i] = sign * ((sign * total) % 4)] ELSE fine
    /\ raw' = Transferred /\ indicator' = Refreshed
    /\ UNCHANGED counter
    /\ NoMidi

\* How much one tick is worth; for velocity, the slowest and the fastest.
Multipliers(i) ==
    IF config[bank][i].move = "velocity"
      THEN IF FineAdjusts(i) THEN {25} ELSE {25, 255}
    ELSE IF FineAdjusts(i) THEN {25}
    ELSE IF config[bank][i].move = "direct" THEN {100}
    ELSE {178}

\* process_encoder_input_rotary_absolute: the value moves, is sent and shown.
TurnAbsolute(i, n) ==
    /\ ~DetentApplies(i) /\ ~DeadZoneApplies(i)
    /\ ~config[bank][i].relative
    /\ \E multiplier \in Multipliers(i) :
        LET moved == clamp_encoder_raw_value(Int16(Current(i) + Int16(n * multiplier)))
            value == scale_encoder_value(moved)
        IN  /\ Send(i, Layer(bank, i), value)
            /\ indicator' = [Refreshed EXCEPT ![i] = value]
            /\ raw' = SetCurrent(i, moved)
    /\ UNCHANGED <<counter, fine>>

\* process_encoder_input_rotary
Turn(i, n) ==
    /\ \/ TurnInDetent(i, n)
       \/ TurnInDeadZone(i, n)
       \/ TurnRelative(i, n)
       \/ TurnAbsolute(i, n)
    /\ moving' = moving \cup {i}
    /\ UNCHANGED <<config, bank, switches>>

\* The scan interrupt sees a movement the loop has not read yet, or none for
\* ENCODER_INACTIVE_THRESHOLD scans.
StartMoving(i) ==
    /\ i \notin moving
    /\ moving' = moving \cup {i}
    /\ UNCHANGED <<config, bank, raw, counter, fine, switches, indicator,
                   heard, dropped>>

Rest(i) ==
    /\ i \in moving
    /\ moving' = moving \ {i}
    /\ UNCHANGED <<config, bank, raw, counter, fine, switches, indicator,
                   heard, dropped>>

-----------------------------------------------------------------------------
(* The switches of the encoders, for the actions that touch values.  They  *)
(* too restart the idle timer first.                                       *)

update_encoder_switch_state(changed) ==
    /\ edges = {}
    /\ edges' = changed
    /\ pressed' = (pressed \ changed) \cup (changed \ pressed)
    /\ UNCHANGED <<config, bank, raw, counter, fine, toggled, selecting, moving,
                   indicator, heard, dropped>>

\* ENC_RESET_VALUE(_INV), on press and on release; always on the base channel.
ResetValue(i) ==
    LET s == config[bank][i]
        x == IF s.detent THEN CENTER * 100
             ELSE IF s.action = "reset" THEN 0 ELSE RAW_MAX
    IN  /\ s.action \in {"reset", "reset_inv"}
        /\ raw' = SetCurrent(i, x)
        /\ counter' = [counter EXCEPT ![i] = 0]
        /\ indicator' = [Refreshed EXCEPT ![i] = scale_encoder_value(x)]
        /\ Send(i, "base", scale_encoder_value(x))
        /\ UNCHANGED toggled

ShowLayer(i, layer) ==
    indicator' = [Refreshed EXCEPT ![i] = raw[bank][i][layer] \div 100]

ShiftHold(i) ==
    /\ config[bank][i].action = "shift_hold"
    /\ ShowLayer(i, Layer(bank, i))
    /\ raw' = Transferred
    /\ UNCHANGED <<counter, toggled>>
    /\ NoMidi

\* The layer is read again after the toggle.
ShiftToggle(i) ==
    /\ config[bank][i].action = "shift_toggle"
    /\ IF i \in pressed
         THEN /\ toggled' = [toggled EXCEPT ![bank] =
                    IF i \in @ THEN @ \ {i} ELSE @ \cup {i}]
              /\ ShowLayer(i, IF i \in toggled'[bank] THEN "shift" ELSE "base")
         ELSE indicator' = Refreshed /\ UNCHANGED toggled
    /\ raw' = Transferred
    /\ UNCHANGED counter
    /\ NoMidi

\* ENC_FINE_ADJUST and the switches that only send MIDI.
NoValueAction(i) ==
    /\ config[bank][i].action \in {"none", "fine"}
    /\ raw' = Transferred /\ indicator' = Refreshed
    /\ UNCHANGED <<counter, toggled>>
    /\ NoMidi

\* process_encoder_input_switch, when no bank is being selected
Switch(i) ==
    /\ ~selecting
    /\ i \in edges
    /\ edges' = edges \ {i}
    /\ ResetValue(i) \/ ShiftHold(i) \/ ShiftToggle(i) \/ NoValueAction(i)
    /\ UNCHANGED <<config, bank, fine, pressed, selecting, moving>>

-----------------------------------------------------------------------------
(* process_element_midi and process_indicator_update: a value the host     *)
(* sends goes to every encoder mapped to its address, in every bank, but   *)
(* not to one of the current bank that is being turned, nor, if it is 0,   *)
(* to one with a detent.                                                   *)

\* The layer of an encoder an address reaches; the base channel comes first.
Reaches(address, b, i) ==
    {layer \in Layers :
        /\ address = Address(config[b][i], layer)
        /\ layer = "shift" => config[b][i].channel # config[b][i].shift_channel}

Ignores(b, i, value) ==
    \/ config[b][i].detent /\ value = 0
    \/ b = bank /\ i \in moving /\ ~config[b][i].relative

process_element_midi(address, value) ==
    /\ edges = {}
    /\ raw' = [b \in Banks |-> [i \in Encoders |-> [layer \in Layers |->
                IF layer \in Reaches(address, b, i) /\ ~Ignores(b, i, value)
                  THEN value * 100 ELSE raw[b][i][layer]]]]
    /\ indicator' = [i \in Encoders |->
                IF Layer(bank, i) \in Reaches(address, bank, i) /\ ~Ignores(bank, i, value)
                  THEN value ELSE indicator[i]]
    /\ heard' = [heard EXCEPT ![address] = value]
    /\ dropped' =
         IF \E b \in Banks, i \in Encoders :
               Reaches(address, b, i) # {} /\ Ignores(b, i, value)
           THEN dropped \cup {address} ELSE dropped \ {address}
    /\ UNCHANGED <<config, bank, counter, fine, switches, moving>>

-----------------------------------------------------------------------------
(* change_encoder_bank: the values of the bank left go to the encoders of  *)
(* the other banks with the same mapping, then the display is rebuilt.     *)

ChangeBank(new) ==
    /\ raw' = Transferred
    /\ indicator' = [i \in Encoders |-> raw'[new][i][Layer(new, i)] \div 100]
    /\ bank' = new
    /\ UNCHANGED <<config, counter, fine, pressed, toggled, moving, heard, dropped>>

\* From a side switch or the host; refresh_display is a change to the current
\* bank.
change_encoder_bank(new) ==
    /\ edges = {}
    /\ ChangeBank(new)
    /\ UNCHANGED <<edges, selecting>>

\* process_encoder_input_switch while a bank is being selected: a press is the
\* choice, and no action of the switch happens.
SelectWithSwitch(i) ==
    /\ selecting
    /\ i \in edges
    /\ edges' = edges \ {i}
    /\ IF i \in pressed THEN ChangeBank(i % NumBanks)
       ELSE UNCHANGED <<config, bank, raw, counter, fine, pressed, toggled, moving,
                        indicator, heard, dropped>>
    /\ UNCHANGED selecting

\* The side switch that selects banks goes down (the idle timer refreshes the
\* display), and up.
BeginSelecting ==
    /\ edges = {} /\ ~selecting
    /\ selecting' = TRUE
    /\ ChangeBank(bank)
    /\ UNCHANGED edges

\* Mutant: the display is not refreshed.
EndSelectingQuietly ==
    /\ edges = {} /\ selecting
    /\ selecting' = FALSE
    /\ UNCHANGED <<config, bank, raw, counter, fine, pressed, toggled, edges, moving,
                   indicator, heard, dropped>>

EndSelecting ==
    /\ edges = {} /\ selecting
    /\ selecting' = FALSE
    /\ ChangeBank(bank)
    /\ UNCHANGED edges

Next ==
    \/ \E i \in Encoders :
        \/ \E n \in Ticks : Turn(i, n)
        \/ StartMoving(i) \/ Rest(i) \/ Switch(i) \/ SelectWithSwitch(i)
    \/ \E changed \in SUBSET Encoders \ {{}} : update_encoder_switch_state(changed)
    \/ \E m \in HostMessages :
        m[1] \in DOMAIN heard /\ process_element_midi(m[1], m[2])
    \/ \E b \in Banks : change_encoder_bank(b)
    \/ BeginSelecting \/ EndSelecting

Spec == Init /\ [][Next]_vars

-----------------------------------------------------------------------------
(* Properties.                                                             *)

Distance(x, y) == IF x < y THEN y - x ELSE x - y

ValuesType ==
    /\ raw \in [Banks -> [Encoders -> [Layers -> 0 .. RAW_MAX]]]
    /\ indicator \in [Encoders -> 0 .. CC_MAX]

InputType ==
    /\ counter \in [Encoders -> -128 .. 127]
    /\ fine \in [Encoders -> -3 .. 3]
    /\ pressed \in SUBSET Encoders /\ edges \in SUBSET Encoders
    /\ moving \in SUBSET Encoders /\ selecting \in BOOLEAN
    /\ toggled \in [Banks -> SUBSET Encoders]

HostType ==
    /\ heard \in [Addresses -> {None} \cup 0 .. CC_MAX]
    /\ dropped \in SUBSET Addresses

\* Every variable holds a value of its kind: the raw values stay in the range
\* of a CC, the detent counter in an int8_t.
TypeOK == config \in Configs /\ bank \in Banks /\ ValuesType /\ InputType /\ HostType

\* How far the value may be from what was last sent on its address: leaving an
\* end moves it by one, leaving the detent of an encoder by up to three, and
\* neither is sent.
Slack(address) ==
    IF \E b \in Banks, i \in Encoders, layer \in Layers :
            config[b][i].detent /\ Address(config[b][i], layer) = address
      THEN 3 ELSE 1

\* Host and device agree on the value of every encoder of the current bank,
\* base and shifted: what the host last sent or received on its address is the
\* value, unless the device ignored the host's last message.  This is what
\* sending every change, feeding values back to all banks and transferring
\* them between banks are for.
HostAndDeviceAgree ==
    \A i \in Encoders, layer \in Layers :
        LET s == config[bank][i]
            address == Address(s, layer)
        IN  heard[address] # None /\ address \notin dropped /\ ~s.relative =>
                Distance(heard[address], scale_encoder_value(raw[bank][i][layer]))
                    <= Slack(address)

\* The display of an encoder shows the value of the layer it is in, to within
\* a step (the detent's width of three where there is one), whatever shifts,
\* bank changes, turns and feedback came before, also when its switch was
\* pressed or released while a bank was being selected.
IndicatorShowsTheValue ==
    \A i \in Encoders :
        ~selecting /\ i \notin edges => Distance(indicator[i], Current(i) \div 100)
            <= (IF config[bank][i].detent THEN 3 ELSE 1)

\* A step moves the current value of encoder i up, or down.
Rises(i) == bank' = bank /\ Current(i)' > Current(i)
Falls(i) == bank' = bank /\ Current(i)' < Current(i)

\* A turn never moves the value against its direction, except that a stop may
\* give way, for what the counter they all share still holds: an end by one
\* step, the detent to its edge.
OnlyStopsGiveWay ==
    [][\A i \in Encoders, n \in Ticks :
          /\ n > 0 /\ Falls(i) /\ Turn(i, n) =>
                \/ Current(i) = RAW_MAX /\ Current(i)' = RAW_MAX - 100
                \/ DetentApplies(i) /\ Current(i)' = encoder_detent_limit_low
          /\ n < 0 /\ Rises(i) /\ Turn(i, n) =>
                \/ Current(i) = 0 /\ Current(i)' = 100
                \/ DetentApplies(i) /\ Current(i)' = encoder_detent_limit_high
      ]_vars

\* "Allow movement to get us out of the dead zone, if we've traveled enough":
\* a turn takes the value off an end only in the direction away from it.
EndIsLeftByTurningAway ==
    [][\A i \in Encoders, n \in Ticks : DeadZoneApplies(i) =>
          /\ n > 0 /\ Turn(i, n) => ~Falls(i)
          /\ n < 0 /\ Turn(i, n) => ~Rises(i)
      ]_vars

\* Settings under which a message is about one value: an address is that of one
\* encoder of a bank and one of its two values, and encoders that share it are all
\* relative or all absolute.  Those of a new device are.
WellMapped(c) ==
    \A b1, b2 \in Banks, i1, i2 \in Encoders, l1, l2 \in Layers :
        Address(c[b1][i1], l1) = Address(c[b2][i2], l2) =>
            /\ l1 = l2 /\ c[b1][i1].relative = c[b2][i2].relative
            /\ b1 = b2 => i1 = i2

\* The fastest turn between two reads does not overflow the int16_t it is added up in.
TicksFit == \A n \in Ticks : RAW_MAX + 255 * n < 32768
=============================================================================
