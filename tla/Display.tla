------------------------------ MODULE Display -------------------------------
(***************************************************************************)
(* What the lamps show.  Each encoder has a ring of white lights and an    *)
(* RGB light under its switch.  The main loop redraws one encoder per call *)
(* and only what its caches say has changed (encoders.c); the shift pages, *)
(* the bank select overlay, the flash of a bank change, sleep and the USB  *)
(* connection paint over the lamps, and native mode draws from tables of   *)
(* its own (native_mode.c).  One action is one part of a pass of the main  *)
(* loop (main.c): encoders, drawing, side switches, USB; a part handles at *)
(* most one event.  A picture is a tuple that says what was drawn.         *)
(***************************************************************************)
EXTENDS Integers, FiniteSets

CONSTANTS
    NumEncoders, NUM_BANKS,
    Levels,         \* values, colors and native settings alike
    Touched,        \* the encoders that are turned and that the host writes to
    Scenarios       \* sets of events that may happen in one behaviour

Encoders == 0..(NumEncoders - 1)
Banks    == 0..(NUM_BANKS - 1)
Nowhere  == -1      \* what the caches hold when nothing is known of a lamp

ASSUME DisplayAssumption ==
    /\ NumEncoders \in Nat \ {0} /\ NUM_BANKS \in 1..NumEncoders
    /\ Levels \subseteq Nat /\ 0 \in Levels /\ Touched \subseteq Encoders

VARIABLES
    scenario,
    encoder_bank, mode, is_active, g_bank_select_active, sleep_mode_active,
    indicator_value_buffer, switch_color_buffer,
    encoder_animation_buffer, switch_animation_buffer,
    shift_mode_switch_state,
    nm_state,       \* native mode: the settings, the color and the value of each
    prevIndicatorValue, prevSwitchColorValue,
    prevEncoderAnimationValue, prevSwAnimationValue,
    idx, shift_idx, \* the next encoder to draw, here and on a shift page
    ring, rgb,      \* the lamps
    held,           \* the side switches that are down
    pc,             \* the part of the loop to come
    event           \* history: something happened in this pass

modes   == <<encoder_bank, mode, is_active, g_bank_select_active>>
buffers == <<indicator_value_buffer, switch_color_buffer, encoder_animation_buffer,
             switch_animation_buffer>>
caches  == <<prevIndicatorValue, prevSwitchColorValue>>
anims   == <<prevEncoderAnimationValue, prevSwAnimationValue>>
drawing == <<idx, shift_idx>>
lamps   == <<ring, rgb>>
vars    == <<scenario, modes, sleep_mode_active, buffers, shift_mode_switch_state,
             nm_state, caches, anims, drawing, lamps, held, pc, event>>

-----------------------------------------------------------------------------
\* Pictures.
Dark          == <<"dark">>
Value(b, v)   == <<"value", b, v>>          \* drawn with the settings of bank b
Blink(b, v)   == <<"animated", b, v>>
Color(b, c)   == <<"color", b, c>>
BlinkRgb      == <<"animated">>
Selected      == <<"selected">>             \* the current bank in the overlay
NativeRing(e) == <<"native", nm_state.indicator[e], nm_state.value[e]>>
NativeRgb(e)  == <<"native", nm_state.switch[e]>>

All(picture) == [e \in Encoders |-> picture]

Happens(what) == what \in scenario

\* The parts of a pass, in their order.
Part(now, next) == pc = now /\ pc' = next

-----------------------------------------------------------------------------
\* Mutant: only the indicators are drawn anew.
ForgetIndicators ==
    /\ prevIndicatorValue' = All(Nowhere)
    /\ UNCHANGED prevSwitchColorValue

\* change_encoder_bank: the caches forget the lamps, so that all are drawn anew.
Forget ==
    /\ prevIndicatorValue' = All(Nowhere)
    /\ prevSwitchColorValue' = All(Nowhere)

change_encoder_bank(b) == encoder_bank' = b /\ Forget
refresh_display        == change_encoder_bank(encoder_bank)
reset_idle_timer       == sleep_mode_active' = FALSE /\ refresh_display

\* What draw_bank_select_overlay and the pulse of SW_HELD leave on the lamps of
\* the bank that is current then.
Overlay(b) == [e \in Encoders |-> IF e = b THEN Selected
                                  ELSE IF e \in Banks THEN <<"bank">> ELSE Dark]

-----------------------------------------------------------------------------
\* Encoders: turned, pressed, or nothing.
EncoderPart == Part("encoders", "draw") /\ UNCHANGED <<scenario, held>>

\* The idle timer has run out: main.c clears the lamps.
FallAsleep ==
    /\ pc = "encoders" /\ mode = "normal" /\ ~sleep_mode_active /\ Happens("timeout")
    /\ sleep_mode_active' = TRUE
    /\ ring' = All(Dark) /\ rgb' = All(Dark)
    /\ event' = TRUE
    /\ UNCHANGED <<scenario, modes, buffers, shift_mode_switch_state, nm_state, caches,
                   anims, drawing, held, pc>>

NoInput ==
    /\ EncoderPart
    /\ event' = FALSE
    /\ UNCHANGED <<modes, sleep_mode_active, buffers, shift_mode_switch_state, nm_state,
                   caches, anims, drawing, lamps>>

Turn(e, v) ==
    /\ EncoderPart /\ mode = "normal" /\ Happens("turn")
    /\ event' = TRUE
    /\ reset_idle_timer
    /\ indicator_value_buffer' =
         IF is_active THEN indicator_value_buffer
         ELSE [indicator_value_buffer EXCEPT ![encoder_bank][e] = v]
    /\ UNCHANGED <<mode, is_active, g_bank_select_active, switch_color_buffer,
                   encoder_animation_buffer, switch_animation_buffer,
                   shift_mode_switch_state, nm_state, anims, drawing, lamps>>

Press(e, c) ==
    /\ EncoderPart /\ mode = "normal" /\ ~g_bank_select_active /\ Happens("press")
    /\ event' = TRUE
    /\ reset_idle_timer
    /\ switch_color_buffer' =
         IF is_active THEN switch_color_buffer
         ELSE [switch_color_buffer EXCEPT ![encoder_bank][e] = c]
    /\ UNCHANGED <<mode, is_active, g_bank_select_active, indicator_value_buffer,
                   encoder_animation_buffer, switch_animation_buffer,
                   shift_mode_switch_state, nm_state, anims, drawing, lamps>>

\* A press under the overlay selects a bank and does not wake the device.
PressBank(e) ==
    /\ EncoderPart /\ mode = "normal" /\ g_bank_select_active
    /\ event' = TRUE
    /\ change_encoder_bank(e % NUM_BANKS)
    /\ rgb' = Overlay(e % NUM_BANKS) /\ ring' = All(Dark)
    /\ UNCHANGED <<mode, is_active, g_bank_select_active, sleep_mode_active, buffers,
                   shift_mode_switch_state, nm_state, anims, drawing>>

PressPage(e) ==
    /\ EncoderPart /\ mode = "shift"
    /\ event' = TRUE
    /\ shift_mode_switch_state' = IF e \in shift_mode_switch_state
                                  THEN shift_mode_switch_state \ {e}
                                  ELSE shift_mode_switch_state \cup {e}
    /\ UNCHANGED <<modes, sleep_mode_active, buffers, nm_state, caches, anims, drawing,
                   lamps>>

-----------------------------------------------------------------------------
\* Drawing.
DrawPart ==
    /\ Part("draw", "sides")
    /\ UNCHANGED <<scenario, modes, sleep_mode_active, buffers, shift_mode_switch_state,
                   nm_state, held, event>>

\* Mutant: an animation that has ended leaves its last picture.
RingPictureStuck(v, animated) ==
    IF animated THEN Blink(encoder_bank, v)
    ELSE IF v # prevIndicatorValue[idx]
    THEN Value(encoder_bank, v) ELSE ring[idx]

\* The ring after a call: animated, drawn because the value changed or because an
\* animation ended, or left as it is.
RingPicture(v, animated) ==
    IF animated THEN Blink(encoder_bank, v)
    ELSE IF v # prevIndicatorValue[idx] \/ prevEncoderAnimationValue[idx]
    THEN Value(encoder_bank, v) ELSE ring[idx]

RgbPicture(c, animated) ==
    IF animated THEN BlinkRgb
    ELSE IF c # prevSwitchColorValue[idx] \/ prevSwAnimationValue[idx]
    THEN Color(encoder_bank, c) ELSE rgb[idx]

\* Mutant: the index runs past the last encoder.
NextIndexLate(n) == IF n = NumEncoders THEN 0 ELSE n + 1

NextIndex(n) == (n + 1) % NumEncoders

DrawNormal ==
    /\ ring' = [ring EXCEPT ![idx] =
                  RingPicture(indicator_value_buffer[encoder_bank][idx],
                              encoder_animation_buffer[encoder_bank][idx])]
    /\ rgb' = [rgb EXCEPT ![idx] =
                  RgbPicture(switch_color_buffer[encoder_bank][idx],
                             switch_animation_buffer[encoder_bank][idx])]
    /\ prevIndicatorValue' = [prevIndicatorValue EXCEPT
                                ![idx] = indicator_value_buffer[encoder_bank][idx]]
    /\ prevSwitchColorValue' = [prevSwitchColorValue EXCEPT
                                  ![idx] = switch_color_buffer[encoder_bank][idx]]
    /\ prevEncoderAnimationValue' = [prevEncoderAnimationValue EXCEPT
                                       ![idx] = encoder_animation_buffer[encoder_bank][idx]]
    /\ prevSwAnimationValue' = [prevSwAnimationValue EXCEPT
                                  ![idx] = switch_animation_buffer[encoder_bank][idx]]

\* Native mode has no cache.
DrawNative ==
    /\ ring' = [ring EXCEPT ![idx] = NativeRing(idx)]
    /\ rgb' = [rgb EXCEPT ![idx] = NativeRgb(idx)]
    /\ UNCHANGED <<caches, anims>>

update_encoder_display ==
    /\ DrawPart /\ mode = "normal" /\ ~sleep_mode_active /\ ~g_bank_select_active
    /\ IF is_active THEN DrawNative ELSE DrawNormal
    /\ idx' = NextIndex(idx)
    /\ UNCHANGED shift_idx

NoDrawing ==
    /\ DrawPart /\ mode = "normal" /\ ~sleep_mode_active /\ g_bank_select_active
    /\ UNCHANGED <<caches, anims, drawing, lamps>>

sleep_frame ==
    /\ DrawPart /\ mode = "normal" /\ sleep_mode_active
    /\ ring' = All(Dark) /\ rgb' = All(Dark)
    /\ UNCHANGED <<caches, anims, drawing>>

Lit(e) == IF e \in shift_mode_switch_state THEN <<"full">> ELSE Dark

run_shift_mode ==
    /\ DrawPart /\ mode = "shift"
    /\ ring' = [ring EXCEPT ![shift_idx] = Lit(shift_idx)]
    /\ rgb' = [rgb EXCEPT ![shift_idx] = Dark]
    /\ shift_idx' = NextIndex(shift_idx)
    /\ UNCHANGED <<caches, anims, idx>>

-----------------------------------------------------------------------------
\* Side switches: "page" and "select" act while held, "bank" changes the bank,
\* "other" stands for one that sends a message, "combo" for the pair that toggles
\* native mode; while the pair is held no other switch is looked at.
SideSwitches == {"page", "select", "bank", "other"}

SidePart ==
    /\ Part("sides", "usb")
    /\ UNCHANGED <<scenario, buffers, shift_mode_switch_state, anims, drawing>>

\* The lamps after this part: SW_HELD of the select switch paints the current
\* bank, overlay or not, before or after another switch has acted.
Paint(new_ring, new_rgb) ==
    IF "select" \in held \cap held' /\ "combo" \notin held'
    THEN \E b \in {encoder_bank, encoder_bank'} :
            /\ ring' = [new_ring EXCEPT ![b] = Selected]
            /\ rgb' = [new_rgb EXCEPT ![b] = Selected]
    ELSE ring' = new_ring /\ rgb' = new_rgb

NoSwitch ==
    /\ SidePart
    /\ UNCHANGED <<modes, sleep_mode_active, nm_state, caches, held, event>>
    /\ Paint(ring, rgb)

Edge(s) ==
    /\ SidePart /\ Happens(s)
    /\ event' = TRUE
    /\ held' = IF s \in held THEN held \ {s} ELSE held \cup {s}

\* The pair is held: the edge of another switch is passed over.
PassedOver(s) ==
    /\ Edge(s) /\ "combo" \in held
    /\ UNCHANGED <<modes, sleep_mode_active, nm_state, caches, lamps>>

\* An edge in native mode, or of a switch that sends a message: the device wakes.
WakeOnly(s) ==
    /\ Edge(s) /\ "combo" \notin held
    /\ is_active \/ s = "other" \/ (s = "bank" /\ s \in held)
    /\ reset_idle_timer
    /\ UNCHANGED <<mode, is_active, g_bank_select_active, nm_state>>
    /\ Paint(ring, rgb)

\* SHIFT_PAGE_n, and SHIFT_PAGE_n_TOGGLE which only acts when pressed
PageSwitch ==
    /\ Edge("page") /\ "combo" \notin held /\ ~is_active
    /\ reset_idle_timer
    /\ mode' = IF "page" \in held THEN "normal" ELSE "shift"
    /\ UNCHANGED <<is_active, g_bank_select_active, nm_state>>
    /\ Paint(ring, rgb)

\* BANK_SELECT
SelectSwitch ==
    /\ Edge("select") /\ "combo" \notin held /\ ~is_active
    /\ reset_idle_timer
    /\ g_bank_select_active' = ("select" \notin held)
    /\ UNCHANGED <<mode, is_active, nm_state>>
    /\ IF "select" \in held THEN UNCHANGED lamps
       ELSE ring' = All(Dark) /\ rgb' = Overlay(encoder_bank)

\* GLOBAL_BANK_UP, _DOWN, _n, CYCLE_BANK; bank_change_animation flashes the lamps
\* if it is enabled and the overlay is not up.
BankSwitch(b) ==
    /\ Edge("bank") /\ "bank" \notin held /\ "combo" \notin held /\ ~is_active
    /\ sleep_mode_active' = FALSE
    /\ change_encoder_bank(b)
    /\ UNCHANGED <<mode, is_active, g_bank_select_active, nm_state>>
    /\ \/ Paint(ring, rgb)
       \/ /\ Happens("flash") /\ ~g_bank_select_active
          /\ Paint(All(<<"flash">>), All(<<"flash">>))

-----------------------------------------------------------------------------
\* Native mode's tables.
ResetTables ==
    [nm_state EXCEPT !.indicator = All(0), !.switch = All(0)]

\* native_mode_set_active, which resets the tables when native mode comes on
SetActive(on) ==
    /\ is_active' = on
    /\ nm_state' = IF on /\ ~is_active THEN ResetTables ELSE nm_state

\* native_mode_toggle, when the pair is complete
ComboDown ==
    /\ Edge("combo") /\ "combo" \notin held
    /\ SetActive(~is_active)
    /\ refresh_display
    /\ UNCHANGED <<mode, g_bank_select_active, sleep_mode_active, lamps>>

ComboUp ==
    /\ Edge("combo") /\ "combo" \in held
    /\ reset_idle_timer
    /\ UNCHANGED <<mode, is_active, g_bank_select_active, nm_state>>
    /\ Paint(ring, rgb)

\* One past the end of a table is the start of the next: the settings of encoder
\* 16 are the color of encoder 0, its color the values of encoders 0 to 2.
Store(table, i, level) ==
    IF i < NumEncoders THEN [nm_state EXCEPT ![table][i] = level]
    ELSE IF table = "indicator" THEN [nm_state EXCEPT !.switch[0] = level]
    ELSE [nm_state EXCEPT !.value = [e \in Encoders |-> IF e < 3 THEN level ELSE @[e]]]

Tables == {"indicator", "switch"}

-----------------------------------------------------------------------------
\* USB: one message, the configuration of the device by the host, or nothing.
UsbPart ==
    /\ Part("usb", "encoders")
    /\ UNCHANGED <<scenario, g_bank_select_active, shift_mode_switch_state, anims,
                   drawing, held>>

NoMessage ==
    /\ UsbPart
    /\ UNCHANGED <<encoder_bank, mode, is_active, sleep_mode_active, buffers, nm_state,
                   caches, lamps, event>>

Message == UsbPart /\ event' = TRUE

\* Feedback, which writes the buffers and nothing else
ReceiveFeedback(b, e, v) ==
    /\ Message
    /\ \/ /\ Happens("value")
          /\ indicator_value_buffer' = [indicator_value_buffer EXCEPT ![b][e] = v]
          /\ UNCHANGED <<switch_color_buffer, encoder_animation_buffer,
                         switch_animation_buffer>>
       \/ /\ Happens("color")
          /\ switch_color_buffer' = [switch_color_buffer EXCEPT ![b][e] = v]
          /\ UNCHANGED <<indicator_value_buffer, encoder_animation_buffer,
                         switch_animation_buffer>>
       \/ /\ Happens("animate")
          /\ encoder_animation_buffer' =
               [encoder_animation_buffer EXCEPT ![b][e] = (v # 0)]
          /\ UNCHANGED <<indicator_value_buffer, switch_color_buffer,
                         switch_animation_buffer>>
       \/ /\ Happens("animate_rgb")
          /\ switch_animation_buffer' =
               [switch_animation_buffer EXCEPT ![b][e] = (v # 0)]
          /\ UNCHANGED <<indicator_value_buffer, switch_color_buffer,
                         encoder_animation_buffer>>
    /\ UNCHANGED <<encoder_bank, mode, is_active, sleep_mode_active, nm_state, caches,
                   lamps>>

\* A bank chosen on the system channel
ReceiveBank(b) ==
    /\ Message /\ Happens("host_bank")
    /\ change_encoder_bank(b)
    /\ UNCHANGED <<mode, is_active, sleep_mode_active, buffers, nm_state, lamps>>

\* native_mode_handle_sysex_set_native_mode
ReceiveNative(on) ==
    /\ Message /\ Happens("native")
    /\ SetActive(on)
    /\ IF on # is_active THEN refresh_display ELSE UNCHANGED <<encoder_bank, caches>>
    /\ UNCHANGED <<mode, sleep_mode_active, buffers, lamps>>

\* native_mode_handle_sysex_enc_config: a part that is valid, and perhaps one
\* after it that is not, which ends the message without a refresh.
ReceivePart(table, i, level, more) ==
    /\ Message /\ Happens("native") /\ is_active
    /\ nm_state' = Store(table, i, level)
    /\ IF more THEN UNCHANGED <<encoder_bank, caches>> ELSE refresh_display
    /\ UNCHANGED <<mode, is_active, sleep_mode_active, buffers, lamps>>

\* native_mode_consume_midi_event
ReceiveNativeValue(e, v) ==
    /\ Message /\ Happens("native") /\ is_active
    /\ nm_state' = [nm_state EXCEPT !.value[e] = v]
    /\ UNCHANGED <<encoder_bank, mode, is_active, sleep_mode_active, buffers, caches,
                   lamps>>

\* sysExCmdPushConfig ends with encoders_init and refresh_display; the animation
\* in between leaves the lamps dark.
ReceiveSettings ==
    /\ Message /\ Happens("push")
    /\ reset_idle_timer
    /\ indicator_value_buffer' = [b \in Banks |-> All(0)]
    /\ switch_color_buffer' = [b \in Banks |-> All(0)]
    /\ ring' = All(Dark) /\ rgb' = All(Dark)
    /\ UNCHANGED <<mode, is_active, encoder_animation_buffer, switch_animation_buffer,
                   nm_state>>

\* EVENT_USB_Device_ConfigurationChanged: run_sparkle leaves some RGB lamps
\* sparkled dark and the others as they were.
Reconnect(sparkled) ==
    /\ Message /\ Happens("reconnect")
    /\ mode' = "normal"
    /\ refresh_display
    /\ rgb' = [e \in Encoders |-> IF e \in sparkled THEN Dark ELSE rgb[e]]
    /\ UNCHANGED <<is_active, sleep_mode_active, buffers, nm_state, ring>>

-----------------------------------------------------------------------------
Init ==
    /\ scenario \in Scenarios
    /\ encoder_bank = 0 /\ mode = "normal" /\ is_active = FALSE
    /\ g_bank_select_active = FALSE /\ sleep_mode_active = FALSE
    /\ indicator_value_buffer = [b \in Banks |-> All(0)]
    /\ switch_color_buffer = [b \in Banks |-> All(0)]
    /\ encoder_animation_buffer = [b \in Banks |-> All(FALSE)]
    /\ switch_animation_buffer = [b \in Banks |-> All(FALSE)]
    /\ shift_mode_switch_state = {}
    /\ nm_state = [indicator |-> All(0), switch |-> All(0), value |-> All(0)]
    /\ prevIndicatorValue = All(Nowhere) /\ prevSwitchColorValue = All(Nowhere)
    /\ prevEncoderAnimationValue = All(FALSE) /\ prevSwAnimationValue = All(FALSE)
    /\ idx = 0 /\ shift_idx = 0
    /\ ring = All(Dark) /\ rgb = All(Dark)
    /\ held = {} /\ pc = "encoders" /\ event = TRUE

EncoderStep ==
    \/ FallAsleep
    \/ NoInput
    \/ \E e \in Encoders : PressBank(e) \/ PressPage(e)
    \/ \E e \in Touched, v \in Levels : Turn(e, v) \/ Press(e, v)

DrawStep ==
    \/ update_encoder_display
    \/ NoDrawing
    \/ sleep_frame
    \/ run_shift_mode

SideStep ==
    \/ NoSwitch
    \/ \E s \in SideSwitches : PassedOver(s) \/ WakeOnly(s)
    \/ PageSwitch
    \/ SelectSwitch
    \/ \E b \in Banks : BankSwitch(b)
    \/ ComboDown
    \/ ComboUp

UsbStep ==
    \/ NoMessage
    \/ \E b \in Banks, e \in Touched, v \in Levels : ReceiveFeedback(b, e, v)
    \/ \E b \in Banks : ReceiveBank(b)
    \/ \E on \in BOOLEAN : ReceiveNative(on)
    \/ \E table \in Tables, i \in Touched \cup {NumEncoders}, level \in Levels, more \in BOOLEAN :
          ReceivePart(table, i, level, more)
    \/ \E e \in Touched, v \in Levels : ReceiveNativeValue(e, v)
    \/ ReceiveSettings
    \/ \E sparkled \in SUBSET Encoders : Reconnect(sparkled)

Next ==
    \/ EncoderStep
    \/ DrawStep
    \/ SideStep
    \/ UsbStep

\* The main loop runs for ever: every part of a pass comes to an end.
Spec == Init /\ [][Next]_vars /\ WF_vars(Next)

-----------------------------------------------------------------------------
ModesType ==
    /\ encoder_bank \in Banks /\ mode \in {"normal", "shift"}
    /\ is_active \in BOOLEAN /\ g_bank_select_active \in BOOLEAN
    /\ sleep_mode_active \in BOOLEAN

BuffersType ==
    /\ indicator_value_buffer \in [Banks -> [Encoders -> Levels]]
    /\ switch_color_buffer \in [Banks -> [Encoders -> Levels]]
    /\ encoder_animation_buffer \in [Banks -> [Encoders -> BOOLEAN]]
    /\ switch_animation_buffer \in [Banks -> [Encoders -> BOOLEAN]]

TablesType == nm_state \in [{"indicator", "switch", "value"} -> [Encoders -> Levels]]

CachesType ==
    /\ prevIndicatorValue \in [Encoders -> Levels \cup {Nowhere}]
    /\ prevSwitchColorValue \in [Encoders -> Levels \cup {Nowhere}]

AnimsType ==
    /\ prevEncoderAnimationValue \in [Encoders -> BOOLEAN]
    /\ prevSwAnimationValue \in [Encoders -> BOOLEAN]

DrawingType ==
    /\ shift_mode_switch_state \in SUBSET Encoders
    /\ idx \in Encoders /\ shift_idx \in Encoders
    /\ DOMAIN ring = Encoders /\ DOMAIN rgb = Encoders

LoopType ==
    /\ scenario \in Scenarios
    /\ held \in SUBSET (SideSwitches \cup {"combo"})
    /\ pc \in {"encoders", "draw", "sides", "usb"}
    /\ event \in BOOLEAN

TypeOK ==
    /\ ModesType /\ BuffersType /\ TablesType /\ CachesType /\ AnimsType
    /\ DrawingType /\ LoopType

\* Nothing paints over the encoders' own pictures.
Undisturbed ==
    /\ mode = "normal" /\ ~sleep_mode_active /\ ~is_active /\ ~g_bank_select_active
    /\ "select" \notin held

\* The caches never lie: a lamp they say shows a value shows it, drawn with the
\* settings of the current bank, whatever was painted over it in between (shift
\* pages, overlay, flash, sleep, native mode, the animations and a new connection).
CacheTellsTruth ==
    Undisturbed =>
        \A e \in Encoders :
            /\ prevIndicatorValue[e] # Nowhere /\ ~prevEncoderAnimationValue[e]
                  => ring[e] = Value(encoder_bank, prevIndicatorValue[e])
            /\ prevSwitchColorValue[e] # Nowhere /\ ~prevSwAnimationValue[e]
                  => rgb[e] = Color(encoder_bank, prevSwitchColorValue[e])

\* What the lamps of an encoder should show.  Nothing is said of the overlay.
RingOf(e) ==
    IF mode = "shift" THEN Lit(e)
    ELSE IF sleep_mode_active THEN Dark
    ELSE IF is_active THEN NativeRing(e)
    ELSE IF encoder_animation_buffer[encoder_bank][e]
    THEN Blink(encoder_bank, indicator_value_buffer[encoder_bank][e])
    ELSE Value(encoder_bank, indicator_value_buffer[encoder_bank][e])

RgbOf(e) ==
    IF mode = "shift" \/ sleep_mode_active THEN Dark
    ELSE IF is_active THEN NativeRgb(e)
    ELSE IF switch_animation_buffer[encoder_bank][e] THEN BlinkRgb
    ELSE Color(encoder_bank, switch_color_buffer[encoder_bank][e])

InStep ==
    g_bank_select_active \/ "select" \in held
    \/ \A e \in Encoders : ring[e] = RingOf(e) /\ rgb[e] = RgbOf(e)

\* The display catches up: as long as nothing happens any more, the lamps come to
\* show the state of the device, on every page, in native mode and asleep.
DisplayCatchesUp == []<>(event \/ InStep)
=============================================================================
