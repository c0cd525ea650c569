--------------------------- MODULE DisplayProofs ----------------------------
(***************************************************************************)
(* The caches of the display, for any number of encoders, banks and levels *)
(* and any combination of what may paint over the lamps: they never make   *)
(* the main loop skip a picture that is not there.                         *)
(***************************************************************************)
EXTENDS Display, TLAPS

\* The lamps are the encoders' own.  A select switch that is held paints over them,
\* but not while the pair for native mode is held, which hides it: it may then be
\* let go of unseen.
OwnLamps ==
    /\ mode = "normal" /\ ~sleep_mode_active /\ ~is_active /\ ~g_bank_select_active
    /\ "select" \in held => "combo" \in held

\* What the caches say of one encoder is true.
Truthful(e) ==
    /\ prevIndicatorValue[e] # Nowhere /\ ~prevEncoderAnimationValue[e]
          => ring[e] = Value(encoder_bank, prevIndicatorValue[e])
    /\ prevSwitchColorValue[e] # Nowhere /\ ~prevSwAnimationValue[e]
          => rgb[e] = Color(encoder_bank, prevSwitchColorValue[e])

\* What CacheTellsTruth says, for a little longer.
CacheInv == OwnLamps => \A e \in Encoders : Truthful(e)

-----------------------------------------------------------------------------
\* Types.

\* What a group of variables keeps, keeps its type.
LEMMA SameKeepsType ==
    ASSUME TypeOK
    PROVE  /\ UNCHANGED <<encoder_bank, mode, is_active, g_bank_select_active,
                          sleep_mode_active>> => ModesType'
           /\ UNCHANGED buffers => BuffersType'
           /\ UNCHANGED nm_state => TablesType'
           /\ UNCHANGED caches => CachesType'
           /\ UNCHANGED anims => AnimsType'
           /\ UNCHANGED <<shift_mode_switch_state, idx, shift_idx, ring, rgb>> => DrawingType'
           /\ UNCHANGED <<scenario, held, pc, event>> => LoopType'
<1>1. UNCHANGED <<encoder_bank, mode, is_active, g_bank_select_active,
                  sleep_mode_active>> => ModesType'
  BY DEF TypeOK, ModesType
<1>2. UNCHANGED buffers => BuffersType'
  BY DEF TypeOK, BuffersType, buffers
<1>3. UNCHANGED nm_state => TablesType'
  BY DEF TypeOK, TablesType
<1>4. UNCHANGED caches => CachesType'
  BY DEF TypeOK, CachesType, caches
<1>5. UNCHANGED anims => AnimsType'
  BY DEF TypeOK, AnimsType, anims
<1>6. UNCHANGED <<shift_mode_switch_state, idx, shift_idx, ring, rgb>> => DrawingType'
  BY DEF TypeOK, DrawingType
<1>7. UNCHANGED <<scenario, held, pc, event>> => LoopType'
  BY DEF TypeOK, LoopType
<1>8. QED BY <1>1, <1>2, <1>3, <1>4, <1>5, <1>6, <1>7

\* Indices wrap at the last encoder, banks at the last bank.
LEMMA IndexTypes ==
    /\ \A n \in Encoders : NextIndex(n) \in Encoders
    /\ \A e \in Encoders : e % NUM_BANKS \in Banks
    /\ 0 \in Encoders /\ 0 \in Banks
<1>1. NumEncoders \in Nat /\ NumEncoders > 0 /\ NUM_BANKS \in Nat /\ NUM_BANKS > 0
  BY DisplayAssumption
<1>2. QED BY <1>1 DEF NextIndex, Encoders, Banks

\* Forgetting, and what goes with it, keeps the types.
LEMMA ForgetType ==
    ASSUME Forget
    PROVE  CachesType'
  BY DEF Forget, All, CachesType

\* The initial state has its type.
LEMMA InitType == Init => TypeOK
<1> SUFFICES ASSUME Init PROVE TypeOK
  OBVIOUS
<1> USE DEF Init
<1>1. ModesType
  <2>1. is_active \in BOOLEAN /\ g_bank_select_active \in BOOLEAN
        /\ sleep_mode_active \in BOOLEAN
    OBVIOUS
  <2>2. QED BY <2>1, IndexTypes DEF ModesType
<1>2. BuffersType
  BY DisplayAssumption DEF BuffersType, All
<1>3. TablesType
  BY DisplayAssumption DEF TablesType, All
<1>4. CachesType /\ AnimsType
  BY DEF CachesType, AnimsType, All
<1>5. DrawingType
  BY IndexTypes DEF DrawingType, All
<1>6. LoopType
  <2>1. event \in BOOLEAN
    OBVIOUS
  <2>2. QED BY <2>1 DEF LoopType
<1>7. QED BY <1>1, <1>2, <1>3, <1>4, <1>5, <1>6 DEF TypeOK

\* A part of a pass goes on to the next; the event flag stays a flag.
LEMMA PartsKeepType ==
    ASSUME TypeOK, UNCHANGED <<scenario, held>>, event' = event \/ event' = TRUE \/ event' = FALSE,
           EncoderPart \/ DrawPart \/ UsbPart \/ UNCHANGED pc
    PROVE  LoopType'
<1>1. event' \in BOOLEAN
  BY DEF TypeOK, LoopType
<1>2. pc' \in {"encoders", "draw", "sides", "usb"}
  BY DEF TypeOK, LoopType, EncoderPart, DrawPart, UsbPart, Part
<1>3. QED BY <1>1, <1>2 DEF TypeOK, LoopType

\* The encoders' part keeps the types.
LEMMA EncodersKeepType == TypeOK /\ EncoderStep => TypeOK'
<1> SUFFICES ASSUME TypeOK, EncoderStep PROVE TypeOK'
  OBVIOUS
<1> USE DEF modes, lamps, drawing
<1>0. ModesType /\ BuffersType /\ DrawingType
  BY DEF TypeOK
<1>1. CASE FallAsleep
  <2>1. ModesType'
    <3>1. sleep_mode_active' \in BOOLEAN
      BY <1>1 DEF FallAsleep
    <3>2. QED BY <1>0, <1>1, <3>1 DEF FallAsleep, ModesType
  <2>2. DrawingType'
    BY <1>0, <1>1 DEF FallAsleep, DrawingType, All
  <2>3. LoopType'
    BY <1>1, PartsKeepType DEF FallAsleep
  <2>4. QED BY <1>1, <2>1, <2>2, <2>3, SameKeepsType DEF FallAsleep, TypeOK
<1>2. CASE NoInput
  <2>1. LoopType'
    BY <1>2, PartsKeepType DEF NoInput, EncoderPart
  <2>2. QED BY <1>2, <2>1, SameKeepsType DEF NoInput, TypeOK
<1>3. ASSUME reset_idle_timer, UNCHANGED <<mode, is_active, g_bank_select_active>>
      PROVE  ModesType' /\ CachesType'
  <2>1. sleep_mode_active' \in BOOLEAN /\ encoder_bank' = encoder_bank /\ Forget
    BY <1>3 DEF reset_idle_timer, refresh_display, change_encoder_bank
  <2>2. QED BY <1>0, <1>3, <2>1, ForgetType DEF ModesType
<1>4. ASSUME NEW e \in Encoders, PressBank(e) PROVE TypeOK'
  <2>1. e % NUM_BANKS \in Banks /\ encoder_bank' = e % NUM_BANKS /\ Forget
    BY <1>4, IndexTypes DEF PressBank, change_encoder_bank
  <2>2. ModesType'
    BY <1>0, <1>4, <2>1 DEF PressBank, ModesType
  <2>3. DrawingType'
    BY <1>0, <1>4 DEF PressBank, DrawingType, All, Overlay
  <2>4. LoopType'
    BY <1>4, PartsKeepType DEF PressBank, EncoderPart
  <2>5. QED BY <1>4, <2>1, <2>2, <2>3, <2>4, ForgetType, SameKeepsType DEF PressBank, TypeOK
<1>5. ASSUME NEW e \in Encoders, PressPage(e) PROVE TypeOK'
  <2>1. DrawingType'
    BY <1>0, <1>5 DEF PressPage, DrawingType
  <2>2. LoopType'
    BY <1>5, PartsKeepType DEF PressPage, EncoderPart
  <2>3. QED BY <1>5, <2>1, <2>2, SameKeepsType DEF PressPage, TypeOK
<1>6. ASSUME NEW e \in Touched, NEW v \in Levels, Turn(e, v) PROVE TypeOK'
  <2>1. BuffersType'
    BY <1>0, <1>6, DisplayAssumption DEF Turn, BuffersType
  <2>2. LoopType'
    BY <1>6, PartsKeepType DEF Turn, EncoderPart
  <2>3. QED BY <1>3, <1>6, <2>1, <2>2, SameKeepsType DEF Turn, TypeOK
<1>7. ASSUME NEW e \in Touched, NEW v \in Levels, Press(e, v) PROVE TypeOK'
  <2>1. BuffersType'
    BY <1>0, <1>7, DisplayAssumption DEF Press, BuffersType
  <2>2. LoopType'
    BY <1>7, PartsKeepType DEF Press, EncoderPart
  <2>3. QED BY <1>3, <1>7, <2>1, <2>2, SameKeepsType DEF Press, TypeOK
<1>8. QED BY <1>1, <1>2, <1>4, <1>5, <1>6, <1>7 DEF EncoderStep

\* Drawing keeps the types.
LEMMA DrawingKeepsType == TypeOK /\ DrawStep => TypeOK'
<1> SUFFICES ASSUME TypeOK, DrawStep PROVE TypeOK'
  OBVIOUS
<1> USE DEF modes, lamps, drawing
<1>0. ModesType /\ BuffersType /\ DrawingType /\ CachesType /\ AnimsType
  BY DEF TypeOK
<1>1. ASSUME DrawPart PROVE ModesType' /\ BuffersType' /\ TablesType' /\ LoopType'
  <2>1. LoopType'
    BY <1>1, PartsKeepType DEF DrawPart
  <2>2. QED BY <1>1, <2>1, SameKeepsType DEF DrawPart
<1>2. CASE update_encoder_display
  <2>1. CASE is_active
    <3>1. DrawNative /\ UNCHANGED <<caches, anims>>
      BY <1>2, <2>1 DEF update_encoder_display, DrawNative
    <3>2. DrawingType'
      BY <1>0, <1>2, <3>1, IndexTypes
      DEF update_encoder_display, DrawNative, DrawPart, DrawingType
    <3>3. QED BY <1>1, <1>2, <3>1, <3>2, SameKeepsType DEF update_encoder_display, TypeOK
  <2>2. CASE ~is_active
    <3>1. DrawNormal
      BY <1>2, <2>2 DEF update_encoder_display
    <3>2. DrawingType'
      BY <1>0, <1>2, <3>1, IndexTypes
      DEF update_encoder_display, DrawNormal, DrawPart, DrawingType
    <3>3. CachesType' /\ AnimsType'
      BY <1>0, <3>1
      DEF DrawNormal, CachesType, AnimsType, BuffersType, ModesType, DrawingType
    <3>4. QED BY <1>1, <1>2, <3>2, <3>3 DEF update_encoder_display, TypeOK
  <2>3. QED BY <2>1, <2>2
<1>3. CASE NoDrawing
  BY <1>1, <1>3, SameKeepsType DEF NoDrawing, DrawPart, TypeOK
<1>4. CASE sleep_frame
  <2>1. DrawingType'
    BY <1>0, <1>4 DEF sleep_frame, DrawPart, DrawingType, All
  <2>2. QED BY <1>1, <1>4, <2>1, SameKeepsType DEF sleep_frame, TypeOK
<1>5. CASE run_shift_mode
  <2>1. DrawingType'
    BY <1>0, <1>5, IndexTypes DEF run_shift_mode, DrawPart, DrawingType
  <2>2. QED BY <1>1, <1>5, <2>1, SameKeepsType DEF run_shift_mode, TypeOK
<1>6. QED BY <1>2, <1>3, <1>4, <1>5 DEF DrawStep

\* Native mode off or on keeps the types.
LEMMA SetActiveType ==
    ASSUME TypeOK, NEW on \in BOOLEAN, SetActive(on)
    PROVE  is_active' \in BOOLEAN /\ TablesType'
<1>1. TablesType
  BY DEF TypeOK
<1>2. nm_state' = nm_state \/ nm_state' = ResetTables
  BY DEF SetActive
<1>3. ResetTables \in [{"indicator", "switch", "value"} -> [Encoders -> Levels]]
  BY <1>1, DisplayAssumption DEF ResetTables, All, TablesType
<1>4. QED BY <1>1, <1>2, <1>3 DEF SetActive, TablesType

\* What painting over the lamps leaves is a picture for each encoder.
LEMMA PaintType ==
    ASSUME NEW r, NEW c, DOMAIN r = Encoders, DOMAIN c = Encoders, Paint(r, c)
    PROVE  DOMAIN ring' = Encoders /\ DOMAIN rgb' = Encoders
  BY DEF Paint

\* The side switches keep the types.
LEMMA SidesKeepType == TypeOK /\ SideStep => TypeOK'
<1> SUFFICES ASSUME TypeOK, SideStep PROVE TypeOK'
  OBVIOUS
<1> USE DEF modes, lamps, drawing
<1>0. ModesType /\ DrawingType /\ LoopType
      /\ DOMAIN ring = Encoders /\ DOMAIN rgb = Encoders
  BY DEF TypeOK, DrawingType
<1>1. ASSUME SidePart PROVE BuffersType' /\ AnimsType' /\ scenario' \in Scenarios
                            /\ pc' = "usb" /\ UNCHANGED <<shift_mode_switch_state, drawing>>
  BY <1>0, <1>1, SameKeepsType DEF SidePart, Part, LoopType
<1>2. ASSUME SidePart, DOMAIN ring' = Encoders, DOMAIN rgb' = Encoders
      PROVE  DrawingType'
  BY <1>0, <1>1, <1>2 DEF DrawingType
<1>3. ASSUME NEW s \in SideSwitches \cup {"combo"}, Edge(s)
      PROVE  LoopType' /\ SidePart
  <2>1. event' \in BOOLEAN /\ SidePart
    BY <1>3 DEF Edge
  <2>2. held' \in SUBSET (SideSwitches \cup {"combo"})
    BY <1>0, <1>3 DEF Edge, LoopType
  <2>3. QED BY <1>1, <2>1, <2>2 DEF LoopType
<1>4. ASSUME reset_idle_timer, mode' \in {"normal", "shift"}, is_active' \in BOOLEAN,
             g_bank_select_active' \in BOOLEAN
      PROVE  ModesType' /\ CachesType'
  <2>1. sleep_mode_active' \in BOOLEAN /\ encoder_bank' = encoder_bank /\ Forget
    BY <1>4 DEF reset_idle_timer, refresh_display, change_encoder_bank
  <2>2. QED BY <1>0, <1>4, <2>1, ForgetType DEF ModesType
<1>5. mode \in {"normal", "shift"} /\ is_active \in BOOLEAN /\ g_bank_select_active \in BOOLEAN
  BY <1>0 DEF ModesType
<1>6. CASE NoSwitch
  <2>1. DrawingType'
    BY <1>0, <1>2, <1>6, PaintType DEF NoSwitch
  <2>2. LoopType'
    BY <1>0, <1>1, <1>6 DEF NoSwitch, LoopType
  <2>3. QED BY <1>1, <1>6, <2>1, <2>2, SameKeepsType DEF NoSwitch, TypeOK
<1>7. ASSUME NEW s \in SideSwitches, PassedOver(s) PROVE TypeOK'
  <2>1. LoopType' /\ SidePart
    BY <1>3, <1>7 DEF PassedOver
  <2>2. DrawingType'
    BY <1>0, <1>2, <1>7, <2>1 DEF PassedOver
  <2>3. QED BY <1>1, <1>7, <2>1, <2>2, SameKeepsType DEF PassedOver, TypeOK
<1>8. ASSUME NEW s \in SideSwitches, WakeOnly(s) PROVE TypeOK'
  <2>1. LoopType' /\ SidePart
    BY <1>3, <1>8 DEF WakeOnly
  <2>2. DrawingType'
    BY <1>0, <1>2, <1>8, <2>1, PaintType DEF WakeOnly
  <2>3. ModesType' /\ CachesType'
    BY <1>4, <1>5, <1>8 DEF WakeOnly
  <2>4. TablesType'
    BY <1>8, SameKeepsType DEF WakeOnly
  <2>5. QED BY <1>1, <2>1, <2>2, <2>3, <2>4 DEF TypeOK
<1>9. CASE PageSwitch
  <2>1. LoopType' /\ SidePart
    BY <1>3, <1>9 DEF PageSwitch, SideSwitches
  <2>2. DrawingType'
    BY <1>0, <1>2, <1>9, <2>1, PaintType DEF PageSwitch
  <2>3. ModesType' /\ CachesType'
    BY <1>4, <1>5, <1>9 DEF PageSwitch
  <2>4. TablesType'
    BY <1>9, SameKeepsType DEF PageSwitch
  <2>5. QED BY <1>1, <2>1, <2>2, <2>3, <2>4 DEF TypeOK
<1>10. CASE SelectSwitch
  <2>1. LoopType' /\ SidePart
    BY <1>3, <1>10 DEF SelectSwitch, SideSwitches
  <2>2. DrawingType'
    <3>1. ring' \in {ring, All(Dark)} /\ rgb' \in {rgb, Overlay(encoder_bank)}
      BY <1>10 DEF SelectSwitch
    <3>2. DOMAIN ring' = Encoders /\ DOMAIN rgb' = Encoders
      BY <1>0, <3>1 DEF All, Overlay
    <3>3. QED BY <1>2, <2>1, <3>2
  <2>3. g_bank_select_active' \in BOOLEAN
    <3> DEFINE up == "select" \notin held
    <3>1. g_bank_select_active' = up /\ up \in BOOLEAN
      BY <1>10 DEF SelectSwitch
    <3> HIDE DEF up
    <3>2. QED BY <3>1
  <2>4. ModesType' /\ CachesType'
    BY <1>4, <1>5, <1>10, <2>3 DEF SelectSwitch
  <2>5. TablesType'
    BY <1>10, SameKeepsType DEF SelectSwitch
  <2>6. QED BY <1>1, <2>1, <2>2, <2>4, <2>5 DEF TypeOK
<1>11. ASSUME NEW b \in Banks, BankSwitch(b) PROVE TypeOK'
  <2>1. LoopType' /\ SidePart
    BY <1>3, <1>11 DEF BankSwitch, SideSwitches
  <2>2. DrawingType'
    <3>1. Paint(ring, rgb) \/ Paint(All(<<"flash">>), All(<<"flash">>))
      BY <1>11 DEF BankSwitch
    <3>2. DOMAIN All(<<"flash">>) = Encoders
      BY DEF All
    <3>3. DOMAIN ring' = Encoders /\ DOMAIN rgb' = Encoders
      BY <1>0, <3>1, <3>2, PaintType
    <3>4. QED BY <1>2, <2>1, <3>3
  <2>3. ModesType' /\ CachesType'
    <3>1. sleep_mode_active' \in BOOLEAN /\ encoder_bank' = b /\ Forget
          /\ UNCHANGED <<mode, is_active, g_bank_select_active>>
      BY <1>11 DEF BankSwitch, change_encoder_bank
    <3>2. QED BY <1>0, <3>1, ForgetType DEF ModesType
  <2>4. TablesType'
    BY <1>11, SameKeepsType DEF BankSwitch
  <2>5. QED BY <1>1, <2>1, <2>2, <2>3, <2>4 DEF TypeOK
<1>12. CASE ComboDown
  <2>1. LoopType' /\ SidePart
    BY <1>3, <1>12 DEF ComboDown
  <2>2. DrawingType'
    BY <1>0, <1>2, <1>12, <2>1 DEF ComboDown
  <2>3. is_active' \in BOOLEAN /\ TablesType'
    <3>1. SetActive(~is_active)
      BY <1>12 DEF ComboDown
    <3>2. CASE is_active
      <4>1. SetActive(FALSE)
        BY <3>1, <3>2, Zenon DEF SetActive
      <4>2. QED BY <4>1, SetActiveType
    <3>3. CASE ~is_active
      <4>1. SetActive(TRUE)
        BY <3>1, <3>3, Zenon DEF SetActive
      <4>2. QED BY <4>1, SetActiveType
    <3>4. QED BY <3>2, <3>3
  <2>4. ModesType' /\ CachesType'
    <3>1. encoder_bank' = encoder_bank /\ Forget
          /\ UNCHANGED <<mode, sleep_mode_active, g_bank_select_active>>
      BY <1>12 DEF ComboDown, refresh_display, change_encoder_bank
    <3>2. QED BY <1>0, <2>3, <3>1, ForgetType DEF ModesType
  <2>5. QED BY <1>1, <2>1, <2>2, <2>3, <2>4 DEF TypeOK
<1>13. CASE ComboUp
  <2>1. LoopType' /\ SidePart
    BY <1>3, <1>13 DEF ComboUp
  <2>2. DrawingType'
    BY <1>0, <1>2, <1>13, <2>1, PaintType DEF ComboUp
  <2>3. ModesType' /\ CachesType'
    BY <1>4, <1>5, <1>13 DEF ComboUp
  <2>4. TablesType'
    BY <1>13, SameKeepsType DEF ComboUp
  <2>5. QED BY <1>1, <2>1, <2>2, <2>3, <2>4 DEF TypeOK
<1>14. QED
  BY <1>6, <1>7, <1>8, <1>9, <1>10, <1>11, <1>12, <1>13 DEF SideStep

\* What native mode stores stays within its tables.
LEMMA StoreType ==
    ASSUME TypeOK, NEW table \in Tables, NEW i \in Encoders \cup {NumEncoders},
           NEW level \in Levels
    PROVE  Store(table, i, level)
             \in [{"indicator", "switch", "value"} -> [Encoders -> Levels]]
<1>1. TablesType /\ 0 \in Encoders
  BY IndexTypes DEF TypeOK
<1>2. CASE i < NumEncoders
  <2>1. i \in Encoders
    BY <1>2, DisplayAssumption DEF Encoders
  <2>2. QED BY <1>1, <1>2, <2>1 DEF Store, Tables, TablesType
<1>3. CASE ~(i < NumEncoders) /\ table = "indicator"
  BY <1>1, <1>3 DEF Store, TablesType
<1>4. CASE ~(i < NumEncoders) /\ table # "indicator"
  <2>1. [e \in Encoders |-> IF e < 3 THEN level ELSE nm_state.value[e]] \in [Encoders -> Levels]
    BY <1>1 DEF TablesType
  <2>2. QED BY <1>1, <1>4, <2>1 DEF Store, TablesType
<1>5. QED BY <1>2, <1>3, <1>4

\* One entry of one bank's buffer, written.
LEMMA BufferType ==
    ASSUME NEW S, NEW f \in [Banks -> [Encoders -> S]],
           NEW b \in Banks, NEW e \in Encoders, NEW v \in S
    PROVE  [f EXCEPT ![b][e] = v] \in [Banks -> [Encoders -> S]]
  OBVIOUS

\* The messages keep the types.
LEMMA UsbKeepsType == TypeOK /\ UsbStep => TypeOK'
<1> SUFFICES ASSUME TypeOK, UsbStep PROVE TypeOK'
  OBVIOUS
<1> USE DEF lamps, drawing
<1>0. ModesType /\ BuffersType /\ TablesType /\ DrawingType
  BY DEF TypeOK
<1>1. ASSUME UsbPart, event' = event \/ event' = TRUE
      PROVE  LoopType' /\ AnimsType' /\ UNCHANGED <<g_bank_select_active, idx, shift_idx,
                                                    shift_mode_switch_state>>
  <2>1. LoopType'
    BY <1>1, PartsKeepType DEF UsbPart
  <2>2. QED BY <1>1, <2>1, SameKeepsType DEF UsbPart
<1>2. ASSUME Message PROVE UsbPart /\ event' = TRUE
  BY <1>2 DEF Message
<1>3. CASE NoMessage
  BY <1>1, <1>3, SameKeepsType DEF NoMessage, TypeOK
<1>4. ASSUME NEW b \in Banks, NEW e \in Touched, NEW v \in Levels, ReceiveFeedback(b, e, v)
      PROVE  TypeOK'
  <2>1. e \in Encoders
    BY DisplayAssumption
  <2>2. PICK lit \in BOOLEAN : lit = (v # 0)
    OBVIOUS
  <2>3. BuffersType'
    <3>1. CASE /\ indicator_value_buffer' = [indicator_value_buffer EXCEPT ![b][e] = v]
               /\ UNCHANGED <<switch_color_buffer, encoder_animation_buffer,
                              switch_animation_buffer>>
      BY <1>0, <2>1, <3>1, BufferType DEF BuffersType
    <3>2. CASE /\ switch_color_buffer' = [switch_color_buffer EXCEPT ![b][e] = v]
               /\ UNCHANGED <<indicator_value_buffer, encoder_animation_buffer,
                              switch_animation_buffer>>
      BY <1>0, <2>1, <3>2, BufferType DEF BuffersType
    <3>3. CASE /\ encoder_animation_buffer' = [encoder_animation_buffer EXCEPT ![b][e] = lit]
               /\ UNCHANGED <<indicator_value_buffer, switch_color_buffer,
                              switch_animation_buffer>>
      BY <1>0, <2>1, <3>3, BufferType DEF BuffersType
    <3>4. CASE /\ switch_animation_buffer' = [switch_animation_buffer EXCEPT ![b][e] = lit]
               /\ UNCHANGED <<indicator_value_buffer, switch_color_buffer,
                              encoder_animation_buffer>>
      BY <1>0, <2>1, <3>4, BufferType DEF BuffersType
    <3>5. QED BY <1>4, <2>2, <3>1, <3>2, <3>3, <3>4 DEF ReceiveFeedback
  <2>4. QED BY <1>1, <1>2, <1>4, <2>3, SameKeepsType DEF ReceiveFeedback, TypeOK
<1>5. ASSUME NEW b \in Banks, ReceiveBank(b) PROVE TypeOK'
  <2>1. encoder_bank' = b /\ Forget
    BY <1>5 DEF ReceiveBank, change_encoder_bank
  <2>2. ModesType'
    BY <1>0, <1>1, <1>2, <1>5, <2>1 DEF ReceiveBank, ModesType
  <2>3. QED BY <1>1, <1>2, <1>5, <2>1, <2>2, ForgetType, SameKeepsType DEF ReceiveBank, TypeOK
<1>6. ASSUME NEW on \in BOOLEAN, ReceiveNative(on) PROVE TypeOK'
  <2>1. is_active' \in BOOLEAN /\ TablesType'
    BY <1>6, SetActiveType DEF ReceiveNative
  <2>2. encoder_bank' = encoder_bank /\ (Forget \/ UNCHANGED caches)
    BY <1>6 DEF ReceiveNative, refresh_display, change_encoder_bank
  <2>3. ModesType' /\ CachesType'
    BY <1>0, <1>1, <1>2, <1>6, <2>1, <2>2, ForgetType, SameKeepsType
    DEF ReceiveNative, ModesType
  <2>4. QED BY <1>1, <1>2, <1>6, <2>1, <2>3, SameKeepsType DEF ReceiveNative, TypeOK
<1>7. ASSUME NEW table \in Tables, NEW i \in Touched \cup {NumEncoders}, NEW level \in Levels,
             NEW more \in BOOLEAN, ReceivePart(table, i, level, more)
      PROVE  TypeOK'
  <2>1. TablesType'
    BY <1>7, StoreType, DisplayAssumption DEF ReceivePart, TablesType
  <2>2. encoder_bank' = encoder_bank /\ (Forget \/ UNCHANGED caches)
    BY <1>7 DEF ReceivePart, refresh_display, change_encoder_bank
  <2>3. ModesType' /\ CachesType'
    BY <1>0, <1>1, <1>2, <1>7, <2>2, ForgetType, SameKeepsType DEF ReceivePart, ModesType
  <2>4. QED BY <1>1, <1>2, <1>7, <2>1, <2>3, SameKeepsType DEF ReceivePart, TypeOK
<1>8. ASSUME NEW e \in Touched, NEW v \in Levels, ReceiveNativeValue(e, v) PROVE TypeOK'
  <2>1. TablesType'
    BY <1>0, <1>8, DisplayAssumption DEF ReceiveNativeValue, TablesType
  <2>2. QED BY <1>1, <1>2, <1>8, <2>1, SameKeepsType DEF ReceiveNativeValue, TypeOK
<1>9. CASE ReceiveSettings
  <2>1. sleep_mode_active' \in BOOLEAN /\ encoder_bank' = encoder_bank /\ Forget
    BY <1>9 DEF ReceiveSettings, reset_idle_timer, refresh_display, change_encoder_bank
  <2>2. ModesType'
    BY <1>0, <1>1, <1>2, <1>9, <2>1 DEF ReceiveSettings, ModesType
  <2>3. BuffersType'
    BY <1>0, <1>9, DisplayAssumption DEF ReceiveSettings, BuffersType, All
  <2>4. DrawingType'
    BY <1>0, <1>1, <1>2, <1>9 DEF ReceiveSettings, DrawingType, All
  <2>5. QED
    BY <1>1, <1>2, <1>9, <2>1, <2>2, <2>3, <2>4, ForgetType, SameKeepsType
    DEF ReceiveSettings, TypeOK
<1>10. ASSUME NEW sparkled \in SUBSET Encoders, Reconnect(sparkled) PROVE TypeOK'
  <2>1. encoder_bank' = encoder_bank /\ Forget
    BY <1>10 DEF Reconnect, refresh_display, change_encoder_bank
  <2>2. ModesType'
    BY <1>0, <1>1, <1>2, <1>10, <2>1 DEF Reconnect, ModesType
  <2>3. DrawingType'
    BY <1>0, <1>1, <1>2, <1>10 DEF Reconnect, DrawingType
  <2>4. QED
    BY <1>1, <1>2, <1>10, <2>1, <2>2, <2>3, ForgetType, SameKeepsType DEF Reconnect, TypeOK
<1>11. QED BY <1>3, <1>4, <1>5, <1>6, <1>7, <1>8, <1>9, <1>10 DEF UsbStep

\* Every step keeps the types.
LEMMA NextType == TypeOK /\ [Next]_vars => TypeOK'
<1> SUFFICES ASSUME TypeOK, [Next]_vars PROVE TypeOK'
  OBVIOUS
<1>1. CASE UNCHANGED vars
  BY <1>1, SameKeepsType DEF vars, modes, lamps, drawing, TypeOK
<1>2. CASE Next
  BY <1>2, EncodersKeepType, DrawingKeepsType, SidesKeepType, UsbKeepsType DEF Next
<1>3. QED BY <1>1, <1>2

-----------------------------------------------------------------------------
\* Caches.

\* Caches that have forgotten say nothing.
LEMMA ForgetIsTrue == Forget => CacheInv'
  BY DEF Forget, All, CacheInv, Truthful

\* What is true stays true as long as neither caches nor lamps change and the lamps
\* were the encoders' own before.
LEMMA SameIsTrue ==
    ASSUME CacheInv, UNCHANGED caches, UNCHANGED anims, UNCHANGED lamps,
           encoder_bank' = encoder_bank, OwnLamps' => OwnLamps
    PROVE  CacheInv'
<1>1. \A e \in Encoders : Truthful(e) => Truthful(e)'
  BY DEF Truthful, Value, Color, caches, anims, lamps
<1>2. QED BY <1>1 DEF CacheInv

\* A call that draws one encoder makes true what it writes into the caches.
LEMMA DrawingIsTrue ==
    ASSUME TypeOK, CacheInv, DrawNormal, OwnLamps' => OwnLamps, encoder_bank' = encoder_bank
    PROVE  CacheInv'
<1> SUFFICES ASSUME OwnLamps', NEW e \in Encoders PROVE Truthful(e)'
  BY DEF CacheInv
<1>1. Truthful(e)
  BY DEF CacheInv
<1>2. idx \in Encoders /\ DOMAIN ring = Encoders /\ DOMAIN rgb = Encoders
      /\ CachesType /\ AnimsType
  BY DEF TypeOK, DrawingType
<1> DEFINE v == indicator_value_buffer[encoder_bank][idx]
           c == switch_color_buffer[encoder_bank][idx]
           blink == encoder_animation_buffer[encoder_bank][idx]
           blinkRgb == switch_animation_buffer[encoder_bank][idx]
<1>3. /\ ring'[e] = IF e = idx THEN RingPicture(v, blink) ELSE ring[e]
      /\ rgb'[e] = IF e = idx THEN RgbPicture(c, blinkRgb) ELSE rgb[e]
      /\ prevIndicatorValue'[e] = IF e = idx THEN v ELSE prevIndicatorValue[e]
      /\ prevSwitchColorValue'[e] = IF e = idx THEN c ELSE prevSwitchColorValue[e]
      /\ prevEncoderAnimationValue'[e] = IF e = idx THEN blink
                                         ELSE prevEncoderAnimationValue[e]
      /\ prevSwAnimationValue'[e] = IF e = idx THEN blinkRgb ELSE prevSwAnimationValue[e]
  BY <1>2 DEF DrawNormal, CachesType, AnimsType
<1> HIDE DEF v, c, blink, blinkRgb
<1>4. CASE e = idx
  <2>1. v # Nowhere /\ ~blink => RingPicture(v, blink) = Value(encoder_bank, v)
    BY <1>1, <1>4 DEF RingPicture, Truthful
  <2>2. c # Nowhere /\ ~blinkRgb => RgbPicture(c, blinkRgb) = Color(encoder_bank, c)
    BY <1>1, <1>4 DEF RgbPicture, Truthful
  <2>3. QED BY <1>3, <1>4, <2>1, <2>2 DEF Truthful, Value, Color
<1>5. CASE e # idx
  BY <1>1, <1>3, <1>5 DEF Truthful, Value, Color
<1>6. QED BY <1>4, <1>5

\* No part of a pass, whatever it paints, leaves the caches with a lie.
LEMMA NextCache == TypeOK /\ CacheInv /\ [Next]_vars => CacheInv'
<1> SUFFICES ASSUME TypeOK, CacheInv, [Next]_vars PROVE CacheInv'
  OBVIOUS
<1> DEFINE Same == /\ UNCHANGED caches /\ UNCHANGED anims /\ UNCHANGED lamps
                   /\ encoder_bank' = encoder_bank /\ (OwnLamps' => OwnLamps)
           Foreign == ~OwnLamps'
<1> USE DEF modes, OwnLamps
<1>0. Same \/ Foreign \/ Forget => CacheInv'
  BY ForgetIsTrue, SameIsTrue DEF CacheInv
<1>1. CASE UNCHANGED vars
  <2>1. Same
    BY <1>1 DEF vars
  <2>2. QED BY <1>0, <2>1
<1>2. CASE EncoderStep
  <2>1. CASE FallAsleep
    BY <1>0, <2>1 DEF FallAsleep
  <2>2. CASE NoInput
    BY <1>0, <2>2 DEF NoInput, EncoderPart
  <2>3. ASSUME NEW e \in Encoders, PressBank(e) PROVE Forget
    BY <2>3 DEF PressBank, change_encoder_bank
  <2>4. ASSUME NEW e \in Encoders, PressPage(e) PROVE Foreign
    BY <2>4 DEF PressPage
  <2>5. ASSUME NEW e \in Touched, NEW v \in Levels, Turn(e, v) \/ Press(e, v) PROVE Forget
    BY <2>5 DEF Turn, Press, reset_idle_timer, refresh_display, change_encoder_bank
  <2> HIDE DEF Foreign
  <2>6. QED BY <1>0, <1>2, <2>1, <2>2, <2>3, <2>4, <2>5 DEF EncoderStep
<1>3. CASE DrawStep
  <2>1. CASE update_encoder_display
    <3>1. CASE is_active
      BY <1>0, <2>1, <3>1 DEF update_encoder_display, DrawPart
    <3>2. CASE ~is_active
      <4>1. DrawNormal /\ (OwnLamps' => OwnLamps) /\ encoder_bank' = encoder_bank
        BY <2>1, <3>2 DEF update_encoder_display, DrawPart
      <4>2. QED BY <4>1, DrawingIsTrue
    <3>3. QED BY <3>1, <3>2
  <2>2. CASE NoDrawing
    BY <1>0, <2>2 DEF NoDrawing, DrawPart
  <2>3. CASE sleep_frame
    BY <1>0, <2>3 DEF sleep_frame, DrawPart
  <2>4. CASE run_shift_mode
    BY <1>0, <2>4 DEF run_shift_mode, DrawPart
  <2>5. QED BY <1>3, <2>1, <2>2, <2>3, <2>4 DEF DrawStep
<1>4. CASE SideStep
  <2>1. CASE NoSwitch
    <3>1. CASE "select" \in held /\ "combo" \notin held
      BY <1>0, <2>1, <3>1 DEF NoSwitch
    <3>2. CASE ~("select" \in held /\ "combo" \notin held)
      <4>1. UNCHANGED lamps
        BY <2>1, <3>2 DEF NoSwitch, Paint, lamps
      <4>2. QED BY <1>0, <2>1, <4>1 DEF NoSwitch, SidePart
    <3>3. QED BY <3>1, <3>2
  <2>2. ASSUME NEW s \in SideSwitches, PassedOver(s) PROVE Same
    BY <2>2 DEF PassedOver, Edge, SidePart, SideSwitches
  <2>3. ASSUME NEW s \in SideSwitches, WakeOnly(s) PROVE Forget
    BY <2>3 DEF WakeOnly, reset_idle_timer, refresh_display, change_encoder_bank
  <2>4. CASE PageSwitch \/ SelectSwitch \/ ComboDown \/ ComboUp
    <3>1. Forget
      BY <2>4 DEF PageSwitch, SelectSwitch, ComboDown, ComboUp, reset_idle_timer,
                  refresh_display, change_encoder_bank
    <3>2. QED BY <1>0, <3>1
  <2>5. ASSUME NEW b \in Banks, BankSwitch(b) PROVE Forget
    BY <2>5 DEF BankSwitch, change_encoder_bank
  <2> HIDE DEF Same
  <2>6. QED BY <1>0, <1>4, <2>1, <2>2, <2>3, <2>4, <2>5 DEF SideStep
<1>5. CASE UsbStep
  <2>1. CASE NoMessage
    BY <1>0, <2>1 DEF NoMessage, UsbPart
  <2>2. ASSUME NEW b \in Banks, NEW e \in Touched, NEW v \in Levels, ReceiveFeedback(b, e, v)
        PROVE  Same
    BY <2>2 DEF ReceiveFeedback, Message, UsbPart
  <2>3. ASSUME NEW b \in Banks, ReceiveBank(b) PROVE Forget
    BY <2>3 DEF ReceiveBank, change_encoder_bank
  <2>4. ASSUME NEW on \in BOOLEAN, ReceiveNative(on) PROVE Same \/ Forget
    BY <2>4 DEF ReceiveNative, SetActive, Message, UsbPart, refresh_display,
                change_encoder_bank
  <2>5. ASSUME NEW table \in Tables, NEW i \in Touched \cup {NumEncoders},
               NEW level \in Levels, NEW more \in BOOLEAN,
               ReceivePart(table, i, level, more)
        PROVE  Foreign
    BY <2>5 DEF ReceivePart
  <2>6. ASSUME NEW e \in Touched, NEW v \in Levels, ReceiveNativeValue(e, v) PROVE Foreign
    BY <2>6 DEF ReceiveNativeValue
  <2>7. CASE ReceiveSettings
    <3>1. Forget
      BY <2>7 DEF ReceiveSettings, reset_idle_timer, refresh_display, change_encoder_bank
    <3>2. QED BY <1>0, <3>1
  <2>8. ASSUME NEW sparkled \in SUBSET Encoders, Reconnect(sparkled) PROVE Forget
    BY <2>8 DEF Reconnect, refresh_display, change_encoder_bank
  <2> HIDE DEF Same, Foreign
  <2>9. QED BY <1>0, <1>5, <2>1, <2>2, <2>3, <2>4, <2>5, <2>6, <2>7, <2>8 DEF UsbStep
<1>6. QED BY <1>1, <1>2, <1>3, <1>4, <1>5 DEF Next

-----------------------------------------------------------------------------
\* Every variable keeps its type: the indices stay within the encoders, the tables of
\* native mode within their levels.
THEOREM TypeCorrect == Spec => []TypeOK
<1>1. Init => TypeOK
  BY InitType
<1>2. TypeOK /\ [Next]_vars => TypeOK'
  BY NextType
<1>3. QED BY <1>1, <1>2, PTL DEF Spec

\* The caches never lie about a lamp of the encoders' own: no shift page, overlay,
\* flash, sleep, native mode, animation or new connection makes the main loop skip a
\* picture that is not there (encoders.c:432-520).
THEOREM CachesAreTrue == Spec => []CacheTellsTruth
<1>1. Init => CacheInv
  BY DEF Init, CacheInv, Truthful, All
<1>2. TypeOK /\ CacheInv /\ [Next]_vars => CacheInv'
  BY NextCache
<1>3. CacheInv => CacheTellsTruth
  BY DEF CacheInv, OwnLamps, Truthful, CacheTellsTruth, Undisturbed
<1>4. QED BY <1>1, <1>2, <1>3, TypeCorrect, PTL DEF Spec
=============================================================================
