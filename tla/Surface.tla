------------------------------ MODULE Surface -------------------------------
(***************************************************************************)
(* Everything that is pressed, and the host.  The main loop polls the      *)
(* encoder switches and then the side switches, handling one switch after  *)
(* the other, and last the packets the host has sent (main.c, encoders.c,  *)
(* side_switch.c).  The same switch means different things from bank to    *)
(* bank, on the shift pages, under the bank select overlay and in native   *)
(* mode, and any of these can change between its press and its release.    *)
(* Mappings are distinct and off the system channel and channel 0 (native  *)
(* mode's), except for the encoder switches that select a bank, which send *)
(* 127.  The values of the encoders, the switches that reset or shift them *)
(* and what the displays show are not part of this module.                 *)
(***************************************************************************)
EXTENDS Integers, Sequences, FiniteSets

CONSTANTS
    NUM_BANKS, NumEncoders, NumSides,
    NATIVE_MODE_TOGGLE_COMBO,   \* the two side switches that toggle native mode
    Configs,        \* the settings to check: records [sw_action, side_is_banked,
                    \* enc_action, enc_bank], and what is used under them: records
                    \* [encoders, sides, messages, reconnects, edges], the last the
                    \* bound on switches of a kind that change between two polls
    MaxInbox        \* bound: packets sent and not yet read

Banks    == 0..(NUM_BANKS - 1)
Encoders == 0..(NumEncoders - 1)
Sides    == 0..(NumSides - 1)
Pages    == {"shift1", "shift2"}
NoBank   == -1      \* of an encoder switch that is no bank switch

SurfaceAssumption ==
    /\ NUM_BANKS \in Nat \ {0} /\ NumEncoders \in Nat \ {0} /\ NumSides \in Nat \ {0}
    /\ NATIVE_MODE_TOGGLE_COMBO \subseteq Sides
    /\ NATIVE_MODE_TOGGLE_COMBO # {}
    /\ MaxInbox \in Nat
    /\ \A c \in Configs : c.uses.encoders \subseteq Encoders /\ c.uses.sides \subseteq Sides

ASSUME SurfaceAssumption

VARIABLES
    cfg,
    encoder_bank, mode, is_active, g_bank_select_active,
    enc_switch_midi_state, switch_color_overide, switch_color_buffer,
    side_switch_toggle_state, shift_mode_switch_state, shift_mode_midi_override,
    g_enc_switch_state, g_enc_switch_down, g_enc_switch_up,
    g_side_switch_state, g_side_switch_down, g_side_switch_up,
    pc,         \* where the main loop is
    inbox,      \* packets from the host
    host,       \* what the host believes: the last message it got or sent
    crossed,    \* history: topics on which messages have crossed
    swallowed,  \* history: side switches whose last release had no effect
    unlit       \* history: lights put out while their switch was on

modes    == <<encoder_bank, mode, is_active, g_bank_select_active>>
switches == <<enc_switch_midi_state, switch_color_overide, switch_color_buffer, unlit>>
pages    == <<shift_mode_switch_state, shift_mode_midi_override>>
polled   == <<g_enc_switch_state, g_enc_switch_down, g_enc_switch_up>>
sides    == <<g_side_switch_state, g_side_switch_down, g_side_switch_up>>
vars     == <<cfg, modes, switches, pages, side_switch_toggle_state, polled, sides,
              pc, inbox, host, crossed, swallowed>>

-----------------------------------------------------------------------------
\* The host.  A topic is what a message is about.
SwitchTopics == {"switch"} \X Banks \X Encoders
PageTopics   == {"page"} \X Pages \X Encoders
SideTopics   == {"side"} \X Banks \X Sides
BankTopic    == <<"bank">>
Topics == SwitchTopics \cup PageTopics \cup SideTopics \cup {BankTopic}

\* What the device acts on: a message on a topic of its own choosing, native mode,
\* settings.  It takes no message about a side switch.
Taken == SwitchTopics \cup PageTopics \cup {BankTopic, <<"native">>, <<"settings">>}

ASSUME ConfigsAssumption ==
    \A c \in Configs :
        /\ c.enc_bank \in [Banks \X Encoders -> Banks \cup {NoBank}]
        /\ c.side_is_banked \in BOOLEAN
        /\ \A m \in c.uses.messages :
              /\ m.topic \in Taken
              /\ m.topic = BankTopic => m.value \in Banks

InFlight(t) == \E k \in 1..Len(inbox) : inbox[k].topic = t

\* The device sends v on topic t.
Send(t, v) ==
    /\ host' = [host EXCEPT ![t] = v]
    /\ crossed' = IF InFlight(t) THEN crossed \cup {t} ELSE crossed \ {t}

\* Nothing sent, or native mode's reports, which are no topic.
Quiet == UNCHANGED <<host, crossed>>

\* The host sends m.  Native mode is not a topic: the device does not announce it.
HostSend(m) ==
    /\ Len(inbox) < MaxInbox
    /\ inbox' = Append(inbox, m)
    /\ IF m.topic \in Topics
       THEN /\ host' = [host EXCEPT ![m.topic] = IF m.topic = BankTopic THEN m.value
                                                 ELSE m.value # 0]
            /\ crossed' = crossed \ {m.topic}
       ELSE UNCHANGED <<host, crossed>>
    /\ UNCHANGED <<cfg, modes, switches, pages, side_switch_toggle_state, polled,
                   sides, pc, swallowed>>

-----------------------------------------------------------------------------
\* The loops over the switches go from edge to edge: a switch that did not
\* change is skipped (SW_HELD only animates the overlay).
First(edges) == CHOOSE s \in edges : \A t \in edges : s <= t

Edges(before, now) == (before \ now) \cup (now \ before)

\* The encoder switches.
BeginEncoders(pressed) ==
    /\ pc = "idle"
    /\ Cardinality(Edges(g_enc_switch_state, pressed)) <= cfg.uses.edges
    /\ pc' = "encoders"
    /\ g_enc_switch_state' = pressed
    /\ g_enc_switch_down' = pressed \ g_enc_switch_state
    /\ g_enc_switch_up' = g_enc_switch_state \ pressed
    /\ UNCHANGED <<cfg, modes, switches, pages, side_switch_toggle_state, sides,
                   inbox, host, crossed, swallowed>>

EncoderEdges == g_enc_switch_down \cup g_enc_switch_up
i            == First(EncoderEdges)     \* the encoder the loop is at
Pressed      == i \in g_enc_switch_down

NextEncoder ==
    /\ pc = "encoders" /\ EncoderEdges # {}
    /\ g_enc_switch_down' = g_enc_switch_down \ {i}
    /\ g_enc_switch_up' = g_enc_switch_up \ {i}
    /\ UNCHANGED <<cfg, pc, mode, is_active, g_bank_select_active, g_enc_switch_state,
                   side_switch_toggle_state, sides, inbox, swallowed>>

\* The color of a switch follows its state unless the host has set it.
Color(b, e, on) ==
    IF switch_color_overide[<<b, e>>] THEN switch_color_buffer[<<b, e>>]
    ELSE IF on THEN "active" ELSE "inactive"

SetSwitch(b, e, on) ==
    /\ enc_switch_midi_state' = [enc_switch_midi_state EXCEPT ![<<b, e>>] = on]
    /\ switch_color_buffer' = [switch_color_buffer EXCEPT ![<<b, e>>] = Color(b, e, on)]
    /\ unlit' = unlit \ {<<b, e>>}
    /\ UNCHANGED switch_color_overide

\* Mutant: the light of the switch that changed the bank stays on.
SendSwitchLit(b, e, on) ==
    LET target == cfg.enc_bank[<<b, e>>] IN
    IF target = NoBank \/ ~on
    THEN /\ SetSwitch(b, e, on)
         /\ IF target = NoBank THEN Send(<<"switch", b, e>>, on) ELSE Quiet
         /\ UNCHANGED encoder_bank
    ELSE /\ enc_switch_midi_state' = [enc_switch_midi_state EXCEPT ![<<b, e>>] = FALSE]
         /\ switch_color_buffer' =
              [switch_color_buffer EXCEPT ![<<b, e>>] = Color(b, e, TRUE)]
         /\ UNCHANGED <<switch_color_overide, unlit>>
         /\ Send(BankTopic, target)
         /\ encoder_bank' = target

\* send_element_midi(SWITCH): a switch mapped to a bank of the system channel
\* changes the bank when it goes on, and is off at once.
SendSwitch(b, e, on) ==
    LET target == cfg.enc_bank[<<b, e>>] IN
    /\ SetSwitch(b, e, on /\ target = NoBank)
    /\ IF target = NoBank THEN Send(<<"switch", b, e>>, on)
       ELSE IF on THEN Send(BankTopic, target)
       ELSE Quiet
    /\ encoder_bank' = IF on /\ target # NoBank THEN target ELSE encoder_bank

\* The bank select overlay consumes every edge of the encoder switches.
OverlaySwitch ==
    /\ mode = "normal" /\ g_bank_select_active
    /\ NextEncoder
    /\ IF Pressed
       THEN encoder_bank' = i % NUM_BANKS /\ Send(BankTopic, i % NUM_BANKS)
       ELSE UNCHANGED encoder_bank /\ Quiet
    /\ UNCHANGED <<switches, pages>>

\* Mutant: native mode consumes the message after the state has changed.
NativeSwitchLate ==
    /\ mode = "normal" /\ ~g_bank_select_active /\ is_active
    /\ NextEncoder
    /\ SetSwitch(encoder_bank, i, Pressed)
    /\ Quiet
    /\ UNCHANGED <<encoder_bank, pages>>

NativeSwitch ==
    /\ mode = "normal" /\ ~g_bank_select_active /\ is_active
    /\ NextEncoder
    /\ Quiet
    /\ UNCHANGED <<encoder_bank, switches, pages>>

\* CC_HOLD, NOTE_HOLD
HoldSwitch ==
    /\ mode = "normal" /\ ~g_bank_select_active /\ ~is_active
    /\ NextEncoder
    /\ cfg.enc_action[<<encoder_bank, i>>] = "HOLD"
    /\ SendSwitch(encoder_bank, i, Pressed)
    /\ UNCHANGED pages

\* CC_TOGGLE, NOTE_TOGGLE
ToggleSwitch ==
    /\ mode = "normal" /\ ~g_bank_select_active /\ ~is_active
    /\ NextEncoder
    /\ cfg.enc_action[<<encoder_bank, i>>] = "TOGGLE"
    /\ IF Pressed
       THEN SendSwitch(encoder_bank, i, ~enc_switch_midi_state[<<encoder_bank, i>>])
       ELSE Quiet /\ UNCHANGED <<encoder_bank, switches>>
    /\ UNCHANGED pages

\* Mutant: the state is kept for the first page only.
PageSwitchFirst ==
    /\ mode \in Pages
    /\ NextEncoder
    /\ Send(<<"page", mode, i>>, Pressed)
    /\ shift_mode_switch_state' =
         IF i \in shift_mode_midi_override["shift1"] THEN shift_mode_switch_state
         ELSE [shift_mode_switch_state EXCEPT
                 !["shift1"] = IF Pressed THEN @ \cup {i} ELSE @ \ {i}]
    /\ UNCHANGED <<encoder_bank, switches, shift_mode_midi_override>>

\* run_shift_mode
PageSwitch ==
    /\ mode \in Pages
    /\ NextEncoder
    /\ Send(<<"page", mode, i>>, Pressed)
    /\ shift_mode_switch_state' =
         IF i \in shift_mode_midi_override[mode] THEN shift_mode_switch_state
         ELSE [shift_mode_switch_state EXCEPT
                 ![mode] = IF Pressed THEN @ \cup {i} ELSE @ \ {i}]
    /\ UNCHANGED <<encoder_bank, switches, shift_mode_midi_override>>

-----------------------------------------------------------------------------
\* The side switches.  While the combination is held no other switch is looked
\* at; native mode toggles when the combination is completed.
Combo(state) == NATIVE_MODE_TOGGLE_COMBO \subseteq state

BeginSides(pressed) ==
    /\ pc = "encoders" /\ EncoderEdges = {}
    /\ Cardinality(Edges(g_side_switch_state, pressed)) <= cfg.uses.edges
    /\ g_side_switch_state' = pressed
    /\ IF Combo(pressed)
       THEN /\ pc' = "usb"
            /\ g_side_switch_down' = {} /\ g_side_switch_up' = {}
            /\ is_active' = IF Combo(g_side_switch_state) THEN is_active ELSE ~is_active
            /\ swallowed' = swallowed \cup (g_side_switch_state \ pressed)
       ELSE /\ pc' = "sides"
            /\ g_side_switch_down' = pressed \ g_side_switch_state
            /\ g_side_switch_up' = g_side_switch_state \ pressed
            /\ UNCHANGED <<is_active, swallowed>>
    /\ UNCHANGED <<cfg, encoder_bank, mode, g_bank_select_active, switches, pages,
                   side_switch_toggle_state, polled, inbox, host, crossed>>

SideEdges  == g_side_switch_down \cup g_side_switch_up
switch_num == First(SideEdges)          \* the side switch the loop is at
Down       == switch_num \in g_side_switch_down
Action     == cfg.sw_action[switch_num]

NextSide ==
    /\ pc = "sides" /\ SideEdges # {}
    /\ g_side_switch_down' = g_side_switch_down \ {switch_num}
    /\ g_side_switch_up' = g_side_switch_up \ {switch_num}
    /\ UNCHANGED <<cfg, pc, is_active, switches, pages, polled, g_side_switch_state,
                   inbox>>

NativeSide ==
    /\ is_active
    /\ NextSide
    /\ Quiet
    /\ swallowed' = IF Down THEN swallowed ELSE swallowed \cup {switch_num}
    /\ UNCHANGED <<encoder_bank, mode, g_bank_select_active, side_switch_toggle_state>>

\* The bank a side switch's message belongs to.
SideBank == IF cfg.side_is_banked THEN encoder_bank ELSE 0

\* CC_HOLD_SS, NOTE_HOLD_SS
SideHold ==
    /\ Action = "HOLD"
    /\ Send(<<"side", SideBank, switch_num>>, Down)
    /\ UNCHANGED <<encoder_bank, mode, g_bank_select_active, side_switch_toggle_state>>

\* CC_TOGGLE_SS, NOTE_TOGGLE_SS
SideToggle ==
    /\ Action = "TOGGLE"
    /\ IF Down
       THEN /\ side_switch_toggle_state' =
                 [side_switch_toggle_state EXCEPT
                    ![SideBank] = Edges(@, {switch_num})]
            /\ Send(<<"side", SideBank, switch_num>>,
                    switch_num \in side_switch_toggle_state'[SideBank])
       ELSE Quiet /\ UNCHANGED side_switch_toggle_state
    /\ UNCHANGED <<encoder_bank, mode, g_bank_select_active>>

\* SHIFT_PAGE_1, SHIFT_PAGE_2 and their TOGGLE forms, which act when pressed.
PageOf(action) == IF action \in {"SHIFT_PAGE_1", "SHIFT_PAGE_1_TOGGLE"}
                  THEN "shift1" ELSE "shift2"

ShiftPage ==
    /\ Action \in {"SHIFT_PAGE_1", "SHIFT_PAGE_2"}
    /\ mode' = IF Down THEN PageOf(Action) ELSE "normal"
    /\ UNCHANGED <<encoder_bank, g_bank_select_active, side_switch_toggle_state>>
    /\ Quiet

ShiftPageToggle ==
    /\ Action \in {"SHIFT_PAGE_1_TOGGLE", "SHIFT_PAGE_2_TOGGLE"}
    /\ mode' = IF ~Down THEN mode
               ELSE IF mode = PageOf(Action) THEN "normal" ELSE PageOf(Action)
    /\ UNCHANGED <<encoder_bank, g_bank_select_active, side_switch_toggle_state>>
    /\ Quiet

\* Mutant: the last bank is not checked for.
NewBankPast ==
    CASE Action = "GLOBAL_BANK_UP"   -> encoder_bank + 1
      [] Action = "GLOBAL_BANK_DOWN" -> IF encoder_bank > 0
                                        THEN encoder_bank - 1 ELSE NoBank
      [] Action = "CYCLE_BANK"       -> (encoder_bank + 1) % NUM_BANKS
      [] Action = "GLOBAL_BANK_1"    -> 0
      [] OTHER                       -> NoBank

\* The bank a GLOBAL_BANK_UP, _DOWN, _n or CYCLE_BANK switch leads to.
NewBank ==
    CASE Action = "GLOBAL_BANK_UP"   -> IF encoder_bank < NUM_BANKS - 1
                                        THEN encoder_bank + 1 ELSE NoBank
      [] Action = "GLOBAL_BANK_DOWN" -> IF encoder_bank > 0
                                        THEN encoder_bank - 1 ELSE NoBank
      [] Action = "CYCLE_BANK"       -> (encoder_bank + 1) % NUM_BANKS
      [] Action = "GLOBAL_BANK_1"    -> 0
      [] OTHER                       -> NoBank

\* Mutant: the change is announced before the bank is known to exist.
BankChangeEager ==
    /\ Action \in {"GLOBAL_BANK_UP", "GLOBAL_BANK_DOWN", "CYCLE_BANK", "GLOBAL_BANK_1"}
    /\ IF Down
       THEN /\ encoder_bank' = IF NewBank = NoBank THEN encoder_bank ELSE NewBank
            /\ Send(BankTopic, (encoder_bank + 1) % NUM_BANKS)
       ELSE UNCHANGED encoder_bank /\ Quiet
    /\ UNCHANGED <<mode, g_bank_select_active, side_switch_toggle_state>>

BankChange ==
    /\ Action \in {"GLOBAL_BANK_UP", "GLOBAL_BANK_DOWN", "CYCLE_BANK", "GLOBAL_BANK_1"}
    /\ IF Down /\ NewBank # NoBank
       THEN encoder_bank' = NewBank /\ Send(BankTopic, NewBank)
       ELSE UNCHANGED encoder_bank /\ Quiet
    /\ UNCHANGED <<mode, g_bank_select_active, side_switch_toggle_state>>

\* Mutant: the overlay is left only from normal operation.
BankSelectNormal ==
    /\ Action = "BANK_SELECT"
    /\ g_bank_select_active' = IF mode = "normal" THEN Down ELSE g_bank_select_active
    /\ UNCHANGED <<encoder_bank, mode, side_switch_toggle_state>>
    /\ Quiet

BankSelect ==
    /\ Action = "BANK_SELECT"
    /\ g_bank_select_active' = Down
    /\ UNCHANGED <<encoder_bank, mode, side_switch_toggle_state>>
    /\ Quiet

\* do_side_switch_function for an edge outside native mode.
SideSwitch ==
    /\ ~is_active
    /\ NextSide
    /\ swallowed' = swallowed \ {switch_num}
    /\ \/ SideHold
       \/ SideToggle
       \/ ShiftPage
       \/ ShiftPageToggle
       \/ BankChange
       \/ BankSelect

EndSides ==
    /\ pc = "sides" /\ SideEdges = {}
    /\ pc' = "usb"
    /\ UNCHANGED <<cfg, modes, switches, pages, side_switch_toggle_state, polled,
                   sides, inbox, host, crossed, swallowed>>

-----------------------------------------------------------------------------
\* The packets of the host.
Receive ==
    /\ pc = "usb" /\ inbox # <<>>
    /\ inbox' = Tail(inbox)
    /\ UNCHANGED <<cfg, mode, g_bank_select_active, side_switch_toggle_state, polled,
                   sides, pc, host, crossed, swallowed>>

\* A note-on or control change 127 for a bank on the system channel.
ReceiveBank ==
    /\ Receive /\ Head(inbox).topic = BankTopic
    /\ encoder_bank' = Head(inbox).value
    /\ UNCHANGED <<is_active, switches, pages>>

\* process_sw_rgb_update and process_sw_toggle_update
Feedback(b, e, v) ==
    /\ switch_color_overide' = [switch_color_overide EXCEPT ![<<b, e>>] = (v # 0)]
    /\ switch_color_buffer' =
         [switch_color_buffer EXCEPT ![<<b, e>>] =
            IF v = 0 THEN "inactive" ELSE IF v < 126 THEN "set" ELSE "active"]
    /\ enc_switch_midi_state' = [enc_switch_midi_state EXCEPT ![<<b, e>>] = (v # 0)]
    /\ unlit' = unlit \ {<<b, e>>}

ReceiveSwitch ==
    /\ Receive /\ Head(inbox).topic \in SwitchTopics
    /\ LET t == Head(inbox).topic IN Feedback(t[2], t[3], Head(inbox).value)
    /\ UNCHANGED <<encoder_bank, is_active, pages>>

\* A note on the system channel takes a switch of a shift page over for good.
ReceivePage ==
    /\ Receive /\ Head(inbox).topic \in PageTopics
    /\ LET page == Head(inbox).topic[2]
           e    == Head(inbox).topic[3]
       IN /\ shift_mode_midi_override' = [shift_mode_midi_override EXCEPT ![page] = @ \cup {e}]
          /\ shift_mode_switch_state' =
               [shift_mode_switch_state EXCEPT
                  ![page] = IF Head(inbox).value # 0 THEN @ \cup {e} ELSE @ \ {e}]
    /\ UNCHANGED <<encoder_bank, is_active, switches>>

\* The SysEx command that sets native mode.
ReceiveNative ==
    /\ Receive /\ Head(inbox).topic = <<"native">>
    /\ is_active' = (Head(inbox).value = 1)
    /\ UNCHANGED <<encoder_bank, switches, pages>>

\* PushConfig with the settings in force: encoders_init resets the colors of all
\* switches and leaves their states and the marks of the host's colors alone.
ReceiveSettings ==
    /\ Receive /\ Head(inbox).topic = <<"settings">>
    /\ switch_color_buffer' = [x \in Banks \X Encoders |-> "inactive"]
    /\ unlit' = {x \in Banks \X Encoders : enc_switch_midi_state[x]}
    /\ UNCHANGED <<encoder_bank, is_active, enc_switch_midi_state, switch_color_overide,
                   pages>>

\* EVENT_USB_Device_ConfigurationChanged, when the host configures the device
\* again: normal mode, whatever is held.
UsbConfigured ==
    /\ pc = "usb" /\ cfg.uses.reconnects
    /\ mode' = "normal"
    /\ UNCHANGED <<cfg, encoder_bank, is_active, g_bank_select_active, switches, pages,
                   side_switch_toggle_state, polled, sides, pc, inbox, host, crossed,
                   swallowed>>

EndReceive ==
    /\ pc = "usb"
    /\ pc' = "idle"
    /\ UNCHANGED <<cfg, modes, switches, pages, side_switch_toggle_state, polled,
                   sides, inbox, host, crossed, swallowed>>

-----------------------------------------------------------------------------
Init ==
    /\ cfg \in Configs
    /\ encoder_bank = 0 /\ mode = "normal" /\ is_active = FALSE
    /\ g_bank_select_active = FALSE
    /\ enc_switch_midi_state = [x \in Banks \X Encoders |-> FALSE]
    /\ switch_color_overide = [x \in Banks \X Encoders |-> FALSE]
    /\ switch_color_buffer = [x \in Banks \X Encoders |-> "inactive"]
    /\ side_switch_toggle_state = [b \in Banks |-> {}]
    /\ shift_mode_switch_state = [p \in Pages |-> {}]
    /\ shift_mode_midi_override = [p \in Pages |-> {}]
    /\ g_enc_switch_state = {} /\ g_enc_switch_down = {} /\ g_enc_switch_up = {}
    /\ g_side_switch_state = {} /\ g_side_switch_down = {} /\ g_side_switch_up = {}
    /\ pc = "idle"
    /\ inbox = <<>>
    /\ host = [t \in Topics |-> IF t = BankTopic THEN 0 ELSE FALSE]
    /\ crossed = {} /\ swallowed = {} /\ unlit = {}

EncoderStep ==
    \/ OverlaySwitch
    \/ NativeSwitch
    \/ HoldSwitch
    \/ ToggleSwitch
    \/ PageSwitch

SideStep ==
    \/ NativeSide
    \/ SideSwitch
    \/ EndSides

UsbStep ==
    \/ ReceiveBank
    \/ ReceiveSwitch
    \/ ReceivePage
    \/ ReceiveNative
    \/ ReceiveSettings
    \/ UsbConfigured
    \/ EndReceive

Next ==
    \/ \E m \in cfg.uses.messages : HostSend(m)
    \/ \E pressed \in SUBSET cfg.uses.encoders : BeginEncoders(pressed)
    \/ EncoderStep
    \/ \E pressed \in SUBSET cfg.uses.sides : BeginSides(pressed)
    \/ SideStep
    \/ UsbStep

Spec == Init /\ [][Next]_vars

-----------------------------------------------------------------------------
ModesType ==
    /\ encoder_bank \in Banks /\ mode \in Pages \cup {"normal"}
    /\ is_active \in BOOLEAN /\ g_bank_select_active \in BOOLEAN

SwitchesType ==
    /\ enc_switch_midi_state \in [Banks \X Encoders -> BOOLEAN]
    /\ switch_color_overide \in [Banks \X Encoders -> BOOLEAN]
    /\ switch_color_buffer \in [Banks \X Encoders -> {"active", "inactive", "set"}]
    /\ unlit \subseteq Banks \X Encoders

TogglesType ==
    /\ side_switch_toggle_state \in [Banks -> SUBSET Sides]
    /\ shift_mode_switch_state \in [Pages -> SUBSET Encoders]
    /\ shift_mode_midi_override \in [Pages -> SUBSET Encoders]

PolledType ==
    /\ g_enc_switch_state \in SUBSET Encoders
    /\ g_enc_switch_down \in SUBSET Encoders /\ g_enc_switch_up \in SUBSET Encoders
    /\ g_side_switch_state \in SUBSET Sides
    /\ g_side_switch_down \in SUBSET Sides /\ g_side_switch_up \in SUBSET Sides
    /\ swallowed \in SUBSET Sides
    /\ pc \in {"idle", "encoders", "sides", "usb"}

HostType ==
    /\ inbox \in Seq(cfg.uses.messages) /\ Len(inbox) <= MaxInbox
    /\ host = [t \in Topics |-> host[t]]
    /\ host[BankTopic] \in Banks
    /\ \A t \in Topics \ {BankTopic} : host[t] \in BOOLEAN
    /\ crossed \in SUBSET Topics

\* Every variable holds a value of its kind: the bank is one there is, the state
\* of a switch is on or off in every bank.
TypeOK ==
    cfg \in Configs /\ ModesType /\ SwitchesType /\ TogglesType /\ PolledType /\ HostType

\* The host and the device agree on a topic unless a message about it is under
\* way or two have crossed.
Settled(t) == ~InFlight(t) /\ t \notin crossed

\* Whichever way the bank changed (side switch, overlay, an encoder switch mapped
\* to a bank, the host itself), host and device agree on the current bank; after
\* messages have crossed, the next change puts it right.
HostKnowsBank == Settled(BankTopic) => host[BankTopic] = encoder_bank

\* The state the device keeps for the switch of an encoder is what the host last
\* heard or said of it, in every bank, however banks, pages and native mode come
\* between a press and its release: what is stuck, is stuck on both sides.
HostKnowsSwitches ==
    \A b \in Banks, e \in Encoders :
        cfg.enc_bank[<<b, e>>] = NoBank /\ Settled(<<"switch", b, e>>)
           => host[<<"switch", b, e>>] = enc_switch_midi_state[<<b, e>>]

\* The same of a side switch that toggles, per bank, and of the switches on the
\* shift pages the host has not taken over.
HostKnowsPages ==
    /\ \A p \in Pages, e \in Encoders :
          Settled(<<"page", p, e>>) /\ e \notin shift_mode_midi_override[p]
             => host[<<"page", p, e>>] = (e \in shift_mode_switch_state[p])
    /\ \A b \in Banks, s \in Sides :
          cfg.sw_action[s] = "TOGGLE"
             => host[<<"side", b, s>>] = (s \in side_switch_toggle_state[b])

\* The light of an encoder switch shows its state unless the host has set it
\* (encoders.c:1262 "leads to hung 'on' indicators leds if you don't..."), or
\* settings pushed meanwhile have put it out.
LedFollowsSwitch ==
    \A b \in Banks, e \in Encoders :
        ~switch_color_overide[<<b, e>>] /\ <<b, e>> \notin unlit
           => switch_color_buffer[<<b, e>>] =
                IF enc_switch_midi_state[<<b, e>>] THEN "active" ELSE "inactive"

HeldBy(action) == \E s \in g_side_switch_state \cup swallowed : cfg.sw_action[s] = action
Toggles(action) == \E s \in Sides : cfg.sw_action[s] = action

\* A momentary shift page or overlay, or an unbanked note or control change, is
\* on only while its switch is held, whatever other switches do meanwhile, save
\* for a release that native mode or the combination swallowed.
MomentaryModes ==
    pc = "idle" =>
        /\ mode = "shift1" => Toggles("SHIFT_PAGE_1_TOGGLE") \/ HeldBy("SHIFT_PAGE_1")
        /\ mode = "shift2" => Toggles("SHIFT_PAGE_2_TOGGLE") \/ HeldBy("SHIFT_PAGE_2")
        /\ g_bank_select_active => HeldBy("BANK_SELECT")
        /\ \A s \in Sides : cfg.sw_action[s] = "HOLD" /\ ~cfg.side_is_banked =>
              (host[<<"side", 0, s>>] => s \in g_side_switch_state \cup swallowed)

\* "deactivate native mode after use to return the device to normal operation"
\* (NativeMode.md:8): with native mode off, nothing held and no page toggled,
\* the device is not on a shift page and not selecting a bank.
ReturnsToNormal ==
    pc = "idle" /\ ~is_active /\ g_side_switch_state = {}
    /\ ~Toggles("SHIFT_PAGE_1_TOGGLE") /\ ~Toggles("SHIFT_PAGE_2_TOGGLE")
        => mode = "normal" /\ ~g_bank_select_active
=============================================================================
