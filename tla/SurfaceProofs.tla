---------------------------- MODULE SurfaceProofs ----------------------------
(***************************************************************************)
(* The surface with any number of banks, encoders and side switches, any   *)
(* settings and any messages of the host, in flight in any number: what    *)
(* the host believes is what the device holds, lights follow their         *)
(* switches, and what is momentary ends with its switch.                   *)
(***************************************************************************)
EXTENDS Surface, TLAPS, WellFoundedInduction

\* What the host believes once it has sent m.
ToldBy(m) == IF m.topic = BankTopic THEN m.value ELSE m.value # 0

\* The last message under way on a topic carries what the host believes, unless
\* the device has spoken since it was sent.
LastTold ==
    \A k \in 1..Len(inbox) :
        (/\ inbox[k].topic \in Topics
         /\ inbox[k].topic \notin crossed
         /\ \A j \in 1..Len(inbox) : j > k => inbox[j].topic # inbox[k].topic)
        => host[inbox[k].topic] = ToldBy(inbox[k])

\* The edges of the side switches are those of the state they came with, and the
\* loop over them leaves none.
EdgesOfState ==
    /\ g_side_switch_down \subseteq g_side_switch_state
    /\ g_side_switch_up \cap g_side_switch_state = {}
    /\ pc # "sides" => SideEdges = {}

\* Held, or released without the device having acted on it yet.
Holding == g_side_switch_state \cup swallowed \cup g_side_switch_up
HeldYet(action) == \E s \in Holding : cfg.sw_action[s] = action

\* What MomentaryModes says, wherever the loop is.
MomentaryInv ==
    /\ mode = "shift1" => Toggles("SHIFT_PAGE_1_TOGGLE") \/ HeldYet("SHIFT_PAGE_1")
    /\ mode = "shift2" => Toggles("SHIFT_PAGE_2_TOGGLE") \/ HeldYet("SHIFT_PAGE_2")
    /\ g_bank_select_active => HeldYet("BANK_SELECT")
    /\ \A s \in Sides : cfg.sw_action[s] = "HOLD" /\ ~cfg.side_is_banked =>
          (host[<<"side", 0, s>>] => s \in Holding)

-----------------------------------------------------------------------------
(* Indices and topics.                                                     *)

\* A loop that has an edge left is at one of them.
LEMMA FirstIsOne ==
    ASSUME NEW edges \in SUBSET Nat, edges # {}
    PROVE  First(edges) \in edges
<1> DEFINE R == OpToRel(<, Nat)
<1>1. IsWellFoundedOn(R, Nat)
  BY NatLessThanWellFounded
<1>2. \A x, y \in Nat : <<y, x>> \in R <=> y < x
  BY DEF OpToRel
<1> HIDE DEF R
<1>3. PICK x \in edges : \A y \in edges : ~(<<y, x>> \in R)
  BY <1>1, WFMin
<1>4. ASSUME NEW y \in edges
      PROVE  x <= y
  <2>1. x \in Nat /\ y \in Nat /\ ~(<<y, x>> \in R)
    BY <1>3
  <2>2. ~(y < x)
    BY <1>2, <2>1
  <2> QED
    BY <2>1, <2>2
<1> QED
  BY <1>4 DEF First

\* Each of the two loops, while it has edges left, is at one of them.
LEMMA LoopIsAtAnEdge ==
    ASSUME TypeOK
    PROVE  /\ EncoderEdges # {} => i \in Encoders
           /\ SideEdges # {} => switch_num \in Sides /\ switch_num \in SideEdges
<1>1. EncoderEdges \subseteq Encoders /\ SideEdges \subseteq Sides
  BY DEF TypeOK, PolledType, EncoderEdges, SideEdges
<1>2. Encoders \subseteq Nat /\ Sides \subseteq Nat
  BY DEF Encoders, Sides
<1>3. EncoderEdges # {} => i \in EncoderEdges
  BY <1>1, <1>2, FirstIsOne DEF i
<1>4. SideEdges # {} => switch_num \in SideEdges
  BY <1>1, <1>2, FirstIsOne DEF switch_num
<1> QED
  BY <1>1, <1>3, <1>4

\* Banks come round.
LEMMA BankTypes ==
    /\ 0 \in Banks /\ NoBank \notin Banks
    /\ \A n \in Nat : n % NUM_BANKS \in Banks
<1>1. NUM_BANKS \in Nat /\ NUM_BANKS > 0
  BY SurfaceAssumption DEF SurfaceAssumption
<1>2. 0 \in Banks /\ NoBank \notin Banks
  BY <1>1 DEF Banks, NoBank
<1>3. ASSUME NEW n \in Nat
      PROVE  n % NUM_BANKS \in Banks
  <2>1. n % NUM_BANKS \in Nat /\ n % NUM_BANKS < NUM_BANKS
    BY <1>1
  <2> QED
    BY <1>1, <2>1 DEF Banks
<1> QED
  BY <1>2, <1>3

\* Every message of the device is on a topic, and topics of two kinds differ.
LEMMA TopicTypes ==
    /\ BankTopic \in Topics
    /\ \A b \in Banks, e \in Encoders : <<"switch", b, e>> \in Topics \ {BankTopic}
    /\ \A p \in Pages, e \in Encoders : <<"page", p, e>> \in Topics \ {BankTopic}
    /\ \A b \in Banks, s \in Sides : <<"side", b, s>> \in Topics \ {BankTopic}
    /\ \A b, e, p, e2 : <<"switch", b, e>> # <<"page", p, e2>>
    /\ \A b, e, b2, s : <<"switch", b, e>> # <<"side", b2, s>>
    /\ \A p, e, b2, s : <<"page", p, e>> # <<"side", b2, s>>
  BY DEF Topics, SwitchTopics, PageTopics, SideTopics, BankTopic

\* A message under way is one the device takes.
LEMMA MessageTypes ==
    ASSUME cfg \in Configs, NEW m \in cfg.uses.messages
    PROVE  /\ m.topic \in Taken
           /\ m.topic = BankTopic => m.value \in Banks
           /\ \A b, s : m.topic # <<"side", b, s>>
<1>1. m.topic \in Taken /\ (m.topic = BankTopic => m.value \in Banks)
  BY ConfigsAssumption
<1>2. \A b, s : m.topic # <<"side", b, s>>
  BY <1>1 DEF Taken, SwitchTopics, PageTopics, BankTopic
<1> QED
  BY <1>1, <1>2

\* The first message under way is one the device takes.
LEMMA HeadTypes ==
    ASSUME TypeOK, inbox # <<>>
    PROVE  Head(inbox) \in cfg.uses.messages
  BY DEF TypeOK, HostType

-----------------------------------------------------------------------------
(* Type correctness, one group of variables after the other.               *)

\* What a group of variables keeps, keeps its type.
LEMMA SameKeepsType ==
    ASSUME TypeOK, UNCHANGED cfg
    PROVE  /\ cfg' \in Configs
           /\ UNCHANGED modes => ModesType'
           /\ UNCHANGED switches => SwitchesType'
           /\ UNCHANGED <<side_switch_toggle_state, pages>> => TogglesType'
           /\ UNCHANGED <<polled, sides, swallowed, pc>> => PolledType'
           /\ UNCHANGED <<inbox, host, crossed>> => HostType'
<1>1. cfg' \in Configs
  BY DEF TypeOK
<1>2. UNCHANGED modes => ModesType'
  BY DEF TypeOK, ModesType, modes
<1>3. UNCHANGED switches => SwitchesType'
  BY DEF TypeOK, SwitchesType, switches
<1>4. UNCHANGED <<side_switch_toggle_state, pages>> => TogglesType'
  BY DEF TypeOK, TogglesType, pages
<1>5. UNCHANGED <<polled, sides, swallowed, pc>> => PolledType'
  BY DEF TypeOK, PolledType, polled, sides
<1>6. UNCHANGED <<inbox, host, crossed>> => HostType'
  BY DEF TypeOK, HostType
<1> QED
  BY <1>1, <1>2, <1>3, <1>4, <1>5, <1>6

\* What a message of the device leaves behind.
LEMMA SendType ==
    ASSUME TypeOK, UNCHANGED <<cfg, inbox>>,
           NEW t \in Topics, NEW v, IF t = BankTopic THEN v \in Banks ELSE v \in BOOLEAN,
           Send(t, v)
    PROVE  HostType'
<1>1. host' = [host EXCEPT ![t] = v] /\ host = [u \in Topics |-> host[u]]
  BY DEF Send, TypeOK, HostType
<1>2. host'[t] = v /\ \A u \in Topics : u # t => host'[u] = host[u]
  BY <1>1
<1>3. host' = [u \in Topics |-> host'[u]]
  BY <1>1
<1>4. crossed' \subseteq Topics
  BY DEF Send, TypeOK, HostType
<1>5. host'[BankTopic] \in Banks
  BY <1>2, TopicTypes DEF TypeOK, HostType
<1>6. \A u \in Topics \ {BankTopic} : host'[u] \in BOOLEAN
  BY <1>2 DEF TypeOK, HostType
<1> QED
  BY <1>3, <1>4, <1>5, <1>6 DEF TypeOK, HostType

\* Setting a switch and its light keeps the types.
LEMMA SetSwitchType ==
    ASSUME TypeOK, NEW b \in Banks, NEW e \in Encoders, NEW on \in BOOLEAN,
           SetSwitch(b, e, on)
    PROVE  SwitchesType'
<1>1. Color(b, e, on) \in {"active", "inactive", "set"}
  BY DEF TypeOK, SwitchesType, Color
<1>2. enc_switch_midi_state' \in [Banks \X Encoders -> BOOLEAN]
  BY DEF TypeOK, SwitchesType, SetSwitch
<1>3. switch_color_buffer' \in [Banks \X Encoders -> {"active", "inactive", "set"}]
  BY <1>1 DEF TypeOK, SwitchesType, SetSwitch
<1>4. UNCHANGED switch_color_overide /\ unlit' \subseteq unlit
  BY DEF SetSwitch
<1> QED
  BY <1>2, <1>3, <1>4 DEF TypeOK, SwitchesType

\* A switch sends its state, or changes the bank, or does neither.
LEMMA SendSwitchIs ==
    ASSUME TypeOK, NEW b \in Banks, NEW e \in Encoders, NEW on \in BOOLEAN,
           SendSwitch(b, e, on)
    PROVE  \/ /\ cfg.enc_bank[<<b, e>>] = NoBank
              /\ SetSwitch(b, e, on) /\ Send(<<"switch", b, e>>, on)
              /\ encoder_bank' = encoder_bank
           \/ /\ cfg.enc_bank[<<b, e>>] \in Banks
              /\ SetSwitch(b, e, FALSE) /\ Send(BankTopic, cfg.enc_bank[<<b, e>>])
              /\ encoder_bank' = cfg.enc_bank[<<b, e>>]
           \/ /\ cfg.enc_bank[<<b, e>>] \in Banks
              /\ SetSwitch(b, e, FALSE) /\ Quiet
              /\ encoder_bank' = encoder_bank
<1> DEFINE target == cfg.enc_bank[<<b, e>>]
<1>1. target \in Banks \cup {NoBank}
  BY ConfigsAssumption DEF TypeOK
<1>2. /\ SetSwitch(b, e, on /\ target = NoBank)
      /\ IF target = NoBank THEN Send(<<"switch", b, e>>, on)
         ELSE IF on THEN Send(BankTopic, target) ELSE Quiet
      /\ encoder_bank' = IF on /\ target # NoBank THEN target ELSE encoder_bank
  BY DEF SendSwitch
<1> HIDE DEF target
<1>3. CASE target = NoBank
  <2>1. (on /\ target = NoBank) = on
    BY <1>3
  <2>2. SetSwitch(b, e, on)
    BY <1>2, <2>1
  <2> QED
    BY <1>2, <1>3, <2>2 DEF target
<1>4. CASE target # NoBank
  <2>1. (on /\ target = NoBank) = FALSE
    BY <1>4
  <2>2. SetSwitch(b, e, FALSE)
    BY <1>2, <2>1
  <2> QED
    BY <1>1, <1>2, <1>4, <2>2 DEF target
<1> QED
  BY <1>3, <1>4

\* So does sending what the action of a switch says.
LEMMA SendSwitchType ==
    ASSUME TypeOK, UNCHANGED <<cfg, inbox>>,
           NEW b \in Banks, NEW e \in Encoders, NEW on \in BOOLEAN,
           SendSwitch(b, e, on)
    PROVE  SwitchesType' /\ HostType' /\ encoder_bank' \in Banks
<1>1. SwitchesType' /\ encoder_bank' \in Banks
  BY SendSwitchIs, SetSwitchType DEF TypeOK, ModesType
<1>2. HostType'
  <2>1. Quiet => HostType'
    BY SameKeepsType DEF Quiet
  <2>2. Send(<<"switch", b, e>>, on) => HostType'
    BY SendType, TopicTypes
  <2>3. cfg.enc_bank[<<b, e>>] \in Banks /\ Send(BankTopic, cfg.enc_bank[<<b, e>>]) => HostType'
    BY SendType, TopicTypes
  <2> QED
    BY <2>1, <2>2, <2>3, SendSwitchIs
<1> QED
  BY <1>1, <1>2

-----------------------------------------------------------------------------
(* What a step is, as far as host, bank and switches are concerned.        *)

\* The edge of an encoder switch changes nothing that lasts, picks a bank, or
\* turns the switch on or off.
PassedOver == Quiet /\ UNCHANGED <<encoder_bank, switches, pages>>
BankPicked(n) ==
    Send(BankTopic, n) /\ encoder_bank' = n /\ UNCHANGED <<switches, pages>>
Switched(on) == SendSwitch(encoder_bank, i, on) /\ UNCHANGED pages

\* The ways in which an edge of an encoder switch is handled.
LEMMA EncoderStepIs ==
    ASSUME TypeOK, EncoderStep
    PROVE  /\ NextEncoder /\ i \in Encoders
           /\ \/ PassedOver
              \/ \E n \in Banks : BankPicked(n)
              \/ \E on \in BOOLEAN : Switched(on)
              \/ PageSwitch
<1>1. NextEncoder
  BY DEF EncoderStep, OverlaySwitch, NativeSwitch, HoldSwitch, ToggleSwitch, PageSwitch
<1>2. i \in Encoders
  BY <1>1, LoopIsAtAnEdge DEF NextEncoder
<1>3. Pressed \in BOOLEAN
  BY DEF Pressed
<1> DEFINE Kinds == \/ PassedOver
                    \/ \E n \in Banks : BankPicked(n)
                    \/ \E on \in BOOLEAN : Switched(on)
                    \/ PageSwitch
<1>4. Kinds
  <2>1. CASE OverlaySwitch
    <3>1. i % NUM_BANKS \in Banks
      BY <1>2, BankTypes DEF Encoders
    <3>2. CASE Pressed
      <4>1. BankPicked(i % NUM_BANKS)
        BY <2>1, <3>2 DEF OverlaySwitch, BankPicked
      <4> QED
        BY <3>1, <4>1
    <3>3. CASE ~Pressed
      BY <2>1, <3>3 DEF OverlaySwitch, PassedOver
    <3> QED
      BY <3>2, <3>3
  <2>2. CASE NativeSwitch
    BY <2>2 DEF NativeSwitch, PassedOver
  <2>3. CASE HoldSwitch
    <3>1. Switched(Pressed)
      BY <2>3 DEF HoldSwitch, Switched
    <3> QED
      BY <1>3, <3>1
  <2>4. CASE ToggleSwitch
    <3>1. CASE Pressed
      <4>1. Switched(~enc_switch_midi_state[<<encoder_bank, i>>])
        BY <2>4, <3>1 DEF ToggleSwitch, Switched
      <4>2. (~enc_switch_midi_state[<<encoder_bank, i>>]) \in BOOLEAN
        OBVIOUS
      <4> QED
        BY <4>1, <4>2
    <3>2. CASE ~Pressed
      BY <2>4, <3>2 DEF ToggleSwitch, PassedOver
    <3> QED
      BY <3>1, <3>2
  <2>5. CASE PageSwitch
    BY <2>5
  <2> QED
    BY <2>1, <2>2, <2>3, <2>4, <2>5 DEF EncoderStep
<1> QED
  BY <1>1, <1>2, <1>4

\* The states of the switches of a page stay sets of encoders.
LEMMA PageSwitchType ==
    ASSUME TypeOK, PageSwitch, i \in Encoders
    PROVE  TogglesType' /\ HostType'
<1>1. /\ mode \in Pages /\ Send(<<"page", mode, i>>, Pressed)
      /\ UNCHANGED <<cfg, inbox, side_switch_toggle_state, shift_mode_midi_override>>
  BY DEF PageSwitch, NextEncoder
<1>2. shift_mode_switch_state' \in [Pages -> SUBSET Encoders]
  BY DEF PageSwitch, TypeOK, TogglesType
<1>3. TogglesType'
  BY <1>1, <1>2 DEF TypeOK, TogglesType
<1>4. Pressed \in BOOLEAN
  BY DEF Pressed
<1>5. <<"page", mode, i>> \in Topics /\ <<"page", mode, i>> # BankTopic
  BY <1>1, TopicTypes
<1>6. HostType'
  BY <1>1, <1>4, <1>5, SendType
<1> QED
  BY <1>3, <1>6

\* The loop over the encoders keeps the types.
LEMMA EncoderStepType == TypeOK /\ EncoderStep => TypeOK'
<1> SUFFICES ASSUME TypeOK, EncoderStep PROVE TypeOK'
  OBVIOUS
<1>1. /\ UNCHANGED <<cfg, pc, mode, is_active, g_bank_select_active, g_enc_switch_state,
                     side_switch_toggle_state, sides, inbox, swallowed>>
      /\ g_enc_switch_down' \subseteq g_enc_switch_down
      /\ g_enc_switch_up' \subseteq g_enc_switch_up
  BY EncoderStepIs DEF NextEncoder
<1>2. PolledType'
  BY <1>1 DEF TypeOK, PolledType, sides
<1>3. encoder_bank' \in Banks => ModesType'
  BY <1>1 DEF TypeOK, ModesType
<1>4. encoder_bank \in Banks /\ i \in Encoders
  BY EncoderStepIs DEF TypeOK, ModesType
<1>5. CASE PassedOver
  <2>1. encoder_bank' \in Banks /\ SwitchesType' /\ TogglesType' /\ HostType'
    BY <1>1, <1>4, <1>5, SameKeepsType DEF PassedOver, Quiet
  <2> QED
    BY <1>1, <1>2, <1>3, <2>1, SameKeepsType DEF TypeOK
<1>6. ASSUME NEW n \in Banks, BankPicked(n)
      PROVE  TypeOK'
  <2>1. encoder_bank' \in Banks /\ SwitchesType' /\ TogglesType'
    BY <1>1, <1>6, SameKeepsType DEF BankPicked
  <2>2. HostType'
    BY <1>1, <1>6, SendType, TopicTypes DEF BankPicked
  <2> QED
    BY <1>1, <1>2, <1>3, <2>1, <2>2, SameKeepsType DEF TypeOK
<1>7. ASSUME NEW on \in BOOLEAN, Switched(on)
      PROVE  TypeOK'
  <2>1. encoder_bank' \in Banks /\ SwitchesType' /\ HostType'
    BY <1>1, <1>4, <1>7, SendSwitchType DEF Switched
  <2>2. TogglesType'
    BY <1>1, <1>7, SameKeepsType DEF Switched
  <2> QED
    BY <1>1, <1>2, <1>3, <2>1, <2>2, SameKeepsType DEF TypeOK
<1>8. CASE PageSwitch
  <2>1. TogglesType' /\ HostType'
    BY <1>4, <1>8, PageSwitchType
  <2>2. UNCHANGED <<encoder_bank, switches>>
    BY <1>8 DEF PageSwitch
  <2>3. encoder_bank' \in Banks /\ SwitchesType'
    BY <1>1, <1>4, <2>2, SameKeepsType
  <2> QED
    BY <1>1, <1>2, <1>3, <2>1, <2>3, SameKeepsType DEF TypeOK
<1> QED
  BY <1>5, <1>6, <1>7, <1>8, EncoderStepIs

\* The bank a side switch leads to is one there is.
LEMMA NewBankType ==
    ASSUME TypeOK, NewBank # NoBank
    PROVE  NewBank \in Banks
<1>1. encoder_bank \in Nat /\ encoder_bank \in Banks /\ NUM_BANKS \in Nat
  BY SurfaceAssumption DEF SurfaceAssumption, TypeOK, ModesType, Banks
<1>2. (encoder_bank + 1) % NUM_BANKS \in Banks /\ 0 \in Banks
  BY <1>1, BankTypes
<1>3. encoder_bank < NUM_BANKS - 1 => encoder_bank + 1 \in Banks
  BY <1>1 DEF Banks
<1>4. encoder_bank > 0 => encoder_bank - 1 \in Banks
  BY <1>1 DEF Banks
<1>5. CASE Action = "GLOBAL_BANK_UP"
  <2>1. NewBank = IF encoder_bank < NUM_BANKS - 1 THEN encoder_bank + 1 ELSE NoBank
    BY <1>5 DEF NewBank
  <2> QED
    BY <1>3, <2>1
<1>6. CASE Action = "GLOBAL_BANK_DOWN"
  <2>1. NewBank = IF encoder_bank > 0 THEN encoder_bank - 1 ELSE NoBank
    BY <1>6 DEF NewBank
  <2> QED
    BY <1>4, <2>1
<1>7. CASE Action = "CYCLE_BANK"
  <2>1. NewBank = (encoder_bank + 1) % NUM_BANKS
    BY <1>7 DEF NewBank
  <2> QED
    BY <1>2, <2>1
<1>8. CASE Action \notin {"GLOBAL_BANK_UP", "GLOBAL_BANK_DOWN", "CYCLE_BANK"}
  <2>1. NewBank = 0 \/ NewBank = NoBank
    BY <1>8 DEF NewBank
  <2> QED
    BY <1>2, <2>1
<1> QED
  BY <1>5, <1>6, <1>7, <1>8

\* A side switch keeps the types.
LEMMA SideSwitchType == TypeOK /\ SideSwitch => TypeOK'
<1> SUFFICES ASSUME TypeOK, SideSwitch PROVE TypeOK'
  OBVIOUS
<1>1. /\ UNCHANGED <<cfg, pc, is_active, switches, pages, polled, g_side_switch_state, inbox>>
      /\ g_side_switch_down' \subseteq g_side_switch_down
      /\ g_side_switch_up' \subseteq g_side_switch_up
      /\ swallowed' \subseteq swallowed
      /\ switch_num \in Sides
  BY LoopIsAtAnEdge DEF SideSwitch, NextSide
<1>2. PolledType' /\ SwitchesType'
  <2>1. PolledType'
    BY <1>1 DEF TypeOK, PolledType, polled
  <2> QED
    BY <2>1, <1>1, SameKeepsType
<1>3. Down \in BOOLEAN /\ SideBank \in Banks
  BY BankTypes DEF Down, SideBank, TypeOK, ModesType
<1>4. /\ <<"side", SideBank, switch_num>> \in Topics
      /\ <<"side", SideBank, switch_num>> # BankTopic
  BY <1>1, <1>3, TopicTypes
<1> DEFINE Rest == cfg' \in Configs /\ PolledType' /\ SwitchesType'
<1>5. Rest
  BY <1>1, <1>2, SameKeepsType
<1>6. ASSUME UNCHANGED <<encoder_bank, mode, g_bank_select_active>>
      PROVE  ModesType'
  BY <1>1, <1>6 DEF TypeOK, ModesType
<1>7. ASSUME UNCHANGED side_switch_toggle_state
      PROVE  TogglesType'
  BY <1>1, <1>7 DEF TypeOK, TogglesType, pages
<1>8. ASSUME Quiet
      PROVE  HostType'
  BY <1>1, <1>8, SameKeepsType DEF Quiet
<1>9. CASE SideHold
  <2>1. HostType'
    BY <1>1, <1>3, <1>4, <1>9, SendType DEF SideHold
  <2> QED
    BY <1>5, <1>6, <1>7, <1>9, <2>1 DEF SideHold, TypeOK
<1>10. CASE SideToggle
  <2>1. ModesType'
    BY <1>6, <1>10 DEF SideToggle
  <2>2. CASE Down
    <3> DEFINE on == switch_num \in side_switch_toggle_state'[SideBank]
    <3>1. Send(<<"side", SideBank, switch_num>>, on) /\ on \in BOOLEAN
      BY <1>10, <2>2 DEF SideToggle
    <3> HIDE DEF on
    <3>2. HostType'
      BY <1>1, <1>4, <3>1, SendType
    <3>3. side_switch_toggle_state' =
             [side_switch_toggle_state EXCEPT
                ![SideBank] = Edges(side_switch_toggle_state[SideBank], {switch_num})]
      BY <1>10, <2>2 DEF SideToggle
    <3>4. Edges(side_switch_toggle_state[SideBank], {switch_num}) \in SUBSET Sides
      BY <1>1, <1>3 DEF Edges, TypeOK, TogglesType
    <3>5. TogglesType'
      BY <1>1, <3>3, <3>4 DEF TypeOK, TogglesType, pages
    <3> QED
      BY <1>5, <2>1, <3>2, <3>5 DEF TypeOK
  <2>3. CASE ~Down
    <3>1. Quiet /\ UNCHANGED side_switch_toggle_state
      BY <1>10, <2>3 DEF SideToggle
    <3> QED
      BY <1>5, <1>7, <1>8, <2>1, <3>1 DEF TypeOK
  <2> QED
    BY <2>2, <2>3
<1>11. CASE ShiftPage \/ ShiftPageToggle
  <2>1. /\ UNCHANGED <<encoder_bank, g_bank_select_active, side_switch_toggle_state>>
        /\ Quiet
        /\ mode' \in {"normal", mode, PageOf(Action)}
    BY <1>11 DEF ShiftPage, ShiftPageToggle
  <2>2. PageOf(Action) \in Pages
    BY DEF PageOf, Pages
  <2>3. ModesType'
    BY <1>1, <2>1, <2>2 DEF TypeOK, ModesType
  <2> QED
    BY <1>5, <1>7, <1>8, <2>1, <2>3 DEF TypeOK
<1>12. CASE BankChange
  <2>1. UNCHANGED <<mode, g_bank_select_active, side_switch_toggle_state>>
    BY <1>12 DEF BankChange
  <2>2. CASE Down /\ NewBank # NoBank
    <3>1. NewBank \in Banks /\ encoder_bank' = NewBank /\ Send(BankTopic, NewBank)
      BY <1>12, <2>2, NewBankType DEF BankChange
    <3>2. HostType'
      BY <1>1, <3>1, SendType, TopicTypes
    <3>3. ModesType'
      BY <1>1, <2>1, <3>1 DEF TypeOK, ModesType
    <3> QED
      BY <1>5, <1>7, <2>1, <3>2, <3>3 DEF TypeOK
  <2>3. CASE ~(Down /\ NewBank # NoBank)
    <3>1. UNCHANGED encoder_bank /\ Quiet
      BY <1>12, <2>3 DEF BankChange
    <3> QED
      BY <1>5, <1>6, <1>7, <1>8, <2>1, <3>1 DEF TypeOK
  <2> QED
    BY <2>2, <2>3
<1>13. CASE BankSelect
  <2>1. /\ UNCHANGED <<encoder_bank, mode, side_switch_toggle_state>> /\ Quiet
        /\ g_bank_select_active' \in BOOLEAN
    BY <1>3, <1>13 DEF BankSelect
  <2>2. ModesType'
    BY <1>1, <2>1 DEF TypeOK, ModesType
  <2> QED
    BY <1>5, <1>7, <1>8, <2>1, <2>2 DEF TypeOK
<1> QED
  BY <1>9, <1>10, <1>11, <1>12, <1>13 DEF SideSwitch

\* The rest of the loop over the side switches, and its beginning.
LEMMA SidesType ==
    ASSUME TypeOK
    PROVE  /\ NativeSide => TypeOK'
           /\ EndSides => TypeOK'
           /\ (\E pressed \in SUBSET cfg.uses.sides : BeginSides(pressed)) => TypeOK'
<1>1. ASSUME NativeSide
      PROVE  TypeOK'
  <2>1. /\ UNCHANGED <<cfg, pc, is_active, switches, pages, polled, g_side_switch_state, inbox>>
        /\ UNCHANGED <<encoder_bank, mode, g_bank_select_active, side_switch_toggle_state>>
        /\ UNCHANGED <<host, crossed>>
        /\ g_side_switch_down' \subseteq g_side_switch_down
        /\ g_side_switch_up' \subseteq g_side_switch_up
        /\ swallowed' \subseteq swallowed \cup {switch_num} /\ switch_num \in Sides
    BY <1>1, LoopIsAtAnEdge DEF NativeSide, NextSide, Quiet
  <2>2. PolledType'
    BY <2>1 DEF TypeOK, PolledType, polled
  <2> QED
    BY <2>1, <2>2, SameKeepsType DEF TypeOK, modes
<1>2. ASSUME EndSides
      PROVE  TypeOK'
  <2>1. PolledType'
    BY <1>2 DEF EndSides, TypeOK, PolledType, polled, sides
  <2> QED
    BY <1>2, <2>1, SameKeepsType DEF EndSides, TypeOK
<1>3. ASSUME NEW pressed \in SUBSET cfg.uses.sides, BeginSides(pressed)
      PROVE  TypeOK'
  <2>1. pressed \subseteq Sides
    BY <1>3, SurfaceAssumption DEF SurfaceAssumption, TypeOK
  <2>2. UNCHANGED <<cfg, encoder_bank, mode, g_bank_select_active, switches, pages,
                    side_switch_toggle_state, polled, inbox, host, crossed>>
    BY <1>3 DEF BeginSides
  <2>3. is_active' \in BOOLEAN
    <3>1. is_active' = is_active \/ is_active' = ~is_active
      BY <1>3 DEF BeginSides
    <3> QED
      BY <3>1 DEF TypeOK, ModesType
  <2>4. /\ g_side_switch_state' = pressed
        /\ pc' \in {"usb", "sides"}
        /\ g_side_switch_down' \in {{}, pressed \ g_side_switch_state}
        /\ g_side_switch_up' \in {{}, g_side_switch_state \ pressed}
        /\ swallowed' \in {swallowed, swallowed \cup (g_side_switch_state \ pressed)}
    BY <1>3 DEF BeginSides
  <2>5. ModesType'
    BY <2>2, <2>3 DEF TypeOK, ModesType
  <2>6. PolledType'
    BY <2>1, <2>2, <2>4 DEF TypeOK, PolledType, polled
  <2> QED
    BY <2>2, <2>5, <2>6, SameKeepsType DEF TypeOK
<1> QED
  BY <1>1, <1>2, <1>3

\* A packet of the host is taken whole.
LEMMA UsbStepType == TypeOK /\ UsbStep => TypeOK'
<1> SUFFICES ASSUME TypeOK, UsbStep PROVE TypeOK'
  OBVIOUS
<1>1. ASSUME Receive
      PROVE  /\ UNCHANGED <<cfg, mode, g_bank_select_active, side_switch_toggle_state,
                            polled, sides, pc, host, crossed, swallowed>>
             /\ HostType' /\ PolledType'
             /\ Head(inbox) \in cfg.uses.messages
  <2>1. Head(inbox) \in cfg.uses.messages
    BY <1>1, HeadTypes DEF Receive
  <2>2. inbox' \in Seq(cfg.uses.messages) /\ Len(inbox') <= MaxInbox
    BY <1>1, SurfaceAssumption DEF SurfaceAssumption, Receive, TypeOK, HostType
  <2>3. HostType'
    BY <1>1, <2>2 DEF Receive, TypeOK, HostType
  <2> QED
    BY <1>1, <2>1, <2>3, SameKeepsType DEF Receive
<1>2. CASE ReceiveBank
  <2>1. Receive /\ Head(inbox).topic = BankTopic /\ encoder_bank' = Head(inbox).value
        /\ UNCHANGED <<is_active, switches, pages>>
    BY <1>2 DEF ReceiveBank
  <2>2. encoder_bank' \in Banks
    BY <1>1, <2>1, MessageTypes DEF TypeOK
  <2>3. ModesType'
    BY <1>1, <2>1, <2>2 DEF TypeOK, ModesType
  <2> QED
    BY <1>1, <2>1, <2>3, SameKeepsType DEF TypeOK
<1>3. CASE ReceiveSwitch
  <2>1. /\ Receive /\ Head(inbox).topic \in SwitchTopics
        /\ UNCHANGED <<encoder_bank, is_active, pages>>
    BY <1>3 DEF ReceiveSwitch
  <2>2. PICK b \in Banks, e \in Encoders : Head(inbox).topic = <<"switch", b, e>>
    BY <2>1 DEF SwitchTopics
  <2>3. PICK v : v = Head(inbox).value
    OBVIOUS
  <2>4. Feedback(b, e, v)
    BY <1>3, <2>2, <2>3 DEF ReceiveSwitch
  <2> DEFINE color == IF v = 0 THEN "inactive" ELSE IF v < 126 THEN "set" ELSE "active"
  <2>5. /\ (v # 0) \in BOOLEAN
        /\ color \in {"active", "inactive", "set"}
    OBVIOUS
  <2>6. /\ switch_color_overide' = [switch_color_overide EXCEPT ![<<b, e>>] = (v # 0)]
        /\ switch_color_buffer' = [switch_color_buffer EXCEPT ![<<b, e>>] = color]
        /\ enc_switch_midi_state' = [enc_switch_midi_state EXCEPT ![<<b, e>>] = (v # 0)]
        /\ unlit' \subseteq unlit
    BY <2>4 DEF Feedback
  <2> HIDE DEF color
  <2>7. SwitchesType'
    BY <2>5, <2>6 DEF TypeOK, SwitchesType
  <2> QED
    BY <1>1, <2>1, <2>7, SameKeepsType DEF TypeOK, modes
<1>4. CASE ReceivePage
  <2>1. Receive /\ Head(inbox).topic \in PageTopics
        /\ UNCHANGED <<encoder_bank, is_active, switches>>
    BY <1>4 DEF ReceivePage
  <2>2. PICK p \in Pages, e \in Encoders : Head(inbox).topic = <<"page", p, e>>
    BY <2>1 DEF PageTopics
  <2>3. /\ shift_mode_midi_override' \in [Pages -> SUBSET Encoders]
        /\ shift_mode_switch_state' \in [Pages -> SUBSET Encoders]
    BY <1>4, <2>2 DEF ReceivePage, TypeOK, TogglesType
  <2>4. TogglesType'
    BY <1>1, <2>1, <2>3 DEF TypeOK, TogglesType
  <2> QED
    BY <1>1, <2>1, <2>4, SameKeepsType DEF TypeOK, modes
<1>5. CASE ReceiveNative
  <2>1. Receive /\ is_active' \in BOOLEAN /\ UNCHANGED <<encoder_bank, switches, pages>>
    BY <1>5 DEF ReceiveNative
  <2>2. ModesType'
    BY <1>1, <2>1 DEF TypeOK, ModesType
  <2> QED
    BY <1>1, <2>1, <2>2, SameKeepsType DEF TypeOK
<1>6. CASE ReceiveSettings
  <2>1. /\ Receive /\ UNCHANGED <<encoder_bank, is_active, enc_switch_midi_state,
                                  switch_color_overide, pages>>
        /\ switch_color_buffer' = [x \in Banks \X Encoders |-> "inactive"]
        /\ unlit' \subseteq Banks \X Encoders
    BY <1>6 DEF ReceiveSettings
  <2>2. SwitchesType'
    BY <2>1 DEF TypeOK, SwitchesType
  <2> QED
    BY <1>1, <2>1, <2>2, SameKeepsType DEF TypeOK, modes
<1>7. CASE UsbConfigured
  <2>1. ModesType'
    BY <1>7 DEF UsbConfigured, TypeOK, ModesType
  <2> QED
    BY <1>7, <2>1, SameKeepsType DEF UsbConfigured, TypeOK
<1>8. CASE EndReceive
  <2>1. PolledType'
    BY <1>8 DEF EndReceive, TypeOK, PolledType, polled, sides
  <2> QED
    BY <1>8, <2>1, SameKeepsType DEF EndReceive, TypeOK
<1> QED
  BY <1>2, <1>3, <1>4, <1>5, <1>6, <1>7, <1>8 DEF UsbStep

\* So does the host when it sends.
LEMMA HostSendType ==
    ASSUME TypeOK, NEW m \in cfg.uses.messages, HostSend(m)
    PROVE  TypeOK'
<1>1. /\ UNCHANGED <<cfg, modes, switches, pages, side_switch_toggle_state, polled,
                     sides, pc, swallowed>>
      /\ Len(inbox) < MaxInbox /\ inbox' = Append(inbox, m)
  BY DEF HostSend
<1>2. inbox' \in Seq(cfg.uses.messages) /\ Len(inbox') <= MaxInbox
  BY <1>1, SurfaceAssumption DEF SurfaceAssumption, TypeOK, HostType
<1>3. CASE m.topic \in Topics
  <2> DEFINE v == IF m.topic = BankTopic THEN m.value ELSE m.value # 0
  <2>1. IF m.topic = BankTopic THEN v \in Banks ELSE v \in BOOLEAN
    BY MessageTypes DEF TypeOK
  <2>2. host' = [host EXCEPT ![m.topic] = v] /\ crossed' \subseteq crossed
    BY <1>3 DEF HostSend
  <2>3. host = [u \in Topics |-> host[u]]
    BY DEF TypeOK, HostType
  <2> HIDE DEF v
  <2>4. host'[m.topic] = v /\ \A u \in Topics : u # m.topic => host'[u] = host[u]
    BY <1>3, <2>2, <2>3
  <2>5. host' = [u \in Topics |-> host'[u]]
    BY <2>2, <2>3
  <2>6. host'[BankTopic] \in Banks /\ \A u \in Topics \ {BankTopic} : host'[u] \in BOOLEAN
    BY <2>1, <2>4, TopicTypes DEF TypeOK, HostType
  <2>7. HostType'
    BY <1>1, <1>2, <2>2, <2>5, <2>6 DEF TypeOK, HostType
  <2> QED
    BY <1>1, <2>7, SameKeepsType DEF TypeOK
<1>4. CASE m.topic \notin Topics
  <2>1. UNCHANGED <<host, crossed>>
    BY <1>4 DEF HostSend
  <2>2. HostType'
    BY <1>1, <1>2, <2>1 DEF TypeOK, HostType
  <2> QED
    BY <1>1, <2>2, SameKeepsType DEF TypeOK
<1> QED
  BY <1>3, <1>4

\* Polling the switches gives edges of switches there are.
LEMMA BeginEncodersType ==
    ASSUME TypeOK, NEW pressed \in SUBSET cfg.uses.encoders, BeginEncoders(pressed)
    PROVE  TypeOK'
<1>1. pressed \subseteq Encoders
  BY SurfaceAssumption DEF SurfaceAssumption, TypeOK
<1>2. PolledType'
  BY <1>1 DEF BeginEncoders, TypeOK, PolledType, sides
<1> QED
  BY <1>2, SameKeepsType DEF BeginEncoders, TypeOK

\* Every step keeps the types.
LEMMA NextTypeOK == TypeOK /\ [Next]_vars => TypeOK'
<1> SUFFICES ASSUME TypeOK, [Next]_vars PROVE TypeOK'
  OBVIOUS
<1>1. CASE Next
  BY <1>1, HostSendType, BeginEncodersType, EncoderStepType, SidesType, SideSwitchType,
     UsbStepType DEF Next, SideStep
<1>2. CASE UNCHANGED vars
  BY <1>2, SameKeepsType DEF vars, TypeOK
<1> QED
  BY <1>1, <1>2

\* The initial state has its type.
LEMMA InitTypeOK == Init => TypeOK
<1> SUFFICES ASSUME Init PROVE TypeOK
  OBVIOUS
<1>1. cfg \in Configs /\ ModesType
  BY BankTypes DEF Init, ModesType
<1>2. SwitchesType /\ TogglesType
  BY DEF Init, SwitchesType, TogglesType
<1>3. PolledType
  BY DEF Init, PolledType
<1>4. HostType
  <2>1. inbox = <<>> /\ crossed = {}
        /\ host = [t \in Topics |-> IF t = BankTopic THEN 0 ELSE FALSE]
    BY DEF Init
  <2>2. host = [t \in Topics |-> host[t]] /\ host[BankTopic] = 0
        /\ \A t \in Topics \ {BankTopic} : host[t] = FALSE
    BY <2>1, TopicTypes
  <2> QED
    BY <2>1, <2>2, BankTypes, SurfaceAssumption DEF SurfaceAssumption, HostType
<1> QED
  BY <1>1, <1>2, <1>3, <1>4 DEF TypeOK

\* Every variable of the surface keeps its kind: no bank past the last, no edge of
\* a switch there is not.
THEOREM TypeCorrect == Spec => []TypeOK
<1> QED
  BY InitTypeOK, NextTypeOK, PTL DEF Spec

-----------------------------------------------------------------------------
(* What a step does to what the host believes.                             *)

\* The host believes on t what it did, and t is not more settled than it was.
Undisturbed(t) == host'[t] = host[t] /\ (Settled(t)' => Settled(t))

\* Where nothing is said, no topic is disturbed.
LEMMA QuietTold ==
    ASSUME UNCHANGED <<inbox, host, crossed>>
    PROVE  /\ \A t : Undisturbed(t)
           /\ LastTold => LastTold'
<1>1. \A t : Undisturbed(t)
  BY DEF Undisturbed, Settled, InFlight
<1>2. LastTold => LastTold'
  BY DEF LastTold, ToldBy
<1> QED
  BY <1>1, <1>2

\* What the device sends, the host believes; a message it crosses no longer
\* tells what the host believes.
LEMMA SendTold ==
    ASSUME TypeOK, UNCHANGED inbox, NEW t \in Topics, NEW v, Send(t, v)
    PROVE  /\ host'[t] = v
           /\ \A u \in Topics : u # t => Undisturbed(u)
           /\ LastTold => LastTold'
<1>1. /\ host' = [host EXCEPT ![t] = v] /\ host = [u \in Topics |-> host[u]]
      /\ crossed' = IF InFlight(t) THEN crossed \cup {t} ELSE crossed \ {t}
  BY DEF Send, TypeOK, HostType
<1>2. host'[t] = v /\ \A u \in Topics : u # t => host'[u] = host[u]
  BY <1>1
<1>3. ASSUME NEW u \in Topics, u # t
      PROVE  Undisturbed(u)
  BY <1>1, <1>2, <1>3 DEF Undisturbed, Settled, InFlight
<1>4. ASSUME LastTold
      PROVE  LastTold'
  <2>1. ASSUME NEW k \in 1..Len(inbox), inbox[k].topic \in Topics,
               inbox[k].topic \notin crossed',
               \A j \in 1..Len(inbox) : j > k => inbox[j].topic # inbox[k].topic
        PROVE  host'[inbox[k].topic] = ToldBy(inbox[k])
    <3>1. InFlight(inbox[k].topic)
      BY DEF InFlight
    <3>2. inbox[k].topic # t
      BY <1>1, <2>1, <3>1
    <3>3. inbox[k].topic \notin crossed
      BY <1>1, <2>1, <3>2
    <3> QED
      BY <1>2, <1>4, <2>1, <3>2, <3>3 DEF LastTold
  <2> QED
    BY <2>1 DEF LastTold, ToldBy
<1> QED
  BY <1>2, <1>3, <1>4

\* What the host sends, it believes, and it is under way.
LEMMA HostSendTold ==
    ASSUME TypeOK, NEW m \in cfg.uses.messages, HostSend(m)
    PROVE  /\ ~Settled(m.topic)'
           /\ \A u \in Topics : u # m.topic => Undisturbed(u)
           /\ LastTold => LastTold'
<1>1. inbox \in Seq(cfg.uses.messages) /\ inbox' = Append(inbox, m)
  BY DEF HostSend, TypeOK, HostType
<1>2. /\ Len(inbox') = Len(inbox) + 1 /\ inbox'[Len(inbox) + 1] = m
      /\ \A k \in 1..Len(inbox) : inbox'[k] = inbox[k]
      /\ Len(inbox) \in Nat
  BY <1>1
<1>3. ~Settled(m.topic)'
  <2>1. InFlight(m.topic)'
    <3>1. Len(inbox) + 1 \in 1..Len(inbox')
      BY <1>2
    <3> QED
      BY <1>2, <3>1 DEF InFlight
  <2> QED
    BY <2>1 DEF Settled
<1>4. /\ m.topic \in Topics => host'[m.topic] = ToldBy(m)
      /\ \A u \in Topics : u # m.topic => host'[u] = host[u]
      /\ \A u : u # m.topic => (u \in crossed' <=> u \in crossed)
  BY DEF HostSend, ToldBy, TypeOK, HostType
<1>5. ASSUME NEW u \in Topics, u # m.topic
      PROVE  Undisturbed(u)
  <2>1. InFlight(u) => InFlight(u)'
    BY <1>2 DEF InFlight
  <2> QED
    BY <1>4, <1>5, <2>1 DEF Undisturbed, Settled
<1>6. ASSUME LastTold
      PROVE  LastTold'
  <2> SUFFICES ASSUME NEW k \in 1..Len(inbox'), inbox'[k].topic \in Topics,
               inbox'[k].topic \notin crossed',
               \A j \in 1..Len(inbox') : j > k => inbox'[j].topic # inbox'[k].topic
        PROVE  host'[inbox'[k].topic] = ToldBy(inbox'[k])
    BY DEF LastTold, ToldBy
  <2>1. CASE k = Len(inbox) + 1
    BY <1>2, <1>4, <2>1
  <2>2. CASE k # Len(inbox) + 1
    <3>1. k \in 1..Len(inbox) /\ inbox'[k] = inbox[k]
      BY <1>2, <2>2
    <3>2. inbox[k].topic # m.topic
      <4>1. Len(inbox) + 1 \in 1..Len(inbox') /\ Len(inbox) + 1 > k
        BY <1>2, <3>1
      <4> QED
        BY <1>2, <3>1, <4>1
    <3>3. \A j \in 1..Len(inbox) : j > k => inbox[j].topic # inbox[k].topic
      BY <1>2, <3>1
    <3>4. host[inbox[k].topic] = ToldBy(inbox[k])
      BY <1>4, <1>6, <3>1, <3>2, <3>3 DEF LastTold
    <3> QED
      BY <1>4, <3>1, <3>2, <3>4
  <2> QED
    BY <2>1, <2>2
<1> QED
  BY <1>3, <1>5, <1>6

\* A message that is read was the last on its topic, or the topic is not settled.
LEMMA ReceiveTold ==
    ASSUME TypeOK, Receive
    PROVE  /\ \A u : u # Head(inbox).topic => Undisturbed(u)
           /\ LastTold => LastTold'
           /\ \A u \in Topics : LastTold /\ u = Head(inbox).topic /\ Settled(u)'
                => host'[u] = ToldBy(Head(inbox))
<1>1. /\ inbox \in Seq(cfg.uses.messages) /\ inbox # <<>> /\ inbox' = Tail(inbox)
      /\ host' = host /\ crossed' = crossed
  BY DEF Receive, TypeOK, HostType
<1>2. /\ Len(inbox) \in Nat /\ Len(inbox) > 0 /\ Len(inbox') = Len(inbox) - 1
      /\ Head(inbox) = inbox[1]
      /\ \A k \in 1..Len(inbox') : inbox'[k] = inbox[k + 1]
  BY <1>1
<1>3. ASSUME NEW u, u # Head(inbox).topic
      PROVE  Undisturbed(u)
  <2>1. ASSUME InFlight(u)
        PROVE  InFlight(u)'
    <3>1. PICK k \in 1..Len(inbox) : inbox[k].topic = u
      BY <2>1 DEF InFlight
    <3>2. k # 1
      BY <1>2, <1>3, <3>1
    <3>3. k - 1 \in 1..Len(inbox') /\ (k - 1) + 1 = k
      BY <1>2, <3>2
    <3>4. inbox'[k - 1].topic = u
      BY <1>2, <3>1, <3>3
    <3> QED
      BY <3>3, <3>4 DEF InFlight
  <2> QED
    BY <1>1, <2>1 DEF Undisturbed, Settled
<1>4. ASSUME LastTold
      PROVE  LastTold'
  <2> SUFFICES ASSUME NEW k \in 1..Len(inbox'), inbox'[k].topic \in Topics,
               inbox'[k].topic \notin crossed',
               \A j \in 1..Len(inbox') : j > k => inbox'[j].topic # inbox'[k].topic
        PROVE  host'[inbox'[k].topic] = ToldBy(inbox'[k])
    BY DEF LastTold, ToldBy
  <2>1. k + 1 \in 1..Len(inbox) /\ inbox'[k] = inbox[k + 1]
    BY <1>2
  <2>2. ASSUME NEW j \in 1..Len(inbox), j > k + 1
        PROVE  inbox[j].topic # inbox[k + 1].topic
    <3>1. j - 1 \in 1..Len(inbox') /\ j - 1 > k /\ (j - 1) + 1 = j
      BY <1>2, <2>2
    <3>2. inbox'[j - 1] = inbox[j]
      BY <1>2, <3>1
    <3> QED
      BY <2>1, <3>1, <3>2
  <2> QED
    BY <1>1, <1>4, <2>1, <2>2 DEF LastTold
<1>5. ASSUME LastTold, NEW u \in Topics, u = Head(inbox).topic, Settled(u)'
      PROVE  host'[u] = ToldBy(Head(inbox))
  <2>1. inbox[1].topic = u /\ u \notin crossed
    BY <1>1, <1>2, <1>5 DEF Settled
  <2>2. ASSUME NEW j \in 1..Len(inbox), j > 1
        PROVE  inbox[j].topic # u
    <3>1. j - 1 \in 1..Len(inbox') /\ (j - 1) + 1 = j
      BY <1>2, <2>2
    <3>2. inbox'[j - 1] = inbox[j]
      BY <1>2, <3>1
    <3> QED
      BY <1>5, <3>1, <3>2 DEF Settled, InFlight
  <2>3. 1 \in 1..Len(inbox)
    BY <1>2
  <2>4. host[inbox[1].topic] = ToldBy(inbox[1])
    BY <1>5, <2>1, <2>2, <2>3 DEF LastTold
  <2> QED
    BY <1>1, <1>2, <2>1, <2>4
<1> QED
  BY <1>3, <1>4, <1>5

-----------------------------------------------------------------------------
(* Host and device together.  A step leaves both as they were on a topic,  *)
(* tells the host what the device then has, or leaves the topic unsettled. *)

BankFollows ==
    \/ Undisturbed(BankTopic) /\ encoder_bank' = encoder_bank
    \/ host'[BankTopic] = encoder_bank'
    \/ ~Settled(BankTopic)'

SwitchFollows(b, e) ==
    cfg.enc_bank[<<b, e>>] = NoBank =>
        \/ /\ Undisturbed(<<"switch", b, e>>)
           /\ enc_switch_midi_state'[<<b, e>>] = enc_switch_midi_state[<<b, e>>]
        \/ host'[<<"switch", b, e>>] = enc_switch_midi_state'[<<b, e>>]
        \/ ~Settled(<<"switch", b, e>>)'

PageFollows(p, e) ==
    \/ /\ Undisturbed(<<"page", p, e>>)
       /\ e \in shift_mode_switch_state'[p] <=> e \in shift_mode_switch_state[p]
       /\ e \in shift_mode_midi_override[p] => e \in shift_mode_midi_override'[p]
    \/ host'[<<"page", p, e>>] = (e \in shift_mode_switch_state'[p])
    \/ ~Settled(<<"page", p, e>>)'
    \/ e \in shift_mode_midi_override'[p]

SideFollows(b, s) ==
    cfg.sw_action[s] = "TOGGLE" =>
        \/ /\ host'[<<"side", b, s>>] = host[<<"side", b, s>>]
           /\ s \in side_switch_toggle_state'[b] <=> s \in side_switch_toggle_state[b]
        \/ host'[<<"side", b, s>>] = (s \in side_switch_toggle_state'[b])

AllFollow ==
    /\ UNCHANGED cfg
    /\ BankFollows
    /\ \A b \in Banks, e \in Encoders : SwitchFollows(b, e)
    /\ \A p \in Pages, e \in Encoders : PageFollows(p, e)
    /\ \A b \in Banks, s \in Sides : SideFollows(b, s)

HostInv == HostKnowsBank /\ HostKnowsSwitches /\ HostKnowsPages

\* If each topic follows what was said of it, host and device go on agreeing.
LEMMA FollowingKeepsHostInv ==
    ASSUME HostInv, AllFollow
    PROVE  HostInv'
<1>1. HostKnowsBank'
  BY DEF HostInv, AllFollow, BankFollows, HostKnowsBank, Undisturbed
<1>2. HostKnowsSwitches'
  <2>1. ASSUME NEW b \in Banks, NEW e \in Encoders,
               cfg'.enc_bank[<<b, e>>] = NoBank, Settled(<<"switch", b, e>>)'
        PROVE  host'[<<"switch", b, e>>] = enc_switch_midi_state'[<<b, e>>]
    <3>1. cfg' = cfg /\ SwitchFollows(b, e)
      BY DEF AllFollow
    <3> QED
      BY <2>1, <3>1 DEF HostInv, HostKnowsSwitches, SwitchFollows, Undisturbed
  <2> QED
    BY <2>1 DEF HostKnowsSwitches
<1>3. HostKnowsPages'
  <2>1. ASSUME NEW p \in Pages, NEW e \in Encoders,
               Settled(<<"page", p, e>>)', e \notin shift_mode_midi_override'[p]
        PROVE  host'[<<"page", p, e>>] = (e \in shift_mode_switch_state'[p])
    <3>1. PageFollows(p, e)
      BY DEF AllFollow
    <3> QED
      BY <2>1, <3>1 DEF HostInv, HostKnowsPages, PageFollows, Undisturbed
  <2>2. ASSUME NEW b \in Banks, NEW s \in Sides, cfg'.sw_action[s] = "TOGGLE"
        PROVE  host'[<<"side", b, s>>] = (s \in side_switch_toggle_state'[b])
    <3>1. cfg' = cfg /\ SideFollows(b, s)
      BY DEF AllFollow
    <3> QED
      BY <2>2, <3>1 DEF HostInv, HostKnowsPages, SideFollows
  <2> QED
    BY <2>1, <2>2 DEF HostKnowsPages
<1> QED
  BY <1>1, <1>2, <1>3 DEF HostInv

\* Nothing is said and no state changes.
LEMMA QuietFollows ==
    ASSUME UNCHANGED <<cfg, inbox, host, crossed, encoder_bank, enc_switch_midi_state, pages,
                       side_switch_toggle_state>>
    PROVE  AllFollow
  BY QuietTold DEF AllFollow, BankFollows, SwitchFollows, PageFollows, SideFollows,
                   Undisturbed, pages

\* One topic is spoken of, and the state of every other stays as it is.
LEMMA OtherTopicsFollow ==
    ASSUME UNCHANGED cfg, NEW t,
           \A u \in Topics : u # t => Undisturbed(u)
    PROVE  /\ t # BankTopic /\ UNCHANGED encoder_bank => BankFollows
           /\ \A b \in Banks, e \in Encoders :
                 t # <<"switch", b, e>>
                 /\ enc_switch_midi_state'[<<b, e>>] = enc_switch_midi_state[<<b, e>>]
                    => SwitchFollows(b, e)
           /\ \A p \in Pages, e \in Encoders :
                 t # <<"page", p, e>> /\ UNCHANGED pages => PageFollows(p, e)
           /\ \A b \in Banks, s \in Sides :
                 t # <<"side", b, s>> /\ UNCHANGED side_switch_toggle_state
                    => SideFollows(b, s)
<1>1. t # BankTopic /\ UNCHANGED encoder_bank => BankFollows
  BY TopicTypes DEF BankFollows
<1>2. ASSUME NEW b \in Banks, NEW e \in Encoders, t # <<"switch", b, e>>,
             enc_switch_midi_state'[<<b, e>>] = enc_switch_midi_state[<<b, e>>]
      PROVE  SwitchFollows(b, e)
  BY <1>2, TopicTypes DEF SwitchFollows
<1>3. ASSUME NEW p \in Pages, NEW e \in Encoders, t # <<"page", p, e>>, UNCHANGED pages
      PROVE  PageFollows(p, e)
  BY <1>3, TopicTypes DEF PageFollows, pages
<1>4. ASSUME NEW b \in Banks, NEW s \in Sides, t # <<"side", b, s>>,
             UNCHANGED side_switch_toggle_state
      PROVE  SideFollows(b, s)
  BY <1>4, TopicTypes DEF SideFollows, Undisturbed
<1> QED
  BY <1>1, <1>2, <1>3, <1>4

\* A switch of an encoder.
LEMMA SetSwitchIs ==
    ASSUME TypeOK, NEW b \in Banks, NEW e \in Encoders, NEW on, SetSwitch(b, e, on)
    PROVE  /\ enc_switch_midi_state'[<<b, e>>] = on
           /\ \A b2 \in Banks, e2 \in Encoders : <<b2, e2>> # <<b, e>>
                 => enc_switch_midi_state'[<<b2, e2>>] = enc_switch_midi_state[<<b2, e2>>]
  BY DEF SetSwitch, TypeOK, SwitchesType

\* What the action of a switch does to its state it also sends.
LEMMA SendSwitchFollows ==
    ASSUME TypeOK, UNCHANGED <<cfg, inbox, pages, side_switch_toggle_state>>,
           NEW b \in Banks, NEW e \in Encoders, NEW on \in BOOLEAN, SendSwitch(b, e, on)
    PROVE  AllFollow
<1> DEFINE target == cfg.enc_bank[<<b, e>>]
<1>1. CASE /\ target = NoBank
           /\ SetSwitch(b, e, on) /\ Send(<<"switch", b, e>>, on)
           /\ encoder_bank' = encoder_bank
  <2> DEFINE t == <<"switch", b, e>>
  <2>1. host'[t] = on /\ \A u \in Topics : u # t => Undisturbed(u)
    BY <1>1, SendTold, TopicTypes
  <2>2. SwitchFollows(b, e)
    BY <1>1, <2>1, SetSwitchIs DEF SwitchFollows
  <2>3. ASSUME NEW b2 \in Banks, NEW e2 \in Encoders
        PROVE  SwitchFollows(b2, e2)
    <3>1. CASE b2 = b /\ e2 = e
      BY <2>2, <3>1
    <3>2. CASE ~(b2 = b /\ e2 = e)
      <4>1. t # <<"switch", b2, e2>> /\ <<b2, e2>> # <<b, e>>
        BY <3>2
      <4>2. enc_switch_midi_state'[<<b2, e2>>] = enc_switch_midi_state[<<b2, e2>>]
        BY <1>1, <4>1, SetSwitchIs
      <4> QED
        BY <2>1, <4>1, <4>2, OtherTopicsFollow
    <3> QED
      BY <3>1, <3>2
  <2>4. t # BankTopic /\ (\A p, e2 : t # <<"page", p, e2>>)
        /\ \A b2, s : t # <<"side", b2, s>>
    BY TopicTypes
  <2> HIDE DEF t
  <2> QED
    BY <1>1, <2>1, <2>3, <2>4, OtherTopicsFollow DEF AllFollow
<1>2. ASSUME target \in Banks, SetSwitch(b, e, FALSE),
             NEW t \in {BankTopic, <<"none">>}, \A u \in Topics : u # t => Undisturbed(u),
             BankFollows
      PROVE  AllFollow
  <2>0. \A b2 \in Banks, e2 \in Encoders : <<b2, e2>> # <<b, e>>
            => enc_switch_midi_state'[<<b2, e2>>] = enc_switch_midi_state[<<b2, e2>>]
    <3>1. SetSwitch(b, e, FALSE)
      BY <1>2
    <3> QED
      BY <3>1, SetSwitchIs
  <2>1. target # NoBank
    BY <1>2, BankTypes
  <2>2. ASSUME NEW b2 \in Banks, NEW e2 \in Encoders
        PROVE  SwitchFollows(b2, e2)
    <3>1. CASE b2 = b /\ e2 = e
      BY <2>1, <3>1 DEF SwitchFollows
    <3>2. CASE ~(b2 = b /\ e2 = e)
      <4>1. t # <<"switch", b2, e2>> /\ <<b2, e2>> # <<b, e>>
        BY <1>2, <3>2 DEF BankTopic
      <4>2. enc_switch_midi_state'[<<b2, e2>>] = enc_switch_midi_state[<<b2, e2>>]
        BY <2>0, <4>1
      <4> QED
        BY <1>2, <4>1, <4>2, OtherTopicsFollow
    <3> QED
      BY <3>1, <3>2
  <2>3. (\A p, e2 : t # <<"page", p, e2>>) /\ \A b2, s : t # <<"side", b2, s>>
    BY <1>2 DEF BankTopic
  <2> QED
    BY <1>2, <2>2, <2>3, OtherTopicsFollow DEF AllFollow
<1>3. CASE /\ target \in Banks
           /\ SetSwitch(b, e, FALSE) /\ Send(BankTopic, target)
           /\ encoder_bank' = target
  <2>1. host'[BankTopic] = target /\ \A u \in Topics : u # BankTopic => Undisturbed(u)
    BY <1>3, SendTold, TopicTypes
  <2>2. BankFollows
    BY <1>3, <2>1 DEF BankFollows
  <2> HIDE DEF target
  <2> QED
    BY <1>2, <1>3, <2>1, <2>2
<1>4. CASE /\ target \in Banks
           /\ SetSwitch(b, e, FALSE) /\ Quiet
           /\ encoder_bank' = encoder_bank
  <2>1. \A u : Undisturbed(u)
    BY <1>4, QuietTold DEF Quiet
  <2>2. BankFollows
    BY <1>4, <2>1 DEF BankFollows
  <2> HIDE DEF target
  <2> QED
    BY <1>2, <1>4, <2>1, <2>2
<1> QED
  BY <1>1, <1>3, <1>4, SendSwitchIs

\* Whatever an encoder switch means, what it changes is what it sends.
LEMMA EncoderStepFollows ==
    ASSUME TypeOK, EncoderStep
    PROVE  AllFollow
<1>1. UNCHANGED <<cfg, inbox, side_switch_toggle_state>> /\ i \in Encoders
      /\ encoder_bank \in Banks
  BY EncoderStepIs DEF NextEncoder, TypeOK, ModesType
<1>2. CASE PassedOver
  BY <1>1, <1>2, QuietFollows DEF PassedOver, Quiet, switches
<1>3. ASSUME NEW n \in Banks, BankPicked(n)
      PROVE  AllFollow
  <2>1. host'[BankTopic] = n /\ \A u \in Topics : u # BankTopic => Undisturbed(u)
    BY <1>1, <1>3, SendTold, TopicTypes DEF BankPicked
  <2>2. BankFollows
    BY <1>3, <2>1 DEF BankPicked, BankFollows
  <2>3. UNCHANGED <<pages, enc_switch_midi_state>>
    BY <1>3 DEF BankPicked, switches
  <2> QED
    BY <1>1, <2>1, <2>2, <2>3, TopicTypes, OtherTopicsFollow DEF AllFollow
<1>4. ASSUME NEW on \in BOOLEAN, Switched(on)
      PROVE  AllFollow
  BY <1>1, <1>4, SendSwitchFollows DEF Switched
<1>5. CASE PageSwitch
  <2> DEFINE t == <<"page", mode, i>>
  <2>1. /\ mode \in Pages /\ Send(t, Pressed)
        /\ UNCHANGED <<encoder_bank, enc_switch_midi_state, shift_mode_midi_override>>
    BY <1>5 DEF PageSwitch, switches
  <2>2. PICK m \in Pages : m = mode
    BY <2>1
  <2>3. PICK n \in Encoders : n = i
    BY <1>1
  <2>4. t = <<"page", m, n>> /\ t \in Topics
    BY <2>2, <2>3, TopicTypes
  <2>5. host'[t] = Pressed /\ \A u \in Topics : u # t => Undisturbed(u)
    BY <1>1, <2>1, <2>4, SendTold
  <2> HIDE DEF t
  <2>6. shift_mode_switch_state' =
          IF n \in shift_mode_midi_override[m] THEN shift_mode_switch_state
          ELSE [shift_mode_switch_state EXCEPT
                  ![m] = IF Pressed THEN shift_mode_switch_state[m] \cup {n}
                         ELSE shift_mode_switch_state[m] \ {n}]
    BY <1>5, <2>2, <2>3 DEF PageSwitch
  <2>7. \A p \in Pages, e \in Encoders : <<p, e>> # <<m, n>>
            => (e \in shift_mode_switch_state'[p] <=> e \in shift_mode_switch_state[p])
    BY <2>6 DEF TypeOK, TogglesType
  <2>8. n \in shift_mode_midi_override[m]
        \/ (Pressed <=> n \in shift_mode_switch_state'[m])
    BY <2>6 DEF TypeOK, TogglesType
  <2>9. ASSUME NEW p \in Pages, NEW e \in Encoders
        PROVE  PageFollows(p, e)
    <3>1. CASE p = m /\ e = n
      <4>1. \/ e \in shift_mode_midi_override'[p]
            \/ host'[<<"page", p, e>>] = (e \in shift_mode_switch_state'[p])
        BY <2>1, <2>4, <2>5, <2>8, <3>1 DEF Pressed
      <4> QED
        BY <4>1 DEF PageFollows
    <3>2. CASE ~(p = m /\ e = n)
      <4>1. <<"page", p, e>> # t
        BY <2>4, <3>2
      <4>2. Undisturbed(<<"page", p, e>>)
        BY <2>5, <4>1, TopicTypes
      <4> QED
        BY <2>1, <2>7, <3>2, <4>2 DEF PageFollows
    <3> QED
      BY <3>1, <3>2
  <2>10. /\ t # BankTopic /\ (\A b, e : t # <<"switch", b, e>>)
         /\ \A b, s : t # <<"side", b, s>>
    BY <2>4, TopicTypes
  <2>11. BankFollows /\ (\A b \in Banks, e \in Encoders : SwitchFollows(b, e))
         /\ \A b \in Banks, s \in Sides : SideFollows(b, s)
    BY <1>1, <2>1, <2>5, <2>10, OtherTopicsFollow
  <2> QED
    BY <1>1, <2>9, <2>11 DEF AllFollow
<1> QED
  BY <1>2, <1>3, <1>4, <1>5, EncoderStepIs

\* Whatever a side switch means, what it changes is what it sends.
LEMMA SideSwitchFollows ==
    ASSUME TypeOK, SideSwitch
    PROVE  AllFollow
<1>1. UNCHANGED <<cfg, switches, pages, inbox>> /\ switch_num \in Sides
      /\ UNCHANGED enc_switch_midi_state
  BY LoopIsAtAnEdge DEF SideSwitch, NextSide, switches
<1>2. SideBank \in Banks
  BY BankTypes DEF SideBank, TypeOK, ModesType
<1>3. PICK b \in Banks : b = SideBank
  BY <1>2
<1>4. PICK n \in Sides : n = switch_num
  BY <1>1
<1> DEFINE t == <<"side", b, n>>
<1>5. /\ t \in Topics /\ t # BankTopic /\ (\A b2, e : t # <<"switch", b2, e>>)
      /\ \A p, e : t # <<"page", p, e>>
  BY TopicTypes
<1>6. \A b2, s : <<"side", b2, s>> = t => b2 = b /\ s = n
  OBVIOUS
<1>7. t = <<"side", SideBank, switch_num>> /\ Action = cfg.sw_action[n]
  BY <1>3, <1>4 DEF Action
<1> HIDE DEF t
<1>8. CASE SideHold
  <2>1. Send(t, Down) /\ Action = "HOLD" /\ UNCHANGED <<encoder_bank, side_switch_toggle_state>>
    BY <1>7, <1>8 DEF SideHold
  <2>2. \A u \in Topics : u # t => Undisturbed(u)
    BY <1>1, <1>5, <2>1, SendTold
  <2>3. ASSUME NEW b2 \in Banks, NEW s \in Sides
        PROVE  SideFollows(b2, s)
    <3>1. CASE s = n
      BY <1>7, <2>1, <3>1 DEF SideFollows
    <3>2. CASE s # n
      BY <1>1, <1>6, <2>1, <2>2, <3>2, OtherTopicsFollow
    <3> QED
      BY <3>1, <3>2
  <2> QED
    BY <1>1, <1>5, <2>1, <2>2, <2>3, OtherTopicsFollow DEF AllFollow
<1>9. CASE SideToggle
  <2>1. UNCHANGED encoder_bank
    BY <1>9 DEF SideToggle
  <2>2. CASE Down
    <3>1. /\ side_switch_toggle_state' =
               [side_switch_toggle_state EXCEPT
                  ![b] = Edges(side_switch_toggle_state[b], {n})]
          /\ Send(t, n \in side_switch_toggle_state'[b])
      BY <1>3, <1>4, <1>7, <1>9, <2>2 DEF SideToggle
    <3>2. PICK on : on = (n \in side_switch_toggle_state'[b])
      OBVIOUS
    <3>3. host'[t] = on /\ \A u \in Topics : u # t => Undisturbed(u)
      BY <1>1, <1>5, <3>1, <3>2, SendTold
    <3>4. \A b2 \in Banks, s \in Sides : <<b2, s>> # <<b, n>>
              => (s \in side_switch_toggle_state'[b2] <=> s \in side_switch_toggle_state[b2])
      BY <3>1 DEF TypeOK, TogglesType, Edges
    <3>5. ASSUME NEW b2 \in Banks, NEW s \in Sides
          PROVE  SideFollows(b2, s)
      <4>1. CASE b2 = b /\ s = n
        <5>1. host'[<<"side", b2, s>>] = (s \in side_switch_toggle_state'[b2])
          BY <3>2, <3>3, <4>1 DEF t
        <5> QED
          BY <5>1 DEF SideFollows
      <4>2. CASE ~(b2 = b /\ s = n)
        <5>1. Undisturbed(<<"side", b2, s>>)
          BY <1>6, <3>3, <4>2, TopicTypes
        <5> QED
          BY <3>4, <4>2, <5>1 DEF SideFollows, Undisturbed
      <4> QED
        BY <4>1, <4>2
    <3> QED
      BY <1>1, <1>5, <2>1, <3>3, <3>5, OtherTopicsFollow DEF AllFollow
  <2>3. CASE ~Down
    BY <1>1, <1>9, <2>1, <2>3, QuietFollows DEF SideToggle, Quiet
  <2> QED
    BY <2>2, <2>3
<1>10. CASE ShiftPage \/ ShiftPageToggle \/ BankSelect
  <2>1. UNCHANGED <<host, crossed, encoder_bank, side_switch_toggle_state>>
    BY <1>10 DEF ShiftPage, ShiftPageToggle, BankSelect, Quiet
  <2> QED
    BY <1>1, <2>1, QuietFollows
<1>11. CASE BankChange
  <2>1. UNCHANGED side_switch_toggle_state
    BY <1>11 DEF BankChange
  <2>2. CASE Down /\ NewBank # NoBank
    <3>1. encoder_bank' = NewBank /\ Send(BankTopic, NewBank)
      BY <1>11, <2>2 DEF BankChange
    <3>2. host'[BankTopic] = encoder_bank'
          /\ \A u \in Topics : u # BankTopic => Undisturbed(u)
      BY <1>1, <3>1, SendTold, TopicTypes
    <3>3. BankFollows
      BY <3>2 DEF BankFollows
    <3> QED
      BY <1>1, <2>1, <3>2, <3>3, TopicTypes, OtherTopicsFollow DEF AllFollow
  <2>3. CASE ~(Down /\ NewBank # NoBank)
    BY <1>1, <1>11, <2>1, <2>3, QuietFollows DEF BankChange, Quiet
  <2> QED
    BY <2>2, <2>3
<1> QED
  BY <1>8, <1>9, <1>10, <1>11 DEF SideSwitch

\* What the host sends is under way, and excepted until it has arrived.
LEMMA HostSendFollows ==
    ASSUME TypeOK, NEW m \in cfg.uses.messages, HostSend(m)
    PROVE  AllFollow
<1> DEFINE t == m.topic
<1>1. UNCHANGED <<cfg, encoder_bank, enc_switch_midi_state, pages, side_switch_toggle_state>>
  BY DEF HostSend, modes, switches
<1>2. ~Settled(t)' /\ \A u \in Topics : u # t => Undisturbed(u)
  BY HostSendTold
<1>3. \A b, s : t # <<"side", b, s>>
  BY MessageTypes DEF TypeOK
<1> HIDE DEF t
<1>4. BankFollows
  BY <1>1, <1>2, OtherTopicsFollow DEF BankFollows
<1>5. ASSUME NEW b \in Banks, NEW e \in Encoders
      PROVE  SwitchFollows(b, e)
  BY <1>1, <1>2, OtherTopicsFollow DEF SwitchFollows
<1>6. ASSUME NEW p \in Pages, NEW e \in Encoders
      PROVE  PageFollows(p, e)
  BY <1>1, <1>2, OtherTopicsFollow DEF PageFollows
<1> QED
  BY <1>1, <1>2, <1>3, <1>4, <1>5, <1>6, OtherTopicsFollow DEF AllFollow

\* A packet that is taken sets what the host believes already, or has crossed.
LEMMA UsbStepFollows ==
    ASSUME TypeOK, LastTold, UsbStep
    PROVE  AllFollow
<1> DEFINE h == Head(inbox)
<1>1. ASSUME Receive
      PROVE  /\ UNCHANGED <<cfg, side_switch_toggle_state, host, crossed>>
             /\ \A u : u # h.topic => Undisturbed(u)
             /\ \A u \in Topics : u = h.topic /\ Settled(u)' => host'[u] = ToldBy(h)
             /\ \A b, s : h.topic # <<"side", b, s>>
             /\ h.topic \in Taken
  <2>1. h \in cfg.uses.messages
    BY <1>1, HeadTypes DEF Receive
  <2>2. h.topic \in Taken /\ \A b, s : h.topic # <<"side", b, s>>
    BY <2>1, MessageTypes DEF TypeOK
  <2> QED
    BY <1>1, <2>2, ReceiveTold DEF Receive
<1>2. CASE ReceiveBank
  <2>1. Receive /\ h.topic = BankTopic /\ encoder_bank' = h.value
        /\ UNCHANGED <<switches, pages>>
    BY <1>2 DEF ReceiveBank
  <2>2. BankFollows
    <3>1. Settled(BankTopic)' => host'[BankTopic] = ToldBy(h)
      BY <1>1, <2>1, TopicTypes
    <3>2. ToldBy(h) = encoder_bank'
      BY <2>1 DEF ToldBy
    <3> QED
      BY <3>1, <3>2 DEF BankFollows
  <2>3. UNCHANGED enc_switch_midi_state
    BY <2>1 DEF switches
  <2>4. \A u \in Topics : u # BankTopic => Undisturbed(u)
    BY <1>1, <2>1
  <2> HIDE DEF h
  <2> QED
    BY <1>1, <2>1, <2>2, <2>3, <2>4, TopicTypes, OtherTopicsFollow DEF AllFollow
<1>3. CASE ReceiveSwitch
  <2>1. Receive /\ h.topic \in SwitchTopics /\ UNCHANGED <<encoder_bank, pages>>
    BY <1>3 DEF ReceiveSwitch
  <2>2. PICK b \in Banks, e \in Encoders : h.topic = <<"switch", b, e>>
    BY <2>1 DEF SwitchTopics
  <2> DEFINE t == <<"switch", b, e>>
  <2>3. Feedback(b, e, h.value)
    BY <1>3, <2>2 DEF ReceiveSwitch
  <2>4. enc_switch_midi_state' = [enc_switch_midi_state EXCEPT ![<<b, e>>] = (h.value # 0)]
    BY <2>3 DEF Feedback
  <2>5. t \in Topics /\ t # BankTopic /\ (\A p, e2 : t # <<"page", p, e2>>)
        /\ \A b2, s : t # <<"side", b2, s>>
    BY TopicTypes
  <2>6. \A u \in Topics : u # t => Undisturbed(u)
    BY <1>1, <2>1, <2>2
  <2>7. ToldBy(h) = (h.value # 0)
    BY <2>2, <2>5 DEF ToldBy
  <2>8. Settled(t)' => host'[t] = (h.value # 0)
    <3>1. t = h.topic
      BY <2>2
    <3> QED
      BY <1>1, <2>1, <2>5, <2>7, <3>1
  <2> HIDE DEF h
  <2>9. SwitchFollows(b, e)
    <3>1. enc_switch_midi_state'[<<b, e>>] = (h.value # 0)
      BY <2>4 DEF TypeOK, SwitchesType
    <3> QED
      BY <2>8, <3>1 DEF SwitchFollows
  <2>10. ASSUME NEW b2 \in Banks, NEW e2 \in Encoders
         PROVE  SwitchFollows(b2, e2)
    <3>1. CASE b2 = b /\ e2 = e
      BY <2>9, <3>1
    <3>2. CASE ~(b2 = b /\ e2 = e)
      <4>1. t # <<"switch", b2, e2>> /\ <<b2, e2>> # <<b, e>>
        BY <3>2
      <4>2. enc_switch_midi_state'[<<b2, e2>>] = enc_switch_midi_state[<<b2, e2>>]
        BY <2>4, <4>1 DEF TypeOK, SwitchesType
      <4> HIDE DEF t
      <4> QED
        BY <1>1, <2>1, <2>6, <4>1, <4>2, OtherTopicsFollow
    <3> QED
      BY <3>1, <3>2
  <2> HIDE DEF t
  <2> QED
    BY <1>1, <2>1, <2>5, <2>6, <2>10, OtherTopicsFollow DEF AllFollow
<1>4. CASE ReceivePage
  <2>1. Receive /\ h.topic \in PageTopics /\ UNCHANGED <<encoder_bank, switches>>
    BY <1>4 DEF ReceivePage
  <2>2. PICK m \in Pages, n \in Encoders : h.topic = <<"page", m, n>>
    BY <2>1 DEF PageTopics
  <2> DEFINE t == <<"page", m, n>>
  <2>3. /\ shift_mode_midi_override' =
             [shift_mode_midi_override EXCEPT ![m] = shift_mode_midi_override[m] \cup {n}]
        /\ shift_mode_switch_state' =
             [shift_mode_switch_state EXCEPT
                ![m] = IF h.value # 0 THEN shift_mode_switch_state[m] \cup {n}
                       ELSE shift_mode_switch_state[m] \ {n}]
    <3>1. h.topic[2] = m /\ h.topic[3] = n
      BY <2>2
    <3> QED
      BY <1>4, <3>1 DEF ReceivePage
  <2> HIDE DEF h
  <2>4. ASSUME NEW p \in Pages, NEW e \in Encoders
        PROVE  PageFollows(p, e)
    <3>1. CASE p = m /\ e = n
      <4>1. e \in shift_mode_midi_override'[p]
        BY <2>3, <3>1 DEF TypeOK, TogglesType
      <4> QED
        BY <4>1 DEF PageFollows
    <3>2. CASE ~(p = m /\ e = n)
      <4>1. Undisturbed(<<"page", p, e>>)
        BY <1>1, <2>1, <2>2, <3>2
      <4>2. /\ e \in shift_mode_switch_state'[p] <=> e \in shift_mode_switch_state[p]
            /\ e \in shift_mode_midi_override[p] => e \in shift_mode_midi_override'[p]
        BY <2>3, <3>2 DEF TypeOK, TogglesType
      <4> QED
        BY <4>1, <4>2 DEF PageFollows
    <3> QED
      BY <3>1, <3>2
  <2>5. /\ t # BankTopic /\ (\A b, e : t # <<"switch", b, e>>)
        /\ \A b, s : t # <<"side", b, s>>
    BY TopicTypes
  <2>6. \A u \in Topics : u # t => Undisturbed(u)
    BY <1>1, <2>1, <2>2
  <2>7. UNCHANGED enc_switch_midi_state
    BY <2>1 DEF switches
  <2> HIDE DEF t
  <2> QED
    BY <1>1, <2>1, <2>4, <2>5, <2>6, <2>7, OtherTopicsFollow DEF AllFollow
<1>5. CASE ReceiveNative \/ ReceiveSettings
  <2>1. /\ Receive /\ h.topic \in {<<"native">>, <<"settings">>}
        /\ UNCHANGED <<encoder_bank, enc_switch_midi_state, pages>>
    BY <1>5 DEF ReceiveNative, ReceiveSettings, switches
  <2>2. \A u \in Topics : u # h.topic
    BY <2>1 DEF Topics, SwitchTopics, PageTopics, SideTopics, BankTopic
  <2>3. \A u \in Topics : Undisturbed(u)
    BY <1>1, <2>1, <2>2
  <2> QED
    BY <1>1, <2>1, <2>3, TopicTypes
       DEF AllFollow, BankFollows, SwitchFollows, PageFollows, SideFollows, pages
<1>6. CASE UsbConfigured \/ EndReceive
  <2>1. UNCHANGED <<cfg, inbox, host, crossed, encoder_bank, enc_switch_midi_state, pages,
                    side_switch_toggle_state>>
    BY <1>6 DEF UsbConfigured, EndReceive, modes, switches
  <2> QED
    BY <2>1, QuietFollows
<1> QED
  BY <1>2, <1>3, <1>4, <1>5, <1>6 DEF UsbStep

\* Every step keeps the agreement of host and device.
LEMMA NextHostInv == TypeOK /\ LastTold /\ HostInv /\ [Next]_vars => HostInv'
<1> SUFFICES ASSUME TypeOK, LastTold, HostInv, [Next]_vars PROVE AllFollow
  BY FollowingKeepsHostInv
<1>1. CASE NativeSide \/ EndSides \/ UNCHANGED vars
      \/ (\E pressed \in SUBSET cfg.uses.sides : BeginSides(pressed))
      \/ (\E pressed \in SUBSET cfg.uses.encoders : BeginEncoders(pressed))
  <2>1. UNCHANGED <<cfg, inbox, host, crossed, encoder_bank, enc_switch_midi_state, pages,
                    side_switch_toggle_state>>
    BY <1>1 DEF NativeSide, NextSide, EndSides, BeginSides, BeginEncoders, vars, modes,
                switches, Quiet
  <2> QED
    BY <2>1, QuietFollows
<1> QED
  BY <1>1, EncoderStepFollows, SideSwitchFollows, UsbStepFollows, HostSendFollows
     DEF Next, SideStep

\* The messages under way still tell what the host believes.
LEMMA NextTold == TypeOK /\ LastTold /\ [Next]_vars => LastTold'
<1> SUFFICES ASSUME TypeOK, LastTold, [Next]_vars PROVE LastTold'
  OBVIOUS
<1>1. CASE NativeSide \/ EndSides \/ UsbConfigured \/ EndReceive \/ UNCHANGED vars
      \/ (\E pressed \in SUBSET cfg.uses.sides : BeginSides(pressed))
      \/ (\E pressed \in SUBSET cfg.uses.encoders : BeginEncoders(pressed))
  <2>1. UNCHANGED <<inbox, host, crossed>>
    BY <1>1 DEF NativeSide, NextSide, EndSides, BeginSides, BeginEncoders, UsbConfigured,
                EndReceive, vars, Quiet
  <2> QED
    BY <2>1, QuietTold
<1>2. CASE ReceiveBank \/ ReceiveSwitch \/ ReceivePage \/ ReceiveNative \/ ReceiveSettings
  <2>1. Receive
    BY <1>2 DEF ReceiveBank, ReceiveSwitch, ReceivePage, ReceiveNative, ReceiveSettings
  <2> QED
    BY <2>1, ReceiveTold
<1>3. ASSUME NEW m \in cfg.uses.messages, HostSend(m)
      PROVE  LastTold'
  BY <1>3, HostSendTold
<1>4. ASSUME UNCHANGED inbox, Quiet
      PROVE  LastTold'
  BY <1>4, QuietTold DEF Quiet
<1>5. CASE EncoderStep
  <2>1. UNCHANGED inbox /\ i \in Encoders /\ encoder_bank \in Banks
    BY <1>5, EncoderStepIs DEF NextEncoder, TypeOK, ModesType
  <2>2. CASE PassedOver
    BY <1>4, <2>1, <2>2 DEF PassedOver
  <2>3. ASSUME NEW n \in Banks, BankPicked(n)
        PROVE  LastTold'
    BY <2>1, <2>3, SendTold, TopicTypes DEF BankPicked
  <2>4. ASSUME NEW on \in BOOLEAN, Switched(on)
        PROVE  LastTold'
    <3>1. PICK b \in Banks, e \in Encoders : b = encoder_bank /\ e = i
      BY <2>1
    <3>2. SendSwitch(b, e, on)
      BY <2>4, <3>1 DEF Switched
    <3>3. Send(<<"switch", b, e>>, on) => LastTold'
      BY <2>1, SendTold, TopicTypes
    <3>4. Send(BankTopic, cfg.enc_bank[<<b, e>>]) => LastTold'
      BY <2>1, SendTold, TopicTypes
    <3> QED
      BY <1>4, <2>1, <3>2, <3>3, <3>4, SendSwitchIs
  <2>5. CASE PageSwitch
    <3>1. Send(<<"page", mode, i>>, Pressed) /\ <<"page", mode, i>> \in Topics
      BY <2>1, <2>5, TopicTypes DEF PageSwitch
    <3> QED
      BY <2>1, <3>1, SendTold
  <2> QED
    BY <1>5, <2>2, <2>3, <2>4, <2>5, EncoderStepIs
<1>6. CASE SideSwitch
  <2>1. UNCHANGED inbox /\ switch_num \in Sides
    BY <1>6, LoopIsAtAnEdge DEF SideSwitch, NextSide
  <2>2. \/ Quiet
        \/ \E v : Send(<<"side", SideBank, switch_num>>, v)
        \/ \E v : Send(BankTopic, v)
    BY <1>6 DEF SideSwitch, SideHold, SideToggle, ShiftPage, ShiftPageToggle, BankChange,
                BankSelect
  <2>3. <<"side", SideBank, switch_num>> \in Topics /\ BankTopic \in Topics
    BY <2>1, TopicTypes, BankTypes DEF SideBank, TypeOK, ModesType
  <2> QED
    BY <1>4, <2>1, <2>2, <2>3, SendTold
<1> QED
  BY <1>1, <1>2, <1>3, <1>5, <1>6 DEF Next, SideStep, UsbStep

-----------------------------------------------------------------------------
(* Lights.                                                                 *)

\* Setting a switch sets its light, unless the host has colored it.
LEMMA SetSwitchLights ==
    ASSUME TypeOK, LedFollowsSwitch, NEW b \in Banks, NEW e \in Encoders,
           NEW on \in BOOLEAN, SetSwitch(b, e, on)
    PROVE  LedFollowsSwitch'
<1> DEFINE x == <<b, e>>
<1>1. /\ enc_switch_midi_state' = [enc_switch_midi_state EXCEPT ![x] = on]
      /\ switch_color_buffer' = [switch_color_buffer EXCEPT ![x] = Color(b, e, on)]
      /\ unlit' = unlit \ {x} /\ switch_color_overide' = switch_color_overide
  BY DEF SetSwitch
<1>2. x \in Banks \X Encoders
  OBVIOUS
<1>3. ~switch_color_overide[x] => Color(b, e, on) = IF on THEN "active" ELSE "inactive"
  BY DEF Color
<1> SUFFICES ASSUME NEW b2 \in Banks, NEW e2 \in Encoders,
                    ~switch_color_overide'[<<b2, e2>>], <<b2, e2>> \notin unlit'
             PROVE  switch_color_buffer'[<<b2, e2>>] =
                      IF enc_switch_midi_state'[<<b2, e2>>] THEN "active" ELSE "inactive"
  BY DEF LedFollowsSwitch
<1> DEFINE y == <<b2, e2>>
<1>4. y \in Banks \X Encoders
  OBVIOUS
<1>5. y # x => y \notin unlit
              /\ switch_color_buffer[y] = IF enc_switch_midi_state[y] THEN "active" ELSE "inactive"
  BY <1>1 DEF LedFollowsSwitch
<1> HIDE DEF x, y
<1>6. CASE y = x
  <2>1. enc_switch_midi_state'[y] = on /\ switch_color_buffer'[y] = Color(b, e, on)
    BY <1>1, <1>2, <1>6 DEF TypeOK, SwitchesType
  <2> QED
    BY <1>1, <1>3, <1>6, <2>1 DEF y
<1>7. CASE y # x
  <2>1. /\ enc_switch_midi_state'[y] = enc_switch_midi_state[y]
        /\ switch_color_buffer'[y] = switch_color_buffer[y]
    BY <1>1, <1>4, <1>7 DEF TypeOK, SwitchesType
  <2> QED
    BY <1>5, <1>7, <2>1 DEF y
<1> QED
  BY <1>6, <1>7

\* What the host sets a switch to, it lights; zero gives the light back.
LEMMA FeedbackLights ==
    ASSUME TypeOK, LedFollowsSwitch, NEW b \in Banks, NEW e \in Encoders, NEW v,
           Feedback(b, e, v)
    PROVE  LedFollowsSwitch'
<1> DEFINE x == <<b, e>>
           color == IF v = 0 THEN "inactive" ELSE IF v < 126 THEN "set" ELSE "active"
<1>1. /\ switch_color_overide' = [switch_color_overide EXCEPT ![x] = (v # 0)]
      /\ switch_color_buffer' = [switch_color_buffer EXCEPT ![x] = color]
      /\ enc_switch_midi_state' = [enc_switch_midi_state EXCEPT ![x] = (v # 0)]
      /\ unlit' = unlit \ {x}
  BY DEF Feedback
<1>2. x \in Banks \X Encoders
  OBVIOUS
<1>3. v = 0 => color = "inactive"
  OBVIOUS
<1> SUFFICES ASSUME NEW b2 \in Banks, NEW e2 \in Encoders,
                    ~switch_color_overide'[<<b2, e2>>], <<b2, e2>> \notin unlit'
             PROVE  switch_color_buffer'[<<b2, e2>>] =
                      IF enc_switch_midi_state'[<<b2, e2>>] THEN "active" ELSE "inactive"
  BY DEF LedFollowsSwitch
<1> DEFINE y == <<b2, e2>>
<1>4. y \in Banks \X Encoders /\ ~switch_color_overide'[y] /\ y \notin unlit'
  OBVIOUS
<1>5. ~switch_color_overide[y] /\ y \notin unlit
      => switch_color_buffer[y] = IF enc_switch_midi_state[y] THEN "active" ELSE "inactive"
  BY DEF LedFollowsSwitch
<1> HIDE DEF x, y, color
<1>6. CASE y = x
  <2>1. /\ enc_switch_midi_state'[y] = (v # 0) /\ switch_color_buffer'[y] = color
        /\ switch_color_overide'[y] = (v # 0)
    BY <1>1, <1>2, <1>6 DEF TypeOK, SwitchesType
  <2>2. v = 0
    BY <1>4, <2>1
  <2> QED
    BY <1>3, <2>1, <2>2 DEF y
<1>7. CASE y # x
  <2>1. /\ enc_switch_midi_state'[y] = enc_switch_midi_state[y]
        /\ switch_color_buffer'[y] = switch_color_buffer[y]
        /\ switch_color_overide'[y] = switch_color_overide[y]
        /\ y \notin unlit
    BY <1>1, <1>4, <1>7 DEF TypeOK, SwitchesType
  <2> QED
    BY <1>4, <1>5, <2>1 DEF y
<1> QED
  BY <1>6, <1>7

\* Every step leaves the lights with the states of their switches.
LEMMA NextLights == TypeOK /\ LedFollowsSwitch /\ [Next]_vars => LedFollowsSwitch'
<1> SUFFICES ASSUME TypeOK, LedFollowsSwitch, [Next]_vars PROVE LedFollowsSwitch'
  OBVIOUS
<1>1. UNCHANGED switches => LedFollowsSwitch'
  BY DEF switches, LedFollowsSwitch
<1>2. CASE EncoderStep
  <2>1. i \in Encoders /\ encoder_bank \in Banks
    BY <1>2, EncoderStepIs DEF TypeOK, ModesType
  <2>2. PICK b \in Banks, e \in Encoders : b = encoder_bank /\ e = i
    BY <2>1
  <2>3. ASSUME NEW on \in BOOLEAN, Switched(on)
        PROVE  LedFollowsSwitch'
    <3>1. SendSwitch(b, e, on)
      BY <2>2, <2>3 DEF Switched
    <3>2. SetSwitch(b, e, on) \/ SetSwitch(b, e, FALSE)
      BY <3>1, SendSwitchIs
    <3> QED
      BY <3>2, SetSwitchLights
  <2>4. PassedOver \/ PageSwitch \/ (\E n \in Banks : BankPicked(n)) => UNCHANGED switches
    BY DEF PassedOver, PageSwitch, BankPicked
  <2> QED
    BY <1>1, <1>2, <2>3, <2>4, EncoderStepIs
<1>3. CASE ReceiveSwitch
  <2>1. PICK b \in Banks, e \in Encoders : Head(inbox).topic = <<"switch", b, e>>
    BY <1>3 DEF ReceiveSwitch, SwitchTopics
  <2>2. Feedback(b, e, Head(inbox).value)
    BY <1>3, <2>1 DEF ReceiveSwitch
  <2> QED
    BY <2>2, FeedbackLights
<1>4. CASE ReceiveSettings
  <2>1. /\ switch_color_buffer' = [x \in Banks \X Encoders |-> "inactive"]
        /\ unlit' = {x \in Banks \X Encoders : enc_switch_midi_state[x]}
        /\ enc_switch_midi_state' = enc_switch_midi_state
    BY <1>4 DEF ReceiveSettings
  <2> QED
    BY <2>1 DEF LedFollowsSwitch
<1>5. CASE \/ SideSwitch \/ NativeSide \/ EndSides \/ ReceiveBank \/ ReceivePage
           \/ ReceiveNative \/ UsbConfigured \/ EndReceive \/ UNCHANGED vars
  <2>1. UNCHANGED switches
    BY <1>5 DEF SideSwitch, NativeSide, NextSide, EndSides, ReceiveBank, ReceivePage,
                ReceiveNative, UsbConfigured, EndReceive, vars
  <2> QED
    BY <1>1, <2>1
<1>6. CASE \/ \E m \in cfg.uses.messages : HostSend(m)
           \/ \E pressed \in SUBSET cfg.uses.sides : BeginSides(pressed)
           \/ \E pressed \in SUBSET cfg.uses.encoders : BeginEncoders(pressed)
  <2>1. UNCHANGED switches
    BY <1>6 DEF HostSend, BeginSides, BeginEncoders
  <2> QED
    BY <1>1, <2>1
<1> QED
  BY <1>2, <1>3, <1>4, <1>5, <1>6 DEF Next, SideStep, UsbStep

-----------------------------------------------------------------------------
(* What is momentary.                                                      *)

\* Every step keeps the edges in agreement with the states they came from.
LEMMA NextEdges == TypeOK /\ EdgesOfState /\ [Next]_vars => EdgesOfState'
<1> SUFFICES ASSUME TypeOK, EdgesOfState, [Next]_vars PROVE EdgesOfState'
  OBVIOUS
<1>1. ASSUME UNCHANGED sides, pc' = pc \/ pc' # "sides",
             pc' = pc \/ SideEdges = {}
      PROVE  EdgesOfState'
  BY <1>1 DEF EdgesOfState, SideEdges, sides
<1>2. CASE NextSide
  BY <1>2 DEF NextSide, EdgesOfState, SideEdges
<1>3. ASSUME NEW pressed \in SUBSET cfg.uses.sides, BeginSides(pressed)
      PROVE  EdgesOfState'
  <2>1. CASE Combo(pressed)
    <3>1. g_side_switch_down' = {} /\ g_side_switch_up' = {}
      BY <1>3, <2>1 DEF BeginSides
    <3> QED
      BY <3>1 DEF EdgesOfState, SideEdges
  <2>2. CASE ~Combo(pressed)
    <3>1. /\ pc' = "sides" /\ g_side_switch_state' = pressed
          /\ g_side_switch_down' = pressed \ g_side_switch_state
          /\ g_side_switch_up' = g_side_switch_state \ pressed
      BY <1>3, <2>2 DEF BeginSides
    <3> QED
      BY <3>1 DEF EdgesOfState
  <2> QED
    BY <2>1, <2>2
<1>4. CASE EndSides
  BY <1>1, <1>4 DEF EndSides
<1>5. CASE EncoderStep
  BY <1>1, <1>5, EncoderStepIs DEF NextEncoder
<1>6. CASE UsbStep
  <2>1. /\ UNCHANGED sides
        /\ pc' = pc \/ (pc = "usb" /\ pc' = "idle")
    BY <1>6 DEF UsbStep, ReceiveBank, ReceiveSwitch, ReceivePage, ReceiveNative,
                ReceiveSettings, Receive, UsbConfigured, EndReceive
  <2> QED
    BY <1>1, <2>1 DEF EdgesOfState
<1>7. CASE \E m \in cfg.uses.messages : HostSend(m)
  BY <1>1, <1>7 DEF HostSend
<1>8. ASSUME NEW pressed \in SUBSET cfg.uses.encoders, BeginEncoders(pressed)
      PROVE  EdgesOfState'
  <2>1. UNCHANGED sides /\ pc = "idle" /\ pc' = "encoders"
    BY <1>8 DEF BeginEncoders
  <2> QED
    BY <1>1, <2>1 DEF EdgesOfState
<1>9. CASE UNCHANGED vars
  BY <1>1, <1>9 DEF vars
<1> QED
  BY <1>2, <1>3, <1>4, <1>5, <1>6, <1>7, <1>8, <1>9
     DEF Next, SideStep, SideSwitch, NativeSide

\* A step that lets go of no switch, enters no page and says nothing of a side switch.
LEMMA HoldingOn ==
    ASSUME MomentaryInv, UNCHANGED cfg, Holding \subseteq Holding',
           mode' = mode \/ mode' = "normal",
           g_bank_select_active' = g_bank_select_active,
           \A s \in Sides : host'[<<"side", 0, s>>] = host[<<"side", 0, s>>]
    PROVE  MomentaryInv'
<1>1. \A a : HeldYet(a) => HeldYet(a)'
  BY DEF HeldYet
<1>2. \A a : Toggles(a) => Toggles(a)'
  BY DEF Toggles
<1>3. /\ mode' = "shift1" => (Toggles("SHIFT_PAGE_1_TOGGLE") \/ HeldYet("SHIFT_PAGE_1"))'
      /\ mode' = "shift2" => (Toggles("SHIFT_PAGE_2_TOGGLE") \/ HeldYet("SHIFT_PAGE_2"))'
      /\ g_bank_select_active' => HeldYet("BANK_SELECT")'
  BY <1>1, <1>2 DEF MomentaryInv
<1>4. \A s \in Sides : cfg'.sw_action[s] = "HOLD" /\ ~cfg'.side_is_banked =>
          (host'[<<"side", 0, s>>] => s \in Holding')
  BY DEF MomentaryInv
<1> QED
  BY <1>3, <1>4 DEF MomentaryInv

\* Only the side switches are spoken of under their topics.
LEMMA SidesUndisturbed ==
    ASSUME TypeOK
    PROVE  /\ Quiet => \A s \in Sides : host'[<<"side", 0, s>>] = host[<<"side", 0, s>>]
           /\ \A t \in Topics : \A v :
                 (UNCHANGED inbox /\ Send(t, v) /\ \A b, s : t # <<"side", b, s>>)
                 => \A s \in Sides : host'[<<"side", 0, s>>] = host[<<"side", 0, s>>]
<1>1. 0 \in Banks
  BY BankTypes
<1>2. \A s \in Sides : <<"side", 0, s>> \in Topics
  BY <1>1, TopicTypes
<1>3. ASSUME NEW t \in Topics, NEW v, UNCHANGED inbox, Send(t, v),
             \A b, s : t # <<"side", b, s>>, NEW s \in Sides
      PROVE  host'[<<"side", 0, s>>] = host[<<"side", 0, s>>]
  <2>1. Undisturbed(<<"side", 0, s>>)
    BY <1>2, <1>3, SendTold
  <2> QED
    BY <2>1 DEF Undisturbed
<1> QED
  BY <1>3 DEF Quiet

\* Encoder switches start and end nothing that is to last with a side switch.
LEMMA EncoderStepMomentary ==
    ASSUME TypeOK, MomentaryInv, EncoderStep
    PROVE  MomentaryInv'
<1>1. /\ UNCHANGED <<cfg, mode, g_bank_select_active, sides, swallowed, inbox>>
      /\ i \in Encoders /\ encoder_bank \in Banks
  BY EncoderStepIs DEF NextEncoder, TypeOK, ModesType
<1>2. Holding' = Holding
  BY <1>1 DEF Holding, sides
<1> DEFINE Spared == \A s \in Sides : host'[<<"side", 0, s>>] = host[<<"side", 0, s>>]
<1>3. Spared
  <2>1. Quiet => Spared
    BY SidesUndisturbed
  <2>2. ASSUME NEW t \in Topics, NEW v, Send(t, v), \A b, s : t # <<"side", b, s>>
        PROVE  Spared
    BY <1>1, <2>2, SidesUndisturbed
  <2>3. ASSUME NEW v, Send(BankTopic, v)
        PROVE  Spared
    <3>1. BankTopic \in Topics /\ \A b, s : BankTopic # <<"side", b, s>>
      BY TopicTypes DEF BankTopic
    <3> QED
      BY <2>2, <2>3, <3>1
  <2> HIDE DEF Spared
  <2>4. CASE PassedOver
    BY <2>1, <2>4 DEF PassedOver
  <2>5. ASSUME NEW n \in Banks, BankPicked(n)
        PROVE  Spared
    BY <2>3, <2>5 DEF BankPicked
  <2>6. ASSUME NEW on \in BOOLEAN, Switched(on)
        PROVE  Spared
    <3>1. PICK b \in Banks, e \in Encoders : b = encoder_bank /\ e = i
      BY <1>1
    <3>2. SendSwitch(b, e, on)
      BY <2>6, <3>1 DEF Switched
    <3>3. \/ Quiet
          \/ \E v : Send(BankTopic, v)
          \/ Send(<<"switch", b, e>>, on)
      BY <3>2 DEF SendSwitch
    <3>4. <<"switch", b, e>> \in Topics /\ \A c, s : <<"switch", b, e>> # <<"side", c, s>>
      BY TopicTypes
    <3>5. Send(<<"switch", b, e>>, on) => Spared
      BY <2>2, <3>4
    <3> QED
      BY <2>1, <2>3, <3>3, <3>5
  <2>7. CASE PageSwitch
    <3>1. PICK p \in Pages, e \in Encoders : p = mode /\ e = i
      BY <1>1, <2>7 DEF PageSwitch
    <3>2. Send(<<"page", p, e>>, Pressed)
      BY <2>7, <3>1 DEF PageSwitch
    <3>3. <<"page", p, e>> \in Topics /\ \A c, s : <<"page", p, e>> # <<"side", c, s>>
      BY TopicTypes
    <3> QED
      BY <2>2, <3>2, <3>3
  <2> QED
    BY <2>4, <2>5, <2>6, <2>7, EncoderStepIs
<1> QED
  BY <1>1, <1>2, <1>3, HoldingOn

\* The device has acted on an edge: of what is on, a release takes nothing but
\* what its own switch had put on.
LEMMA SideSwitchMomentary ==
    ASSUME TypeOK, EdgesOfState, MomentaryInv, SideSwitch
    PROVE  MomentaryInv'
<1> DEFINE n == switch_num
<1>1. /\ UNCHANGED <<cfg, inbox, g_side_switch_state>>
      /\ g_side_switch_up' = g_side_switch_up \ {n}
      /\ swallowed' = swallowed \ {n}
      /\ n \in Sides
      /\ Action = cfg.sw_action[n]
      /\ Down => n \in g_side_switch_state
  BY LoopIsAtAnEdge DEF SideSwitch, NextSide, Down, Action, EdgesOfState
<1>2. /\ \A s \in Holding : s # n => s \in Holding'
      /\ Down => n \in Holding'
  BY <1>1 DEF Holding
<1>3. ASSUME NEW a, HeldYet(a), Action # a \/ Down
      PROVE  HeldYet(a)'
  <2>1. PICK s \in Holding : cfg.sw_action[s] = a
    BY <1>3 DEF HeldYet
  <2>2. s \in Holding'
    BY <1>1, <1>2, <1>3, <2>1
  <2> QED
    BY <1>1, <2>1, <2>2 DEF HeldYet
<1>4. \A a : Toggles(a) => Toggles(a)'
  BY <1>1 DEF Toggles
<1>5. \A a : Down /\ Action = a => HeldYet(a)'
  BY <1>1, <1>2 DEF HeldYet
<1>6. SideBank \in Banks /\ 0 \in Banks
  BY BankTypes DEF SideBank, TypeOK, ModesType
<1> DEFINE Shift1 == mode' = "shift1"
                       => (Toggles("SHIFT_PAGE_1_TOGGLE") \/ HeldYet("SHIFT_PAGE_1"))'
           Shift2 == mode' = "shift2"
                       => (Toggles("SHIFT_PAGE_2_TOGGLE") \/ HeldYet("SHIFT_PAGE_2"))'
           Overlay == g_bank_select_active' => HeldYet("BANK_SELECT")'
           Holds == \A s \in Sides : cfg'.sw_action[s] = "HOLD" /\ ~cfg'.side_is_banked =>
                        (host'[<<"side", 0, s>>] => s \in Holding')
<1>7. ASSUME mode' = mode, Action \notin {"SHIFT_PAGE_1", "SHIFT_PAGE_2"}
      PROVE  Shift1 /\ Shift2
  BY <1>3, <1>4, <1>7 DEF MomentaryInv
<1>8. ASSUME g_bank_select_active' = g_bank_select_active, Action # "BANK_SELECT"
      PROVE  Overlay
  BY <1>3, <1>8 DEF MomentaryInv
<1>9. ASSUME Action # "HOLD",
             \A s \in Sides : s # n => host'[<<"side", 0, s>>] = host[<<"side", 0, s>>]
      PROVE  Holds
  <2> SUFFICES ASSUME NEW s \in Sides, cfg'.sw_action[s] = "HOLD", ~cfg'.side_is_banked,
                      host'[<<"side", 0, s>>]
               PROVE  s \in Holding'
    OBVIOUS
  <2>1. s # n /\ cfg.sw_action[s] = "HOLD" /\ ~cfg.side_is_banked
    BY <1>1, <1>9
  <2>2. host[<<"side", 0, s>>]
    BY <1>9, <2>1
  <2>3. s \in Holding
    BY <2>1, <2>2 DEF MomentaryInv
  <2> QED
    BY <1>2, <2>1, <2>3
<1>10. Quiet => \A s \in Sides : host'[<<"side", 0, s>>] = host[<<"side", 0, s>>]
  BY SidesUndisturbed
<1>11. ASSUME NEW v, Send(<<"side", SideBank, n>>, v)
       PROVE  /\ host'[<<"side", SideBank, n>>] = v
              /\ \A s \in Sides : s # n => host'[<<"side", 0, s>>] = host[<<"side", 0, s>>]
  <2>1. <<"side", SideBank, n>> \in Topics
    BY <1>1, <1>6, TopicTypes
  <2>2. /\ host'[<<"side", SideBank, n>>] = v
        /\ \A u \in Topics : u # <<"side", SideBank, n>> => Undisturbed(u)
    BY <1>1, <1>11, <2>1, SendTold
  <2>3. ASSUME NEW s \in Sides, s # n
        PROVE  host'[<<"side", 0, s>>] = host[<<"side", 0, s>>]
    <3>1. <<"side", 0, s>> \in Topics /\ <<"side", 0, s>> # <<"side", SideBank, n>>
      BY <1>6, <2>3, TopicTypes
    <3> QED
      BY <2>2, <3>1 DEF Undisturbed
  <2> QED
    BY <2>2, <2>3
<1>12. Shift1 /\ Shift2 /\ Overlay /\ Holds
  <2>1. CASE SideHold
    <3>1. /\ Action = "HOLD" /\ Send(<<"side", SideBank, n>>, Down)
          /\ UNCHANGED <<mode, g_bank_select_active>>
      BY <2>1 DEF SideHold
    <3>2. Holds
      <4> SUFFICES ASSUME NEW s \in Sides, cfg'.sw_action[s] = "HOLD", ~cfg'.side_is_banked,
                          host'[<<"side", 0, s>>]
                   PROVE  s \in Holding'
        OBVIOUS
      <4>1. CASE s = n
        <5>1. SideBank = 0
          BY <1>1 DEF SideBank
        <5>2. Down
          BY <1>11, <3>1, <4>1, <5>1
        <5> QED
          BY <1>2, <4>1, <5>2
      <4>2. CASE s # n
        <5>1. host[<<"side", 0, s>>]
          BY <1>11, <3>1, <4>2
        <5>2. s \in Holding
          BY <1>1, <5>1 DEF MomentaryInv
        <5> QED
          BY <1>2, <4>2, <5>2
      <4> QED
        BY <4>1, <4>2
    <3> HIDE DEF Shift1, Shift2, Overlay, Holds
    <3> QED
      BY <1>7, <1>8, <3>1, <3>2
  <2>2. CASE SideToggle
    <3>1. /\ Action = "TOGGLE" /\ UNCHANGED <<mode, g_bank_select_active>>
          /\ Quiet \/ \E v : Send(<<"side", SideBank, n>>, v)
      BY <2>2 DEF SideToggle
    <3>2. \A s \in Sides : s # n => host'[<<"side", 0, s>>] = host[<<"side", 0, s>>]
      BY <1>10, <1>11, <3>1
    <3> HIDE DEF Shift1, Shift2, Overlay, Holds
    <3> QED
      BY <1>7, <1>8, <1>9, <3>1, <3>2
  <2>3. CASE ShiftPage
    <3>1. /\ Action \in {"SHIFT_PAGE_1", "SHIFT_PAGE_2"} /\ Quiet
          /\ mode' = IF Down THEN PageOf(Action) ELSE "normal"
          /\ UNCHANGED g_bank_select_active
      BY <2>3 DEF ShiftPage
    <3>2. Shift1 /\ Shift2
      BY <1>5, <3>1 DEF PageOf
    <3> HIDE DEF Shift1, Shift2, Overlay, Holds
    <3> QED
      BY <1>8, <1>9, <1>10, <3>1, <3>2
  <2>4. CASE ShiftPageToggle
    <3>1. /\ Action \in {"SHIFT_PAGE_1_TOGGLE", "SHIFT_PAGE_2_TOGGLE"} /\ Quiet
          /\ mode' \in {mode, "normal", PageOf(Action)}
          /\ UNCHANGED g_bank_select_active
      BY <2>4 DEF ShiftPageToggle
    <3>2. \A a : Action = a => Toggles(a)'
      BY <1>1 DEF Toggles
    <3>3. CASE mode' = mode
      <4>1. Shift1 /\ Shift2
        BY <1>7, <3>1, <3>3
      <4> HIDE DEF Shift1, Shift2, Overlay, Holds
      <4> QED
        BY <1>8, <1>9, <1>10, <3>1, <4>1
    <3>4. CASE mode' # mode
      <4>1. Shift1 /\ Shift2
        BY <3>1, <3>2, <3>4 DEF PageOf
      <4> HIDE DEF Shift1, Shift2, Overlay, Holds
      <4> QED
        BY <1>8, <1>9, <1>10, <3>1, <4>1
    <3> QED
      BY <3>3, <3>4
  <2>5. CASE BankChange
    <3>1. /\ Action \in {"GLOBAL_BANK_UP", "GLOBAL_BANK_DOWN", "CYCLE_BANK", "GLOBAL_BANK_1"}
          /\ UNCHANGED <<mode, g_bank_select_active>>
          /\ Quiet \/ \E v : Send(BankTopic, v)
      BY <2>5 DEF BankChange
    <3>2. \A s \in Sides : host'[<<"side", 0, s>>] = host[<<"side", 0, s>>]
      <4>1. BankTopic \in Topics /\ \A b, s : BankTopic # <<"side", b, s>>
        BY TopicTypes DEF BankTopic
      <4>2. ASSUME NEW v, Send(BankTopic, v)
            PROVE  \A s \in Sides : host'[<<"side", 0, s>>] = host[<<"side", 0, s>>]
        BY <1>1, <4>1, <4>2, SidesUndisturbed
      <4> QED
        BY <1>10, <3>1, <4>2
    <3> HIDE DEF Shift1, Shift2, Overlay, Holds
    <3> QED
      BY <1>7, <1>8, <1>9, <3>1, <3>2
  <2>6. CASE BankSelect
    <3>1. /\ Action = "BANK_SELECT" /\ UNCHANGED mode /\ Quiet
          /\ g_bank_select_active' = Down
      BY <2>6 DEF BankSelect
    <3>2. Overlay
      BY <1>5, <3>1
    <3> HIDE DEF Shift1, Shift2, Overlay, Holds
    <3> QED
      BY <1>7, <1>9, <1>10, <3>1, <3>2
  <2> QED
    BY <2>1, <2>2, <2>3, <2>4, <2>5, <2>6 DEF SideSwitch
<1> QED
  BY <1>12 DEF MomentaryInv

\* The rest of the loop over the side switches: what native mode or the combination
\* takes away from a switch, it has swallowed.
LEMMA SidesMomentary ==
    ASSUME TypeOK, EdgesOfState, MomentaryInv
    PROVE  /\ NativeSide => MomentaryInv'
           /\ EndSides => MomentaryInv'
           /\ \A pressed \in SUBSET cfg.uses.sides : BeginSides(pressed) => MomentaryInv'
<1> DEFINE Spared == \A s \in Sides : host'[<<"side", 0, s>>] = host[<<"side", 0, s>>]
<1>1. Quiet => Spared
  BY SidesUndisturbed
<1>2. CASE NativeSide
  <2>1. /\ UNCHANGED <<cfg, mode, g_bank_select_active, g_side_switch_state>> /\ Quiet
        /\ g_side_switch_up' = g_side_switch_up \ {switch_num}
        /\ swallowed' = IF Down THEN swallowed ELSE swallowed \cup {switch_num}
    BY <1>2 DEF NativeSide, NextSide
  <2>2. Down => switch_num \notin g_side_switch_up
    BY DEF Down, EdgesOfState
  <2>3. Holding \subseteq Holding'
    BY <2>1, <2>2 DEF Holding
  <2> QED
    BY <1>1, <2>1, <2>3, HoldingOn
<1>3. CASE EndSides
  <2>1. UNCHANGED <<cfg, mode, g_bank_select_active, sides, swallowed>> /\ Quiet
    BY <1>3 DEF EndSides, modes, Quiet
  <2>2. Holding' = Holding
    BY <2>1 DEF Holding, sides
  <2> QED
    BY <1>1, <2>1, <2>2, HoldingOn
<1>4. ASSUME NEW pressed \in SUBSET cfg.uses.sides, BeginSides(pressed)
      PROVE  MomentaryInv'
  <2>1. /\ UNCHANGED <<cfg, mode, g_bank_select_active>> /\ Quiet
        /\ pc = "encoders" /\ g_side_switch_state' = pressed
    BY <1>4 DEF BeginSides, Quiet
  <2>2. g_side_switch_up = {}
    BY <2>1 DEF EdgesOfState, SideEdges
  <2>3. CASE Combo(pressed)
    <3>1. swallowed' = swallowed \cup (g_side_switch_state \ pressed)
      BY <1>4, <2>3 DEF BeginSides
    <3>2. Holding \subseteq Holding'
      BY <2>1, <2>2, <3>1 DEF Holding
    <3> QED
      BY <1>1, <2>1, <3>2, HoldingOn
  <2>4. CASE ~Combo(pressed)
    <3>1. swallowed' = swallowed /\ g_side_switch_up' = g_side_switch_state \ pressed
      BY <1>4, <2>4 DEF BeginSides
    <3>2. Holding \subseteq Holding'
      BY <2>1, <2>2, <3>1 DEF Holding
    <3> QED
      BY <1>1, <2>1, <3>2, HoldingOn
  <2> QED
    BY <2>3, <2>4
<1> QED
  BY <1>2, <1>3, <1>4

\* The host and a new connection: the one says nothing of a side switch, the other
\* leads to normal operation.
LEMMA UsbMomentary ==
    ASSUME TypeOK, MomentaryInv
    PROVE  /\ UsbStep => MomentaryInv'
           /\ \A m \in cfg.uses.messages : HostSend(m) => MomentaryInv'
<1> DEFINE Spared == \A s \in Sides : host'[<<"side", 0, s>>] = host[<<"side", 0, s>>]
<1>1. UNCHANGED <<sides, swallowed>> => Holding' = Holding
  BY DEF Holding, sides
<1>2. CASE UsbStep
  <2>1. /\ UNCHANGED <<cfg, g_bank_select_active, sides, swallowed>> /\ Quiet
        /\ mode' = mode \/ mode' = "normal"
    BY <1>2 DEF UsbStep, ReceiveBank, ReceiveSwitch, ReceivePage, ReceiveNative,
                ReceiveSettings, Receive, UsbConfigured, EndReceive, Quiet, modes
  <2>2. Spared
    BY <2>1, SidesUndisturbed
  <2> QED
    BY <1>1, <2>1, <2>2, HoldingOn
<1>3. ASSUME NEW m \in cfg.uses.messages, HostSend(m)
      PROVE  MomentaryInv'
  <2>1. UNCHANGED <<cfg, mode, g_bank_select_active, sides, swallowed>>
    BY <1>3 DEF HostSend, modes
  <2>2. cfg \in Configs /\ 0 \in Banks
    BY BankTypes DEF TypeOK
  <2>3. \A b, s : m.topic # <<"side", b, s>>
    BY <2>2, MessageTypes
  <2>4. Spared
    <3> SUFFICES ASSUME NEW s \in Sides
                 PROVE  host'[<<"side", 0, s>>] = host[<<"side", 0, s>>]
      OBVIOUS
    <3>1. <<"side", 0, s>> \in Topics /\ <<"side", 0, s>> # m.topic
      BY <2>2, <2>3, TopicTypes
    <3>2. Undisturbed(<<"side", 0, s>>)
      BY <1>3, <3>1, HostSendTold
    <3> QED
      BY <3>2 DEF Undisturbed
  <2> QED
    BY <1>1, <2>1, <2>4, HoldingOn
<1> QED
  BY <1>2, <1>3

\* Every step keeps what is momentary tied to its switch.
LEMMA NextMomentary ==
    TypeOK /\ EdgesOfState /\ MomentaryInv /\ [Next]_vars => MomentaryInv'
<1> SUFFICES ASSUME TypeOK, EdgesOfState, MomentaryInv, [Next]_vars PROVE MomentaryInv'
  OBVIOUS
<1>1. ASSUME UNCHANGED <<cfg, mode, g_bank_select_active, sides, swallowed, host>>
      PROVE  MomentaryInv'
  <2>1. Holding' = Holding
    BY <1>1 DEF Holding, sides
  <2> QED
    BY <1>1, <2>1, HoldingOn
<1>2. ASSUME NEW pressed \in SUBSET cfg.uses.encoders, BeginEncoders(pressed)
      PROVE  MomentaryInv'
  BY <1>1, <1>2 DEF BeginEncoders, modes
<1>3. CASE UNCHANGED vars
  BY <1>1, <1>3 DEF vars, modes
<1> QED
  BY <1>2, <1>3, EncoderStepMomentary, SideSwitchMomentary, SidesMomentary, UsbMomentary
     DEF Next, SideStep

\* Between two rounds of the main loop no release is left to act on.
LEMMA MomentaryBetweenRounds == EdgesOfState /\ MomentaryInv => MomentaryModes
<1> SUFFICES ASSUME EdgesOfState, MomentaryInv, pc = "idle"
             PROVE  MomentaryModes
  BY DEF MomentaryModes
<1>1. Holding = g_side_switch_state \cup swallowed
  BY DEF EdgesOfState, SideEdges, Holding
<1>2. \A a : HeldYet(a) => HeldBy(a)
  BY <1>1 DEF HeldYet, HeldBy
<1> QED
  BY <1>1, <1>2 DEF MomentaryInv, MomentaryModes

-----------------------------------------------------------------------------
(* The theorems.                                                           *)

\* At first nothing was said, nothing is lit and nothing is held.
LEMMA InitInv ==
    Init => LastTold /\ HostInv /\ LedFollowsSwitch /\ EdgesOfState /\ MomentaryInv
<1> SUFFICES ASSUME Init
             PROVE  LastTold /\ HostInv /\ LedFollowsSwitch /\ EdgesOfState /\ MomentaryInv
  OBVIOUS
<1>1. host[BankTopic] = 0 /\ \A t \in Topics : t # BankTopic => host[t] = FALSE
  BY TopicTypes DEF Init
<1>2. LastTold
  BY DEF Init, LastTold
<1>3. HostKnowsBank
  BY <1>1 DEF Init, HostKnowsBank
<1>4. HostKnowsSwitches
  <2>1. \A b \in Banks, e \in Encoders : host[<<"switch", b, e>>] = FALSE
    BY <1>1, TopicTypes
  <2>2. \A b \in Banks, e \in Encoders : enc_switch_midi_state[<<b, e>>] = FALSE
    BY DEF Init
  <2> QED
    BY <2>1, <2>2 DEF HostKnowsSwitches
<1>5. HostKnowsPages
  <2>1. /\ \A p \in Pages, e \in Encoders : host[<<"page", p, e>>] = FALSE
        /\ \A b \in Banks, s \in Sides : host[<<"side", b, s>>] = FALSE
    BY <1>1, TopicTypes
  <2>2. /\ \A p \in Pages : shift_mode_switch_state[p] = {}
        /\ \A b \in Banks : side_switch_toggle_state[b] = {}
    BY DEF Init
  <2>3. \A p \in Pages, e \in Encoders : (e \in shift_mode_switch_state[p]) = FALSE
    BY <2>2
  <2>4. \A b \in Banks, s \in Sides : (s \in side_switch_toggle_state[b]) = FALSE
    BY <2>2
  <2> QED
    BY <2>1, <2>3, <2>4, Zenon DEF HostKnowsPages
<1>6. LedFollowsSwitch
  <2>1. \A b \in Banks, e \in Encoders : /\ enc_switch_midi_state[<<b, e>>] = FALSE
                                        /\ switch_color_buffer[<<b, e>>] = "inactive"
    BY DEF Init
  <2> QED
    BY <2>1 DEF LedFollowsSwitch
<1>7. EdgesOfState
  BY DEF Init, EdgesOfState, SideEdges
<1>8. MomentaryInv
  <2>1. \A s \in Sides : ~host[<<"side", 0, s>>]
    BY <1>1, BankTypes, TopicTypes
  <2>2. mode = "normal" /\ ~g_bank_select_active
    BY DEF Init
  <2> QED
    BY <2>1, <2>2 DEF MomentaryInv
<1> QED
  BY <1>2, <1>3, <1>4, <1>5, <1>6, <1>7, <1>8 DEF HostInv

\* The messages under way tell what the host believes, and what it believes is what
\* the device holds, whenever nothing is under way and nothing has crossed.
THEOREM Invariance == Spec => [](TypeOK /\ LastTold /\ HostInv)
<1>1. Init => TypeOK /\ LastTold /\ HostInv
  BY InitTypeOK, InitInv
<1>2. (TypeOK /\ LastTold /\ HostInv) /\ [Next]_vars => (TypeOK /\ LastTold /\ HostInv)'
  BY NextTypeOK, NextTold, NextHostInv
<1> QED
  BY <1>1, <1>2, PTL DEF Spec

\* However the bank changes (a side switch, the overlay, an encoder switch mapped to
\* a bank, the host), the device announces it: with no message about it under way or
\* crossed, host and device agree on the bank.
THEOREM BankIsKnown == Spec => []HostKnowsBank
<1>1. TypeOK /\ LastTold /\ HostInv => HostKnowsBank
  BY DEF HostInv
<1> QED
  BY <1>1, Invariance, PTL

\* send_element_midi and the handlers of the host's feedback keep the state of every
\* encoder switch, in every bank, as the host last heard or said it.
THEOREM SwitchesAreKnown == Spec => []HostKnowsSwitches
<1>1. TypeOK /\ LastTold /\ HostInv => HostKnowsSwitches
  BY DEF HostInv
<1> QED
  BY <1>1, Invariance, PTL

\* run_shift_mode and do_side_switch_function keep the switches of the shift pages the
\* host has not taken over, and the toggles of the side switches, as they announced
\* them.
THEOREM PagesAreKnown == Spec => []HostKnowsPages
<1>1. TypeOK /\ LastTold /\ HostInv => HostKnowsPages
  BY DEF HostInv
<1> QED
  BY <1>1, Invariance, PTL

\* The color of an encoder switch shows its state, in every bank, unless the host has
\* set it or settings pushed since have put it out (encoders_init).
THEOREM LightsFollow == Spec => []LedFollowsSwitch
<1>1. TypeOK /\ LedFollowsSwitch /\ [Next]_vars => (TypeOK /\ LedFollowsSwitch)'
  BY NextTypeOK, NextLights
<1>2. Init => TypeOK /\ LedFollowsSwitch
  BY InitTypeOK, InitInv
<1> QED
  BY <1>1, <1>2, PTL DEF Spec

\* A shift page, the overlay or a note that is to last as long as its side switch is
\* held does not outlast it, but for a release that native mode or its combination
\* kept from the device's own handling.
THEOREM MomentaryEnds == Spec => []MomentaryModes
<1> DEFINE Inv == TypeOK /\ EdgesOfState /\ MomentaryInv
<1>1. Init => Inv
  BY InitTypeOK, InitInv
<1>2. Inv /\ [Next]_vars => Inv'
  BY NextTypeOK, NextEdges, NextMomentary
<1>3. Inv => MomentaryModes
  BY MomentaryBetweenRounds
<1> QED
  BY <1>1, <1>2, <1>3, PTL DEF Spec
=============================================================================
