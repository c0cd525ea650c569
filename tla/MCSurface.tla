----------------------------- MODULE MCSurface ------------------------------
(***************************************************************************)
(* Surface with two banks.  The settings put the actions that interfere    *)
(* next to each other; switches 0 and 1 are the native mode combination.   *)
(***************************************************************************)
EXTENDS Surface

MCCombo == {0, 1}

Message(topic, value) == [topic |-> topic, value |-> value]

\* Every encoder switch acts the same; the one of bank b and encoder e in banked
\* selects a bank.
Setting(sw_action, banked, enc_action, bank_switches, uses) ==
    [sw_action |-> [s \in Sides |-> IF s < Len(sw_action) THEN sw_action[s + 1] ELSE "NONE"],
     side_is_banked |-> banked,
     enc_action |-> [x \in Banks \X Encoders |-> enc_action],
     enc_bank |-> [x \in Banks \X Encoders |->
                     IF x \in bank_switches THEN 1 - x[1] ELSE NoBank],
     uses |-> uses]

\* One encoder, three side switches: pages, overlay and native mode.
OneEncoder(reconnects) ==
    [encoders |-> {0}, sides |-> {0, 1, 2}, edges |-> 1, reconnects |-> reconnects,
     messages |-> {Message(<<"native">>, 1), Message(<<"page", "shift1", 0>>, 1)}]

\* Two encoders, two side switches: banks changed in mid loop while the host sends
\* them too, or settings, or feedback.
TwoEncoders(messages) ==
    [encoders |-> {0, 1}, sides |-> {0, 1}, edges |-> 2, reconnects |-> FALSE,
     messages |-> {Message(BankTopic, 0)} \cup messages]

PageConfigs == {
    Setting(<<"SHIFT_PAGE_1", "SHIFT_PAGE_2", "BANK_SELECT">>, FALSE, "HOLD", {},
            OneEncoder(TRUE)),
    Setting(<<"SHIFT_PAGE_2_TOGGLE", "GLOBAL_BANK_UP", "TOGGLE">>, TRUE, "TOGGLE", {},
            OneEncoder(TRUE)),
    Setting(<<"GLOBAL_BANK_DOWN", "GLOBAL_BANK_UP", "HOLD">>, FALSE, "HOLD", {},
            OneEncoder(FALSE))}

SwitchConfigs == {
    Setting(<<"CYCLE_BANK", "BANK_SELECT">>, TRUE, "HOLD", {<<0, 0>>, <<1, 1>>},
            TwoEncoders({Message(<<"settings">>, 0)})),
    Setting(<<"GLOBAL_BANK_1", "BANK_SELECT">>, TRUE, "TOGGLE", {<<0, 1>>},
            TwoEncoders({Message(<<"switch", 1, 0>>, v) : v \in {0, 127}}))}

\* One side switch, outside the combination, that holds a page; the host alone
\* switches native mode on and off.
StuckConfigs == {
    Setting(<<"HOLD", "HOLD", "SHIFT_PAGE_1">>, FALSE, "HOLD", {},
            [encoders |-> {0}, sides |-> {2}, edges |-> 1, reconnects |-> FALSE,
             messages |-> {Message(<<"native">>, v) : v \in {0, 1}}])}

MCConfigs == PageConfigs \cup SwitchConfigs
=============================================================================
