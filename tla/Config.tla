------------------------------- MODULE Config -------------------------------
(***************************************************************************)
(* The settings of the Twister and how they survive (config.c, and the     *)
(* EEPROM half of encoders.c).  The EEPROM holds a layout version, NumCells *)
(* bytes of global settings and one page for every EncodersPerPage         *)
(* encoders; RAM holds a working copy of both.  The utility on the host    *)
(* changes them with two SysEx commands: bulk transfers, each of which     *)
(* rewrites some fields of one encoder, and PushConfig, which rewrites     *)
(* every global byte and then reloads RAM.  A factory reset (a SysEx, or a *)
(* boot that finds another layout) rewrites everything.                    *)
(*                                                                         *)
(* An EEPROM byte or page is the unit of writing: power may be lost        *)
(* between any two of them.  MaxPowerLosses is the only bound.             *)
(*                                                                         *)
(* Left out: the tag numbers the utility does not use (a tag above 38      *)
(* indexes past the table), and transfers to an encoder that is in shift   *)
(* state (get_virtual_encoder_id then indexes past encoder_settings).      *)
(***************************************************************************)
EXTENDS Integers, FiniteSets

CONSTANTS
    NumPages,           \* pages of encoder settings; 32 in the code
    EncodersPerPage,    \* 4 in the code
    BulkTransfers,      \* bulk pushes: an encoder, a partial function on Fields
    PushMessages,       \* payloads of a PushConfig: partial functions on tags
    MaxPowerLosses      \* bound: how often power fails in a behaviour

ASSUME SizesAssumption ==
    /\ NumPages \in Nat \ {0}
    /\ EncodersPerPage \in Nat \ {0}
    /\ MaxPowerLosses \in Nat

\* The version is the only byte compared; 0 stands for any other layout.
EEPROM_LAYOUT == 8
OtherLayout == 0

Encoders == 0 .. NumPages * EncodersPerPage - 1
PageOf(e) == e \div EncodersPerPage

-----------------------------------------------------------------------------
(* The fields of one encoder and how save_encoder_config packs them: a     *)
(* field keeps only as many bits as it has room for, and a channel is      *)
(* stored one less than the utility counts it.                             *)

ChannelFields ==
    {"switch_midi_channel", "encoder_midi_channel", "encoder_shift_midi_channel"}

\* How many values the packed field can tell apart.
Room ==
    [has_detent |-> 2, movement |-> 4, switch_action_type |-> 16,
     switch_midi_channel |-> 16, switch_midi_number |-> 128,
     encoder_midi_channel |-> 16, encoder_midi_number |-> 128,
     encoder_midi_type |-> 8, active_color |-> 128, inactive_color |-> 128,
     detent_color |-> 128, indicator_display_type |-> 4, is_super_knob |-> 2,
     encoder_shift_midi_channel |-> 16]

Fields == DOMAIN Room

Packed(f, v) == IF f \in ChannelFields THEN (v - 1) % 16 ELSE v % Room[f]

\* What a pull of the encoder answers for a stored field.
Pulled(f, v) == IF f \in ChannelFields THEN v + 1 ELSE v

\* The values of a field that the utility offers.
LegalField(f, v) == IF f \in ChannelFields THEN v \in 1 .. 16 ELSE v < Room[f]

NotSent == 128     \* 0x80: "8th bit is never set for valid data"

\* encoder_config_t as the bulk transfer handler decodes a payload into it.
Decoded(msg) ==
    [f \in Fields |-> IF f \in DOMAIN msg THEN msg[f] ELSE NotSent]

\* Mutant: the page is not read before it is written.
MergedIntoBlankPage(old, cfg) ==
    [f \in Fields |-> IF cfg[f] < 128 THEN Packed(f, cfg[f]) ELSE 0]

\* The encoder's part of the page once the settings below 0x80 are merged in.
Merged(old, cfg) ==
    [f \in Fields |-> IF cfg[f] < 128 THEN Packed(f, cfg[f]) ELSE old[f]]

\* factory_reset_encoder_config; numbers and colours differ from one encoder
\* to the next, which no property tells apart.
FactoryEncoder ==
    [has_detent |-> 0, movement |-> 0, switch_action_type |-> 0,
     switch_midi_channel |-> 1, switch_midi_number |-> 0,
     encoder_midi_channel |-> 0, encoder_midi_number |-> 0,
     encoder_midi_type |-> 1, active_color |-> 25, inactive_color |-> 5,
     detent_color |-> 63, indicator_display_type |-> 2, is_super_knob |-> 0,
     encoder_shift_midi_channel |-> 4]

-----------------------------------------------------------------------------
(* The global settings: the table the utility fills by tag, the bytes it   *)
(* is packed into, in the order they are written, and the reply to a pull. *)

Tags == (0 .. 9) \cup (31 .. 38)
TagOf(i) == IF i < 10 THEN i ELSE i + 21

\* What the host can send: settings of 7 bits, as all SysEx data are.
IsPayload(msg, names) ==
    DOMAIN msg \subseteq names /\ \A x \in DOMAIN msg : msg[x] \in 0 .. 127

ASSUME TransfersAssumption ==
    \A t \in BulkTransfers : t[1] \in Encoders /\ IsPayload(t[2], Fields)

ASSUME MessagesAssumption ==
    \A msg \in PushMessages : IsPayload(msg, Tags)

NumCells == 16

\* The table starts as zeroes: a tag that is not sent is written as zero.
global_tv_table_decode(msg) ==
    [i \in 0 .. 17 |-> IF TagOf(i) \in DOMAIN msg THEN msg[TagOf(i)] ELSE 0]

AnimChannel(v, default) == (IF v > 0 THEN v - 1 ELSE default) % 16

\* Mutant: the channel is taken as wider than a byte.
GlobalCellsUnbounded(table) ==
    [k \in 1 .. NumCells |-> IF k = 1 THEN table[0] - 1 ELSE table[k - 1]]

GlobalCells(table) ==
    [k \in 1 .. NumCells |->
        CASE k = 1 -> (table[0] + 255) % 256
          [] k = 14 -> AnimChannel(table[13], 5) * 16 + AnimChannel(table[14], 2)
          [] k = 15 -> (table[15] % 64) + 64 * (table[16] % 4)
          [] k = 16 -> table[17]
          [] OTHER -> table[k - 1]]

FactoryCells == <<3, 1, 0, 9, 0, 0, 8, 0, 63, 127, 127, 127, 0, 82, 71, 1>>

\* The reply's value for a tag, from the bytes loaded into RAM.
Reply(cells, tag) ==
    CASE tag = 0 -> (cells[1] + 1) % 256
      [] tag = 34 -> (cells[14] \div 16) + 1
      [] tag = 35 -> (cells[14] % 16) + 1
      [] tag = 36 -> cells[15] % 64
      [] tag = 37 -> cells[15] \div 64
      [] tag = 38 -> cells[16]
      [] tag \in 1 .. 9 -> cells[tag + 1]
      [] OTHER -> cells[tag - 20]

LegalTag(tag, v) ==
    CASE tag \in {0, 34, 35} -> v \in 1 .. 16
      [] tag = 36 -> v < 64
      [] tag = 37 -> v < 4
      [] OTHER -> v < 128

-----------------------------------------------------------------------------
VARIABLES
    version, cells, pages,  \* the EEPROM: layout, global bytes, encoder fields
    ramCells, ramPages,     \* the globals and encoder_settings in RAM
    display,                \* the LED drivers are enabled
    usb, wdt,               \* the host has configured us; the watchdog runs
    job, at, message,       \* what the processor does, its next write, the payload
    losses,                 \* bound: power failures so far
    \* History, seen from the host:
    acked,                  \* the PushConfig the device last answered, or {}
    sent,                   \* per encoder, what the last writes asked for
    pending,                \* encoders transferred since RAM was last loaded
    fresh                   \* the utility has changed nothing yet

eeprom == <<version, cells, pages>>
ram == <<ramCells, ramPages>>
history == <<acked, sent, pending, fresh>>
vars == <<version, cells, pages, ramCells, ramPages, display, usb, wdt, job,
          at, message, losses, acked, sent, pending, fresh>>

Jobs == {"off", "bootReset", "boot", "idle", "push", "sysReset", "hung"}

Bytes == 0 .. 255
Settings == [Fields -> Bytes]
NoReply == [tag \in {} |-> 0]

\* The part of a reset that writes page p, and its last write.
PageStep(p) == NumCells + 1 + p
\* Mutant: the loop over the pages stops one early.
LastStepShort == NumCells + NumPages - 1

LastStep == NumCells + NumPages

Overlaid(old, msg) ==
    [f \in Fields |-> IF f \in DOMAIN msg THEN msg[f] ELSE old[f]]
FactorySent == [f \in Fields |-> Pulled(f, FactoryEncoder[f])]

-----------------------------------------------------------------------------
\* A device out of the factory, or one whose new firmware has another layout.
Init ==
    /\ version \in {EEPROM_LAYOUT, OtherLayout}
    /\ cells = IF version = EEPROM_LAYOUT
                 THEN FactoryCells ELSE [k \in 1 .. NumCells |-> 0]
    /\ pages = [e \in Encoders |->
                   IF version = EEPROM_LAYOUT
                     THEN FactoryEncoder ELSE [f \in Fields |-> 0]]
    /\ ramCells = [k \in 1 .. NumCells |-> 0]
    /\ ramPages = [e \in Encoders |-> [f \in Fields |-> 0]]
    /\ display = FALSE /\ usb = FALSE /\ wdt = FALSE
    /\ job = "off" /\ at = 0
    /\ message = NoReply
    /\ losses = 0
    /\ acked = NoReply
    /\ sent = [e \in Encoders |-> [f \in Fields |-> Pulled(f, pages[e][f])]]
    /\ pending = {}
    /\ fresh = TRUE

\* Power fails, wherever the processor is.
PowerLoss ==
    /\ job # "off"
    /\ losses < MaxPowerLosses
    /\ losses' = losses + 1
    /\ job' = "off"
    /\ at' = 0
    /\ UNCHANGED <<eeprom, ram, display, usb, wdt, message, history>>

\* The reset that sysExCmdSystem forces by letting the watchdog expire.
WatchdogReset ==
    /\ job = "hung" /\ wdt
    /\ job' = "off"
    /\ at' = 0
    /\ UNCHANGED <<eeprom, ram, display, usb, wdt, message, losses, history>>

\* Mutant: the layout version is not compared.
PowerOnAlwaysResets ==
    /\ job = "off"
    /\ ramCells' = [k \in 1 .. NumCells |-> 0]
    /\ ramPages' = [e \in Encoders |-> [f \in Fields |-> 0]]
    /\ display' = FALSE /\ usb' = FALSE /\ wdt' = FALSE
    /\ job' = "bootReset"
    /\ at' = 0
    /\ pending' = {}
    /\ UNCHANGED <<eeprom, message, losses, acked, sent, fresh>>

\* main up to config_init: RAM is cleared, the peripherals are off, and the
\* version decides whether everything is reset.
PowerOn ==
    /\ job = "off"
    /\ ramCells' = [k \in 1 .. NumCells |-> 0]
    /\ ramPages' = [e \in Encoders |-> [f \in Fields |-> 0]]
    /\ display' = FALSE /\ usb' = FALSE /\ wdt' = FALSE
    /\ job' = IF version # EEPROM_LAYOUT THEN "bootReset" ELSE "boot"
    /\ at' = 0
    /\ pending' = {}
    /\ UNCHANGED <<eeprom, message, losses, acked, sent, fresh>>

\* Mutant: load_config without encoders_init.
LoadedGlobalsOnly ==
    /\ ramCells' = cells
    /\ pending' = {}
    /\ UNCHANGED ramPages

\* load_config and encoders_init read the whole EEPROM back.
Loaded ==
    /\ ramCells' = cells
    /\ ramPages' = pages
    /\ pending' = {}

Boot ==
    /\ job = "boot"
    /\ Loaded
    /\ job' = "idle"
    /\ UNCHANGED <<eeprom, display, usb, wdt, at, message, losses, acked, sent, fresh>>

\* EVENT_USB_Device_ConfigurationChanged; a host may configure us again.
UsbConfigured ==
    /\ job = "idle"
    /\ usb' = TRUE
    /\ display' = TRUE
    /\ wdt' = TRUE
    /\ UNCHANGED <<eeprom, ram, job, at, message, losses, history>>

-----------------------------------------------------------------------------
\* config_factory_reset, one EEPROM write at a time: the version, the global
\* bytes, the pages.  After the last one a reset over SysEx leaves the bus,
\* starts the watchdog and stays in while(true); a reset at boot boots on.
ResetWrite ==
    /\ job \in {"bootReset", "sysReset"}
    /\ version' = IF at = 0 THEN EEPROM_LAYOUT ELSE version
    /\ cells' = IF at \in 1 .. NumCells
                  THEN [cells EXCEPT ![at] = FactoryCells[at]] ELSE cells
    /\ pages' = [e \in Encoders |->
                    IF at = PageStep(PageOf(e)) THEN FactoryEncoder ELSE pages[e]]
    /\ sent' = [e \in Encoders |->
                    IF at = PageStep(PageOf(e)) THEN FactorySent ELSE sent[e]]
    /\ at' = IF at = LastStep THEN 0 ELSE at + 1
    /\ IF at = LastStep /\ job = "sysReset"
         THEN job' = "hung" /\ display' = TRUE /\ usb' = FALSE /\ wdt' = TRUE
         ELSE /\ job' = IF at = LastStep THEN "boot" ELSE job
              /\ UNCHANGED <<display, usb, wdt>>
    /\ UNCHANGED <<ram, message, losses, acked, pending, fresh>>

\* sysExCmdSystem, case 2.
SystemReset ==
    /\ job = "idle" /\ usb
    /\ wdt' = FALSE
    /\ job' = "sysReset"
    /\ at' = 0
    /\ acked' = NoReply
    /\ UNCHANGED <<eeprom, ram, display, usb, message, losses, sent, pending, fresh>>

-----------------------------------------------------------------------------
\* sysExCmdPushConfig: the table is decoded, its bytes written one by one,
\* then RAM is loaded, the utility answered and the display rebuilt.
PushConfig(msg) ==
    /\ job = "idle" /\ usb
    /\ wdt' = FALSE
    /\ message' = msg
    /\ job' = "push"
    /\ at' = 1
    /\ acked' = NoReply
    /\ fresh' = FALSE
    /\ UNCHANGED <<eeprom, ram, display, usb, losses, sent, pending>>

PushWrite ==
    /\ job = "push"
    /\ at <= NumCells
    /\ cells' = [cells EXCEPT ![at] = GlobalCells(global_tv_table_decode(message))[at]]
    /\ at' = at + 1
    /\ UNCHANGED <<version, pages, ram, display, usb, wdt, job, message, losses, history>>

PushDone ==
    /\ job = "push"
    /\ at > NumCells
    /\ Loaded
    /\ display' = TRUE
    /\ job' = "idle"
    /\ at' = 0
    /\ acked' = message
    /\ message' = NoReply
    /\ UNCHANGED <<eeprom, usb, wdt, losses, sent, fresh>>

\* sysExCmdBulkXfer's push and save_encoder_config: RAM gets the decoded
\* table as it is, the EEPROM page the settings that were sent.
BulkPush(e, msg) ==
    /\ job = "idle" /\ usb
    /\ LET cfg == Decoded(msg) IN
        /\ ramPages' = [ramPages EXCEPT ![e] = cfg]
        /\ pages' = [pages EXCEPT ![e] = Merged(pages[e], cfg)]
    /\ display' = FALSE
    /\ sent' = [sent EXCEPT ![e] = Overlaid(sent[e], msg)]
    /\ pending' = pending \cup {e}
    /\ fresh' = FALSE
    /\ UNCHANGED <<version, cells, ramCells, usb, wdt, job, at, message, losses, acked>>

Next ==
    \/ PowerLoss \/ WatchdogReset \/ PowerOn \/ Boot \/ UsbConfigured
    \/ ResetWrite \/ SystemReset
    \/ \E msg \in PushMessages : PushConfig(msg)
    \/ PushWrite \/ PushDone
    \/ \E t \in BulkTransfers : BulkPush(t[1], t[2])

Spec == Init /\ [][Next]_vars

-----------------------------------------------------------------------------
(* Properties.                                                             *)

StoreType ==
    /\ version \in {EEPROM_LAYOUT, OtherLayout}
    /\ cells \in [1 .. NumCells -> Bytes]
    /\ pages \in [Encoders -> Settings]

RamType ==
    /\ ramCells \in [1 .. NumCells -> Bytes]
    /\ ramPages \in [Encoders -> Settings]

HistoryType ==
    /\ sent \in [Encoders -> Settings]
    /\ pending \subseteq Encoders
    /\ fresh \in BOOLEAN
    /\ IsPayload(message, Tags) /\ IsPayload(acked, Tags)

FlagsType ==
    display \in BOOLEAN /\ usb \in BOOLEAN /\ wdt \in BOOLEAN

JobType ==
    /\ job \in Jobs
    /\ job \in {"bootReset", "sysReset"} => at \in 0 .. LastStep
    /\ job = "push" => at \in 1 .. NumCells + 1
    /\ job \in {"off", "boot", "idle", "hung"} => at = 0
    /\ losses \in 0 .. MaxPowerLosses

\* Every variable holds a value of its kind, and the next write is one the
\* job has.
TypeOK == StoreType /\ RamType /\ HistoryType /\ FlagsType /\ JobType

\* Once the device has answered a PushConfig, every legal setting in it is
\* what a pull answers, through any number of power failures and restarts,
\* until the next push or reset begins.
AnsweredConfigIsDurable ==
    \A tag \in DOMAIN acked :
        LegalTag(tag, acked[tag]) => Reply(cells, tag) = acked[tag]

\* A pull of an encoder answers, field by field, what the last transfer that
\* named the field asked for (or the factory setting, if its page was reset
\* since): a transfer keeps the fields it does not send and the settings of
\* the other encoders of the page, and no power failure tears a page.
EncoderKeepsWhatWasSent ==
    \A e \in Encoders, f \in Fields :
        LegalField(f, sent[e][f]) => Pulled(f, pages[e][f]) = sent[e][f]

\* While the device works, RAM agrees with the EEPROM except for encoders
\* transferred since the last PushConfig or restart.
OnlyPendingIsStale ==
    job = "idle" =>
        /\ ramCells = cells
        /\ \A e \in Encoders \ pending : ramPages[e] = pages[e]

\* When a reset asked for over SysEx restarts the processor, the EEPROM is
\* that of a new device.
ResetIsWhole ==
    job = "hung" =>
        /\ version = EEPROM_LAYOUT
        /\ cells = FactoryCells
        /\ \A e \in Encoders : pages[e] = FactoryEncoder

\* "If our EEPROM layout has changed, reset everything": a device that works
\* and that the utility has not changed has the factory settings.
LayoutChangeResetsEverything ==
    job = "idle" /\ fresh =>
        cells = FactoryCells /\ \A e \in Encoders : pages[e] = FactoryEncoder

=============================================================================
