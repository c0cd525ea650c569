---------------------------- MODULE SysExMessage ----------------------------
(***************************************************************************)
(* What the SysEx receiver promises, without packets, parser states or     *)
(* buffer: a host transmits whole messages, one after the other, and the   *)
(* device acts on a message exactly when it is addressed to the device and *)
(* fits the receive buffer.  A host may also give up in the middle of a    *)
(* message; the promise is then suspended for one message and no longer.   *)
(***************************************************************************)
EXTENDS Integers, Sequences

CONSTANTS Messages,     \* the MIDI messages a host may transmit
          MaxSysex      \* MIDI_MAX_SYSEX

VARIABLES msg,          \* the message on the wire, << >> between messages
          handled,      \* what the last completed message made the device do
          dirty         \* the previous message was never finished

avars == <<msg, handled, dirty>>

-----------------------------------------------------------------------------
SOX       == 240        \* 0xF0
MFR_ID    == <<0, 1, 121>>          \* 00 01 79
NON_RT    == 126        \* 0x7E, universal non-realtime
CHANNEL   == 5          \* g_midi_sysex_channel
ALL_CALL  == 127

\* The commands config_init installs a handler for.
Installed == 1..6

NoOutcome == [kind |-> "none", command |-> 0, data |-> << >>]
Identity  == [NoOutcome EXCEPT !.kind = "identity"]
Command(c, d) == [kind |-> "command", command |-> c, data |-> d]

\* The message starts with the manufacturer id, a known command follows and
\* everything after the id fits.
IsCommand(m) ==
    /\ Len(m) >= 6
    /\ m[1] = SOX /\ m[2] = MFR_ID[1] /\ m[3] = MFR_ID[2] /\ m[4] = MFR_ID[3]
    /\ m[5] \in Installed
    /\ Len(m) - 4 < MaxSysex

\* A universal identity request addressed to this device or to all devices.
IsIdentityRequest(m) ==
    /\ Len(m) >= 5
    /\ m[1] = SOX /\ m[2] = NON_RT /\ m[3] \in {CHANNEL, ALL_CALL}
    /\ m[4] = 6 /\ m[5] = 1
    /\ Len(m) - 3 < MaxSysex

Dispatch(m) ==
    IF IsCommand(m)
    THEN Command(m[5], [i \in 1..(Len(m) - 5) |-> m[i + 5]])
    ELSE IF IsIdentityRequest(m) THEN Identity ELSE NoOutcome

-----------------------------------------------------------------------------
Init ==
    /\ msg = << >>
    /\ handled = NoOutcome
    /\ dirty = FALSE

Begin(m) ==
    /\ msg = << >>
    /\ msg' = m
    /\ handled' = NoOutcome
    /\ dirty' = dirty

\* The last byte of the message has arrived.  Whatever was abandoned before,
\* the receiver is in step again afterwards.
Complete ==
    /\ msg # << >>
    /\ msg' = << >>
    /\ dirty \/ handled' = Dispatch(msg)
    /\ dirty' = FALSE

\* The host stops in the middle of the message; nothing is done with it.
Abort ==
    /\ msg # << >>
    /\ msg' = << >>
    /\ handled' = handled
    /\ dirty' = TRUE

Next ==
    \/ \E m \in Messages : Begin(m)
    \/ Complete
    \/ Abort

Spec == Init /\ [][Next]_avars
=============================================================================
