-------------------------------- MODULE SysEx --------------------------------
(***************************************************************************)
(* The SysEx parser of sysex.c.  USB-MIDI delivers a message in packets of *)
(* up to three bytes; one handler per kind of packet moves the parser and  *)
(* fills sysex_buffer.  sysex_ptr is modelled as its distance from the     *)
(* start of the buffer, so the NULL it holds at power-up is -BufferAddress.*)
(* The bytes of a message are the bytes on the wire.                       *)
(***************************************************************************)
EXTENDS Integers, Sequences

CONSTANTS
    Byte,           \* the bytes that occur
    Messages,       \* the MIDI messages a host may transmit
    MaxSysex,       \* MIDI_MAX_SYSEX, the size of sysex_buffer (127)
    BufferAddress   \* where the linker put sysex_buffer

ASSUME ByteAssumption == Byte \subseteq 0..255 /\ 0 \in Byte
ASSUME MessagesAssumption ==
    \A m \in Messages : m \in Seq(Byte) /\ Len(m) >= 1 /\ m[Len(m)] >= 128
ASSUME MaxSysexAssumption == MaxSysex \in 4..255
ASSUME BufferAddressAssumption == BufferAddress \in Nat \ {0}

VARIABLES
    sysex_state,        \* the enum of the same name
    sysex_is_reading,
    sysex_ptr,          \* sysex_ptr - sysex_buffer
    sysex_buffer,
    wild,               \* history: some store went outside sysex_buffer
    handled,            \* what the packets of the last message made sysex_handle do
    msg, pos, dirty     \* the host: message in transit, bytes sent, gave up before

parser == <<sysex_state, sysex_is_reading, sysex_ptr, sysex_buffer, wild>>
vars   == <<sysex_state, sysex_is_reading, sysex_ptr, sysex_buffer, wild,
            handled, msg, pos, dirty>>

\* The promise: messages go in whole and come out whole.
Promise == INSTANCE SysExMessage

-----------------------------------------------------------------------------
States == {"Begin", "CheckMID", "Invalid", "NonRealtime", "DJTT"}
MAX_COMMAND == 8
Addresses   == 0..(MaxSysex - 1)

\* sysExCommandMap after config_init: the handlers sysex_install put in.
sysExCommandMap == [c \in 1..MAX_COMMAND |-> c \in 1..6]

Outcome == [kind : {"none", "identity", "command"},
            command : 0..MAX_COMMAND, data : Seq(Byte)]

\* Mutant: the end-of-message byte is not handed on.
sysex_handle_stripped(state, buffer, ptr) ==
    LET length == ptr % 256 IN
    IF /\ state = "DJTT" /\ length > 0
       /\ buffer[0] \in 1..MAX_COMMAND
       /\ sysExCommandMap[buffer[0]]
    THEN [kind |-> "command", command |-> buffer[0],
          data |-> [i \in 1..(length - 2) |-> buffer[i]]]
    ELSE [kind |-> "none", command |-> 0, data |-> << >>]

\* The command byte selects a handler, which gets the remaining bytes, the
\* end-of-message byte included.
sysex_handle(state, buffer, ptr) ==
    LET length == ptr % 256 IN      \* the (uint8_t) cast
    IF /\ state = "DJTT" /\ length > 0
       /\ buffer[0] \in 1..MAX_COMMAND
       /\ sysExCommandMap[buffer[0]]
    THEN [kind |-> "command", command |-> buffer[0],
          data |-> [i \in 1..(length - 1) |-> buffer[i]]]
    ELSE IF /\ state = "NonRealtime" /\ length >= 2
            /\ buffer[0] = 6 /\ buffer[1] = 1
    THEN [kind |-> "identity", command |-> 0, data |-> << >>]
    ELSE [kind |-> "none", command |-> 0, data |-> << >>]

\* The buffer after the bytes of d (a sequence) are stored at the pointer;
\* what falls outside lands in memory this module does not describe.
Stored(d) ==
    [a \in Addresses |-> IF a - sysex_ptr \in 0..(Len(d) - 1)
                         THEN d[a - sysex_ptr + 1] ELSE sysex_buffer[a]]

Store(d) ==
    /\ sysex_ptr' = sysex_ptr + Len(d)
    /\ sysex_buffer' = Stored(d)
    /\ wild' = (wild \/ ~(sysex_ptr >= 0 /\ sysex_ptr + Len(d) <= MaxSysex))

\* Mutant: the last byte of the buffer is used too.
FitsToTheBrim(n) == sysex_ptr + n <= MaxSysex

\* sysex_ptr + n < buffer_end
Fits(n) == sysex_ptr + n < MaxSysex

NoStore == UNCHANGED <<sysex_ptr, sysex_buffer, wild>>

-----------------------------------------------------------------------------
\* The next packet of the message: three bytes and "starts or continues" while
\* more than three remain, otherwise the rest and the matching "ends".
Remaining == Len(msg) - pos
Packet ==
    LET n == IF Remaining > 3 THEN 3 ELSE Remaining IN
    [Event |-> IF Remaining > 3 THEN 4 ELSE 4 + Remaining,
     Data  |-> [i \in 1..n |-> msg[pos + i]]]

Arrives(event) == msg # << >> /\ Packet.Event = event

\* The packet was not the last of its message.
MoreToCome ==
    /\ pos' = pos + 3
    /\ UNCHANGED <<handled, msg, dirty>>

\* The packet was the last one.
Finished ==
    /\ msg' = << >>
    /\ pos' = 0
    /\ dirty' = FALSE

\* Mutant: messages to all devices are not recognised.
ClassifyOwnChannel(d) ==
    IF d[1] = 240 /\ d[2] = 126 /\ d[3] = 5 THEN "NonRealtime"
    ELSE IF d[1] = 240 /\ d[2] = 0 /\ d[3] = 1 THEN "CheckMID"
    ELSE "Invalid"

\* Mutant: other universal messages get no verdict at all.
ClassifyUnknown(d) ==
    IF d[1] = 240 /\ d[2] = 126 /\ d[3] \in {5, 127} THEN "NonRealtime"
    ELSE IF d[1] = 240 /\ d[2] = 0 /\ d[3] = 1 THEN "CheckMID"
    ELSE "Unknown"

\* A start when no message is being read: classify it by its first bytes.
Classify(d) ==
    IF d[1] = 240 /\ d[2] = 126 /\ d[3] \in {5, 127} THEN "NonRealtime"
    ELSE IF d[1] = 240 /\ d[2] = 0 /\ d[3] = 1 THEN "CheckMID"
    ELSE "Invalid"

\* Mutant: a message too long for the buffer is cut instead of rejected.
ContinueWithoutVerdict ==
    /\ Arrives(4)
    /\ LET d == Packet.Data IN
       \/ /\ ~sysex_is_reading
          /\ sysex_is_reading' = TRUE
          /\ sysex_ptr' = 0
          /\ sysex_state' = Classify(d)
          /\ UNCHANGED <<sysex_buffer, wild>>
       \/ /\ sysex_is_reading /\ sysex_state = "CheckMID"
          /\ UNCHANGED sysex_is_reading
          /\ IF d[1] = 121 /\ Fits(2)
             THEN sysex_state' = "DJTT" /\ Store(<<d[2], d[3]>>)
             ELSE sysex_state' = "Invalid" /\ NoStore
       \/ /\ sysex_is_reading /\ sysex_state # "CheckMID"
          /\ UNCHANGED <<sysex_is_reading, sysex_state>>
          /\ IF sysex_state # "Invalid" /\ Fits(3)
             THEN Store(<<d[1], d[2], d[3]>>) ELSE NoStore
    /\ MoreToCome

sysex_handle_3sc ==
    /\ Arrives(4)
    /\ LET d == Packet.Data IN
       \/ /\ ~sysex_is_reading
          /\ sysex_is_reading' = TRUE
          /\ sysex_ptr' = 0
          /\ sysex_state' = Classify(d)
          /\ UNCHANGED <<sysex_buffer, wild>>
       \/ /\ sysex_is_reading /\ sysex_state = "CheckMID"
          /\ UNCHANGED sysex_is_reading
          /\ IF d[1] = 121 /\ Fits(2)
             THEN sysex_state' = "DJTT" /\ Store(<<d[2], d[3]>>)
             ELSE sysex_state' = "Invalid" /\ NoStore
       \/ /\ sysex_is_reading /\ sysex_state # "CheckMID"
          /\ UNCHANGED sysex_is_reading
          /\ IF sysex_state # "Invalid" /\ Fits(3)
             THEN Store(<<d[1], d[2], d[3]>>) /\ UNCHANGED sysex_state
             ELSE sysex_state' = "Invalid" /\ NoStore
    /\ MoreToCome

\* Unlike the shorter ends, this one does not ask whether a message is being
\* read.
sysex_handle_3e ==
    /\ Arrives(7)
    /\ LET d == Packet.Data IN
       IF sysex_state = "CheckMID" /\ d[1] = 121 /\ Fits(2)
       THEN /\ Store(<<d[2], d[3]>>)
            /\ handled' = sysex_handle("DJTT", Stored(<<d[2], d[3]>>), sysex_ptr + 2)
       ELSE IF sysex_state \notin {"CheckMID", "Invalid"} /\ Fits(3)
       THEN /\ Store(<<d[1], d[2], d[3]>>)
            /\ handled' = sysex_handle(sysex_state, Stored(d), sysex_ptr + 3)
       ELSE NoStore /\ UNCHANGED handled
    /\ sysex_is_reading' = FALSE
    /\ sysex_state' = "Begin"
    /\ Finished

\* Mutant: the parser is only made ready again by an end it could store.
ShortEndWithoutReset(n) ==
    /\ Arrives(4 + n)
    /\ LET d == Packet.Data IN
       IF sysex_is_reading /\ sysex_state # "Invalid" /\ Fits(n)
       THEN /\ Store(d)
            /\ handled' = sysex_handle(sysex_state, Stored(d), sysex_ptr + n)
            /\ sysex_state' = "Begin"
       ELSE NoStore /\ UNCHANGED <<handled, sysex_state>>
    /\ sysex_is_reading' = FALSE
    /\ Finished

\* The 2-byte and the 1-byte end; the latter is also how a single byte System
\* Common message arrives.
sysex_handle_short(n) ==
    /\ Arrives(4 + n)
    /\ LET d == Packet.Data IN
       IF sysex_is_reading /\ sysex_state # "Invalid" /\ Fits(n)
       THEN /\ Store(d)
            /\ handled' = sysex_handle(sysex_state, Stored(d), sysex_ptr + n)
       ELSE NoStore /\ UNCHANGED handled
    /\ sysex_is_reading' = FALSE
    /\ sysex_state' = IF sysex_is_reading THEN "Begin" ELSE sysex_state
    /\ Finished

sysex_handle_2e == sysex_handle_short(2)
sysex_handle_1e == sysex_handle_short(1)

-----------------------------------------------------------------------------
\* The host starts a message; a host that gives up (an application that quits,
\* a port that is closed) leaves the parser waiting.
HostBegin(m) ==
    /\ msg = << >>
    /\ msg' = m
    /\ pos' = 0
    /\ handled' = Promise!NoOutcome
    /\ UNCHANGED <<parser, dirty>>

HostAbort ==
    /\ pos > 0
    /\ msg' = << >>
    /\ pos' = 0
    /\ dirty' = TRUE
    /\ UNCHANGED <<parser, handled>>

Init ==
    /\ sysex_state = "Begin"
    /\ sysex_is_reading = FALSE
    /\ sysex_ptr = -BufferAddress
    /\ sysex_buffer = [a \in Addresses |-> 0]
    /\ wild = FALSE
    /\ handled = Promise!NoOutcome
    /\ msg = << >> /\ pos = 0 /\ dirty = FALSE

Next ==
    \/ \E m \in Messages : HostBegin(m)
    \/ HostAbort
    \/ sysex_handle_3sc
    \/ sysex_handle_3e
    \/ sysex_handle_2e
    \/ sysex_handle_1e

Spec == Init /\ [][Next]_vars

-----------------------------------------------------------------------------
TypeOK ==
    /\ sysex_state \in States
    /\ sysex_is_reading \in BOOLEAN
    /\ sysex_ptr \in Int
    /\ sysex_buffer \in [Addresses -> Byte]
    /\ wild \in BOOLEAN
    /\ handled \in Outcome
    /\ msg \in Messages \cup {<< >>}
    /\ pos \in Nat
    /\ dirty \in BOOLEAN

\* The pointer never reaches buffer_end, however messages are cut short, run
\* together or too long, so the length passed to sysex_handle is at most
\* MIDI_MAX_SYSEX - 1; and while a message is being read it points into the
\* buffer (sysex.c:128, 145, 167, 178, 203, 229).
PointerInBuffer ==
    /\ sysex_ptr < MaxSysex
    /\ sysex_is_reading => sysex_ptr >= 0

\* A parser that is not reading has forgotten the last message: no verdict on
\* an old message (State_Invalid, State_DJTT) is left to meet a new one.  This
\* is what makes the receiver recover from an abandoned message at the first
\* end packet (sysex.c:190, 214, 239).
IdleMeansBegin == ~sysex_is_reading => sysex_state = "Begin"

\* What the parser must hold after a universal non-realtime header, and after
\* the first two bytes of the manufacturer id.
HoldsNonRealtime ==
    IF pos - 3 < MaxSysex
    THEN /\ sysex_state = "NonRealtime" /\ sysex_ptr = pos - 3
         /\ \A a \in 0..(pos - 4) : sysex_buffer[a] = msg[a + 4]
    ELSE sysex_state = "Invalid"

HoldsDJTT ==
    IF pos = 3 THEN sysex_state = "CheckMID" /\ sysex_ptr = 0
    ELSE IF msg[4] = 121 /\ pos - 4 < MaxSysex
    THEN /\ sysex_state = "DJTT" /\ sysex_ptr = pos - 4
         /\ \A a \in 0..(pos - 5) : sysex_buffer[a] = msg[a + 5]
    ELSE sysex_state = "Invalid"

\* The parser and the host agree on the message in transit: unless an earlier
\* message was abandoned, the parser's state is the verdict on the header that
\* went by, and the buffer holds exactly the bytes after it (sysex.c:97-156).
InStep ==
    /\ msg = << >> => pos = 0
    /\ msg # << >> => pos < Len(msg) /\ handled = Promise!NoOutcome
    /\ pos \in {0, 3} \/ pos >= 6
    /\ ~dirty => (sysex_is_reading <=> pos > 0)
    /\ ~dirty /\ pos > 0 =>
         /\ Classify(msg) = "NonRealtime" => HoldsNonRealtime
         /\ Classify(msg) = "CheckMID" => HoldsDJTT
         /\ Classify(msg) = "Invalid" => sysex_state = "Invalid"

\* A command handler is always given the terminating status byte as its last
\* byte, also when the message is what is left of two messages run together:
\* its length is at least 1, so the --length of sysExCmdNativeMode
\* (config.c:361) neither wraps around nor drops a data byte.
HandlerSeesTerminator ==
    handled.kind = "command" =>
        /\ Len(handled.data) >= 1
        /\ handled.data[Len(handled.data)] >= 128

\* Packet by packet, the parser implements the whole-message promise: every
\* message that follows a finished one is acted on exactly as its bytes say,
\* nothing is acted on before its end, and an abandoned message spoils at most
\* the one after it (sysex.c:97-243).
WholeMessages == Promise!Spec
=============================================================================
