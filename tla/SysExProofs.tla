----------------------------- MODULE SysExProofs -----------------------------
(***************************************************************************)
(* Proofs about the SysEx parser, for every buffer size, every set of      *)
(* messages and every place of the buffer in memory.                       *)
(***************************************************************************)
EXTENDS SysEx, TLAPS

USE MaxSysexAssumption, BufferAddressAssumption

\* A parser that knows the manufacturer id has the two bytes after it.
DJTTHasCommand == sysex_state = "DJTT" => sysex_ptr >= 2

\* The inductive invariant: what the runs check, and the two facts that tie
\* the buffer to the verdict on the header.
IInv ==
    /\ TypeOK
    /\ PointerInBuffer
    /\ IdleMeansBegin
    /\ DJTTHasCommand
    /\ HandlerSeesTerminator
    /\ InStep

-----------------------------------------------------------------------------
\* The bytes of a packet are the next bytes of the message, and an end packet
\* carries the message's last byte.
LEMMA PacketFacts ==
    ASSUME TypeOK, InStep, msg # << >>
    PROVE  /\ msg \in Messages /\ msg \in Seq(Byte)
           /\ Len(msg) \in Nat /\ pos \in Nat /\ pos < Len(msg)
           /\ msg[Len(msg)] >= 128
           /\ \A i \in 1..Len(msg) : msg[i] \in Byte
           /\ Packet.Event \in 4..7
           /\ Packet.Event = 4 <=> Len(msg) - pos > 3
           /\ Packet.Event # 4 => Packet.Event = 4 + Len(msg) - pos
           /\ Packet.Event = 4 => /\ Packet.Data = [i \in 1..3 |-> msg[pos + i]]
           /\ Packet.Event # 4 =>
                Packet.Data = [i \in 1..(Packet.Event - 4) |-> msg[pos + i]]
<1>1. /\ msg \in Messages /\ msg \in Seq(Byte) /\ pos \in Nat /\ pos < Len(msg)
      /\ msg[Len(msg)] >= 128
  BY MessagesAssumption DEF TypeOK, InStep
<1>2. Len(msg) \in Nat /\ \A i \in 1..Len(msg) : msg[i] \in Byte
  BY <1>1
<1>3. QED
  BY <1>1, <1>2 DEF Packet, Remaining

\* Storing bytes at a pointer inside the buffer: the buffer keeps its type,
\* the old bytes below the pointer stay, the new ones follow.
LEMMA StoredFacts ==
    ASSUME TypeOK, NEW n \in 1..3, NEW d \in [1..n -> Byte], Len(d) = n
    PROVE  /\ Stored(d) \in [Addresses -> Byte]
           /\ \A a \in Addresses : a < sysex_ptr => Stored(d)[a] = sysex_buffer[a]
           /\ \A a \in Addresses : sysex_ptr <= a /\ a < sysex_ptr + n
                => Stored(d)[a] = d[a - sysex_ptr + 1]
BY DEF TypeOK, Stored, Addresses

\* That nothing is asked for is an outcome, and not a command.
LEMMA NoneIsOutcome ==
    /\ [kind |-> "none", command |-> 0, data |-> << >>] \in Outcome
    /\ [kind |-> "none", command |-> 0, data |-> << >>].kind # "command"
BY DEF Outcome, MAX_COMMAND

\* What sysex_handle yields is an outcome; a command's data is what follows
\* the command byte in the buffer.
LEMMA HandleFacts ==
    ASSUME NEW state \in States, NEW buffer \in [Addresses -> Byte],
           NEW ptr \in 0..(MaxSysex - 1),
           NEW h, h = sysex_handle(state, buffer, ptr)
    PROVE  /\ h \in Outcome
           /\ h.kind = "command" =>
                /\ state = "DJTT" /\ ptr > 0
                /\ Len(h.data) = ptr - 1
                /\ \A i \in 1..(ptr - 1) : h.data[i] = buffer[i]
<1>1. ptr % 256 = ptr
  OBVIOUS
<1>2. [i \in 1..(ptr - 1) |-> buffer[i]] \in Seq(Byte) \/ ptr = 0
  <2>1. CASE ptr > 0
    <3>1. ptr - 1 \in Nat /\ \A i \in 1..(ptr - 1) : buffer[i] \in Byte
      BY <2>1 DEF Addresses
    <3>2. QED BY <3>1
  <2>2. QED BY <2>1
<1>3. << >> \in Seq(Byte)
  OBVIOUS
<1>4. QED
  BY <1>1, <1>2, <1>3 DEF sysex_handle, Outcome, MAX_COMMAND, sysExCommandMap, Addresses

\* The bytes of a packet as functions, whichever way they are written.
LEMMA PacketBytes ==
    ASSUME NEW x \in Byte, NEW y \in Byte, NEW z \in Byte
    PROVE  /\ <<x>> \in [1..1 -> Byte] /\ Len(<<x>>) = 1
           /\ <<x, y>> \in [1..2 -> Byte] /\ Len(<<x, y>>) = 2
           /\ <<x, y, z>> \in [1..3 -> Byte] /\ Len(<<x, y, z>>) = 3
OBVIOUS

\* What an end packet carries are the next bytes of the message.
LEMMA DataIsBytes ==
    ASSUME TypeOK, InStep, msg # << >>, NEW n \in 1..3, pos + n <= Len(msg)
    PROVE  LET d == [i \in 1..n |-> msg[pos + i]] IN
           /\ d \in [1..n -> Byte] /\ Len(d) = n
           /\ \A i \in 1..n : d[i] = msg[pos + i]
<1>0. pos \in Nat /\ Len(msg) \in Nat /\ \A i \in 1..Len(msg) : msg[i] \in Byte
  BY PacketFacts
<1>1. \A i \in 1..n : pos + i \in 1..Len(msg) /\ msg[pos + i] \in Byte
  BY <1>0
<1>2. [i \in 1..n |-> msg[pos + i]] \in Seq(Byte)
  BY <1>1
<1>3. QED
  BY <1>1, <1>2

-----------------------------------------------------------------------------
\* The parser at power-up satisfies the invariant.
LEMMA InitIInv == Init => IInv
<1>1. SUFFICES ASSUME Init PROVE IInv
  OBVIOUS
<1>2. Promise!NoOutcome = [kind |-> "none", command |-> 0, data |-> << >>]
  BY DEF Promise!NoOutcome
<1>3. Promise!NoOutcome \in Outcome
  BY <1>2 DEF Outcome, MAX_COMMAND
<1>4. TypeOK
  <2>1. sysex_buffer \in [Addresses -> Byte] /\ sysex_ptr \in Int
    BY <1>1, ByteAssumption DEF Init
  <2>2. msg \in Messages \cup {<< >>} /\ handled \in Outcome
    BY <1>1, <1>3 DEF Init
  <2>3. QED
    BY <1>1, <2>1, <2>2 DEF Init, TypeOK, States
<1>5. HandlerSeesTerminator
  BY <1>1, <1>2 DEF Init, HandlerSeesTerminator
<1>6. PointerInBuffer /\ IdleMeansBegin /\ DJTTHasCommand /\ InStep
  BY <1>1 DEF Init, PointerInBuffer, IdleMeansBegin, DJTTHasCommand, InStep
<1>7. QED
  BY <1>4, <1>5, <1>6 DEF IInv

\* A start or continue packet.
LEMMA StartOrContinue == IInv /\ sysex_handle_3sc => IInv'
<1> SUFFICES ASSUME IInv, sysex_handle_3sc PROVE IInv'
  OBVIOUS
<1>1. /\ TypeOK /\ InStep /\ PointerInBuffer /\ IdleMeansBegin /\ DJTTHasCommand
      /\ HandlerSeesTerminator /\ msg # << >> /\ Packet.Event = 4
  BY DEF IInv, sysex_handle_3sc, Arrives
<1> DEFINE d == Packet.Data
<1>2. /\ d = [i \in 1..3 |-> msg[pos + i]] /\ pos + 3 < Len(msg) /\ pos \in Nat
      /\ Len(msg) \in Nat /\ msg \in Messages
      /\ \A i \in 1..Len(msg) : msg[i] \in Byte
  BY <1>1, PacketFacts
<1>3. d[1] = msg[pos + 1] /\ d[2] = msg[pos + 2] /\ d[3] = msg[pos + 3]
  BY <1>2
<1>4. d[1] \in Byte /\ d[2] \in Byte /\ d[3] \in Byte
  BY <1>2, <1>3
<1>5. pos' = pos + 3 /\ UNCHANGED <<handled, msg, dirty>>
  BY DEF sysex_handle_3sc, MoreToCome
<1> HIDE DEF d
<1>6. CASE ~sysex_is_reading
  <2>1. /\ sysex_is_reading' = TRUE /\ sysex_ptr' = 0 /\ sysex_state' = Classify(d)
        /\ UNCHANGED <<sysex_buffer, wild>>
    BY <1>6 DEF sysex_handle_3sc, d
  <2>2. Classify(d) \in {"NonRealtime", "CheckMID", "Invalid"}
    BY DEF Classify
  <2>3. ~dirty => pos = 0
    BY <1>1, <1>2, <1>6 DEF InStep
  <2>4. ~dirty => Classify(d) = Classify(msg)
    BY <2>3, <1>3 DEF Classify
  <2>5. TypeOK'
    BY <2>1, <2>2, <1>1, <1>2, <1>5 DEF TypeOK, States
  <2>6. InStep'
    BY <2>1, <2>2, <2>3, <2>4, <1>1, <1>2, <1>5
       DEF InStep, HoldsNonRealtime, HoldsDJTT, Classify
  <2>7. QED
    BY <2>1, <2>2, <2>5, <2>6, <1>1, <1>5
       DEF IInv, PointerInBuffer, IdleMeansBegin, DJTTHasCommand, HandlerSeesTerminator
<1>7. CASE sysex_is_reading /\ sysex_state = "CheckMID"
  <2> DEFINE e == <<d[2], d[3]>>
  <2>0. e \in [1..2 -> Byte] /\ Len(e) = 2 /\ e[1] = d[2] /\ e[2] = d[3]
    BY <1>4, PacketBytes
  <2>1. sysex_is_reading' = TRUE
    BY <1>7 DEF sysex_handle_3sc
  <2>2. CASE d[1] = 121 /\ Fits(2)
    <3>1. /\ sysex_state' = "DJTT" /\ sysex_ptr' = sysex_ptr + 2
          /\ sysex_buffer' = Stored(e) /\ wild' \in BOOLEAN
      BY <1>7, <2>2, <2>0 DEF sysex_handle_3sc, Store, d
    <3> HIDE DEF e
    <3>2. /\ Stored(e) \in [Addresses -> Byte]
          /\ \A a \in Addresses : sysex_ptr <= a /\ a < sysex_ptr + 2
                => Stored(e)[a] = e[a - sysex_ptr + 1]
      BY <2>0, <1>1, StoredFacts
    <3>3. TypeOK'
      BY <3>1, <3>2, <2>1, <1>1, <1>2, <1>5 DEF TypeOK, States
    <3>4. ~dirty => pos = 3 /\ Classify(msg) = "CheckMID"
      BY <1>1, <1>2, <1>7 DEF InStep, HoldsNonRealtime, HoldsDJTT, Classify
    <3>5. ~dirty => sysex_ptr = 0 /\ msg[4] = 121
      BY <3>4, <1>1, <1>2, <1>3, <2>2 DEF InStep, HoldsDJTT
    <3>6. ~dirty => sysex_buffer'[0] = msg[5] /\ sysex_buffer'[1] = msg[6]
      BY <3>1, <3>2, <3>4, <3>5, <2>0, <1>3 DEF Addresses
    <3>7. InStep'
      BY <3>1, <3>4, <3>5, <3>6, <2>1, <1>1, <1>2, <1>5
         DEF InStep, HoldsNonRealtime, HoldsDJTT, Classify
    <3>8. QED
      BY <3>1, <3>3, <3>7, <2>1, <2>2, <1>1, <1>5, <1>7
         DEF IInv, PointerInBuffer, IdleMeansBegin, DJTTHasCommand,
             HandlerSeesTerminator, Fits, TypeOK
  <2>3. CASE ~(d[1] = 121 /\ Fits(2))
    <3>1. sysex_state' = "Invalid" /\ UNCHANGED <<sysex_ptr, sysex_buffer, wild>>
      BY <1>7, <2>3 DEF sysex_handle_3sc, NoStore, d
    <3>2. ~dirty => pos = 3 /\ Classify(msg) = "CheckMID" /\ sysex_ptr = 0
      BY <1>1, <1>2, <1>7 DEF InStep, HoldsNonRealtime, HoldsDJTT, Classify
    <3>3. ~dirty => msg[4] # 121
      BY <3>2, <2>3, <1>3 DEF Fits
    <3>4. InStep'
      BY <3>1, <3>2, <3>3, <2>1, <1>1, <1>2, <1>5
         DEF InStep, HoldsNonRealtime, HoldsDJTT, Classify
    <3>5. QED
      BY <3>1, <3>4, <2>1, <1>1, <1>2, <1>5, <1>7
         DEF IInv, TypeOK, States, PointerInBuffer, IdleMeansBegin, DJTTHasCommand,
             HandlerSeesTerminator
  <2>4. QED BY <2>2, <2>3
<1>8. CASE sysex_is_reading /\ sysex_state # "CheckMID"
  <2> DEFINE e == <<d[1], d[2], d[3]>>
  <2>0. e \in [1..3 -> Byte] /\ Len(e) = 3 /\ e[1] = d[1] /\ e[2] = d[2] /\ e[3] = d[3]
    BY <1>4, PacketBytes
  <2>1. sysex_is_reading' = TRUE
    BY <1>8 DEF sysex_handle_3sc
  <2>2. CASE sysex_state # "Invalid" /\ Fits(3)
    <3>1. /\ sysex_state' = sysex_state /\ sysex_ptr' = sysex_ptr + 3
          /\ sysex_buffer' = Stored(e) /\ wild' \in BOOLEAN
      BY <1>8, <2>2, <2>0 DEF sysex_handle_3sc, Store, d
    <3> HIDE DEF e
    <3>2. /\ Stored(e) \in [Addresses -> Byte]
          /\ \A a \in Addresses : a < sysex_ptr => Stored(e)[a] = sysex_buffer[a]
          /\ \A a \in Addresses : sysex_ptr <= a /\ a < sysex_ptr + 3
                => Stored(e)[a] = e[a - sysex_ptr + 1]
      BY <2>0, <1>1, StoredFacts
    <3>3. TypeOK'
      BY <3>1, <3>2, <2>1, <1>1, <1>2, <1>5 DEF TypeOK, States
    <3>4. \A a \in 0..(sysex_ptr + 2) : a \in Addresses
      BY <1>1, <2>2 DEF Fits, Addresses, TypeOK
    <3>5. /\ sysex_buffer'[sysex_ptr] = msg[pos + 1]
          /\ sysex_buffer'[sysex_ptr + 1] = msg[pos + 2]
          /\ sysex_buffer'[sysex_ptr + 2] = msg[pos + 3]
      BY <3>1, <3>2, <3>4, <2>0, <1>1, <1>3, <1>8 DEF PointerInBuffer, TypeOK
    <3>6. ~dirty /\ Classify(msg) = "NonRealtime" => HoldsNonRealtime'
      <4>1. HAVE ~dirty /\ Classify(msg) = "NonRealtime"
      <4>2. /\ sysex_state = "NonRealtime" /\ sysex_ptr = pos - 3 /\ pos >= 3
            /\ \A a \in 0..(pos - 4) : sysex_buffer[a] = msg[a + 4]
        BY <4>1, <1>1, <1>2, <1>8, <2>2 DEF InStep, HoldsNonRealtime
      <4>3. \A a \in 0..(pos - 1) : sysex_buffer'[a] = msg[a + 4]
        <5>1. TAKE a \in 0..(pos - 1)
        <5>2. CASE a <= pos - 4
          <6>1. a \in 0..(pos - 4) /\ a < sysex_ptr /\ a \in 0..(sysex_ptr + 2)
            BY <5>2, <4>2, <1>2
          <6>2. a \in Addresses
            BY <6>1, <3>4
          <6>3. sysex_buffer'[a] = sysex_buffer[a]
            BY <6>1, <6>2, <3>1, <3>2
          <6>4. QED BY <6>1, <6>3, <4>2
        <5>3. CASE a > pos - 4
          <6>1. a = sysex_ptr \/ a = sysex_ptr + 1 \/ a = sysex_ptr + 2
            BY <5>3, <4>2, <1>2
          <6>2. CASE a = sysex_ptr
            BY <6>2, <3>5, <4>2, <1>2
          <6>3. CASE a = sysex_ptr + 1
            BY <6>3, <3>5, <4>2, <1>2
          <6>4. CASE a = sysex_ptr + 2
            BY <6>4, <3>5, <4>2, <1>2
          <6>5. QED BY <6>1, <6>2, <6>3, <6>4
        <5>4. QED BY <5>2, <5>3, <1>2
      <4>4. pos' - 3 < MaxSysex /\ sysex_ptr' = pos' - 3 /\ pos' - 4 = pos - 1
        BY <4>2, <3>1, <2>2, <1>2, <1>5 DEF Fits
      <4>5. QED
        BY <4>2, <4>3, <4>4, <3>1, <1>5 DEF HoldsNonRealtime
    <3>7. ~dirty /\ Classify(msg) = "CheckMID" => HoldsDJTT'
      <4>1. HAVE ~dirty /\ Classify(msg) = "CheckMID"
      <4>2. /\ sysex_state = "DJTT" /\ sysex_ptr = pos - 4 /\ pos >= 6 /\ msg[4] = 121
            /\ \A a \in 0..(pos - 5) : sysex_buffer[a] = msg[a + 5]
        BY <4>1, <1>1, <1>2, <1>8, <2>2 DEF InStep, HoldsDJTT
      <4>3. \A a \in 0..(pos - 2) : sysex_buffer'[a] = msg[a + 5]
        <5>1. TAKE a \in 0..(pos - 2)
        <5>2. CASE a <= pos - 5
          <6>1. a \in 0..(pos - 5) /\ a < sysex_ptr /\ a \in 0..(sysex_ptr + 2)
            BY <5>2, <4>2, <1>2
          <6>2. a \in Addresses
            BY <6>1, <3>4
          <6>3. sysex_buffer'[a] = sysex_buffer[a]
            BY <6>1, <6>2, <3>1, <3>2
          <6>4. QED BY <6>1, <6>3, <4>2
        <5>3. CASE a > pos - 5
          <6>1. a = sysex_ptr \/ a = sysex_ptr + 1 \/ a = sysex_ptr + 2
            BY <5>3, <4>2, <1>2
          <6>2. CASE a = sysex_ptr
            BY <6>2, <3>5, <4>2, <1>2
          <6>3. CASE a = sysex_ptr + 1
            BY <6>3, <3>5, <4>2, <1>2
          <6>4. CASE a = sysex_ptr + 2
            BY <6>4, <3>5, <4>2, <1>2
          <6>5. QED BY <6>1, <6>2, <6>3, <6>4
        <5>4. QED BY <5>2, <5>3, <1>2
      <4>4. pos' - 4 < MaxSysex /\ sysex_ptr' = pos' - 4 /\ pos' - 5 = pos - 2 /\ pos' # 3
        BY <4>2, <3>1, <2>2, <1>2, <1>5 DEF Fits
      <4>5. QED
        BY <4>2, <4>3, <4>4, <3>1, <1>5 DEF HoldsDJTT
    <3>8. ~dirty => Classify(msg) # "Invalid"
      BY <1>1, <1>8, <2>2 DEF InStep
    <3>9. InStep'
      BY <3>6, <3>7, <3>8, <2>1, <1>1, <1>2, <1>5 DEF InStep, Classify
    <3>10. QED
      BY <3>1, <3>3, <3>9, <2>1, <2>2, <1>1, <1>5, <1>8
         DEF IInv, PointerInBuffer, IdleMeansBegin, DJTTHasCommand,
             HandlerSeesTerminator, Fits, TypeOK
  <2>3. CASE ~(sysex_state # "Invalid" /\ Fits(3))
    <3>1. sysex_state' = "Invalid" /\ UNCHANGED <<sysex_ptr, sysex_buffer, wild>>
      BY <1>8, <2>3 DEF sysex_handle_3sc, NoStore, d
    <3>2. ~dirty /\ Classify(msg) = "NonRealtime" => pos >= MaxSysex
      BY <1>1, <1>2, <1>8, <2>3 DEF InStep, HoldsNonRealtime, Fits
    <3>3. ~dirty /\ Classify(msg) = "CheckMID" =>
            pos # 3 /\ (msg[4] # 121 \/ pos - 1 >= MaxSysex)
      BY <1>1, <1>2, <1>8, <2>3 DEF InStep, HoldsDJTT, Fits
    <3>4. InStep'
      BY <3>1, <3>2, <3>3, <2>1, <1>1, <1>2, <1>5, <1>8
         DEF InStep, HoldsNonRealtime, HoldsDJTT, Classify
    <3>5. QED
      BY <3>1, <3>4, <2>1, <1>1, <1>2, <1>5, <1>8
         DEF IInv, TypeOK, States, PointerInBuffer, IdleMeansBegin, DJTTHasCommand,
             HandlerSeesTerminator
  <2>4. QED BY <2>2, <2>3
<1>9. QED
  BY <1>6, <1>7, <1>8, <1>1 DEF TypeOK

-----------------------------------------------------------------------------
\* The buffer holds the message from its byte h on.
HoldsFrom(buffer, m, h) == \A a \in 0..(Len(m) - h) : buffer[a] = m[a + h]

\* When the buffer holds what follows the manufacturer id, sysex_handle does
\* what the whole message asks for.
LEMMA CommandDispatch ==
    ASSUME NEW m \in Seq(Byte), NEW len \in Int, len = Len(m),
           len >= 6, len - 4 < MaxSysex,
           Classify(m) = "CheckMID", m[4] = 121,
           NEW buffer \in [Addresses -> Byte],
           HoldsFrom(buffer, m, 5)
    PROVE  sysex_handle("DJTT", buffer, len - 4) = Promise!Dispatch(m)
<1>1. len \in Nat /\ (len - 4) % 256 = len - 4
  BY MaxSysexAssumption
<1>2. m[1] = 240 /\ m[2] = 0 /\ m[3] = 1
  BY DEF Classify
<1>3. buffer[0] = m[5]
  BY <1>1 DEF HoldsFrom
<1>4. ~Promise!IsIdentityRequest(m)
  BY <1>2 DEF Promise!IsIdentityRequest, Promise!NON_RT
<1>5. Promise!IsCommand(m) <=> m[5] \in 1..6
  BY <1>2 DEF Promise!IsCommand, Promise!SOX, Promise!MFR_ID, Promise!Installed
<1>6. CASE m[5] \in 1..6
  <2>1. sysex_handle("DJTT", buffer, len - 4)
          = [kind |-> "command", command |-> m[5],
             data |-> [i \in 1..(len - 5) |-> buffer[i]]]
    <3>1. len - 4 > 0 /\ (len - 4) - 1 = len - 5
      BY <1>1
    <3>2. buffer[0] \in 1..MAX_COMMAND /\ sysExCommandMap[buffer[0]]
      <4>1. buffer[0] \in 1..6 /\ buffer[0] \in 1..8
        BY <1>3, <1>6
      <4>2. QED BY <4>1 DEF sysExCommandMap, MAX_COMMAND
    <3>3. QED
      BY <1>1, <1>3, <3>1, <3>2 DEF sysex_handle
  <2>2. Promise!Dispatch(m)
          = [kind |-> "command", command |-> m[5],
             data |-> [i \in 1..(len - 5) |-> m[i + 5]]]
    BY <1>5, <1>6 DEF Promise!Dispatch, Promise!Command
  <2>3. [i \in 1..(len - 5) |-> buffer[i]] = [i \in 1..(len - 5) |-> m[i + 5]]
    BY <1>1 DEF HoldsFrom
  <2>4. QED BY <2>1, <2>2, <2>3
<1>7. CASE m[5] \notin 1..6
  <2>1. sysex_handle("DJTT", buffer, len - 4)
          = [kind |-> "none", command |-> 0, data |-> << >>]
    BY <1>1, <1>3, <1>7 DEF sysex_handle, sysExCommandMap, MAX_COMMAND
  <2>2. QED
    BY <2>1, <1>4, <1>5, <1>7 DEF Promise!Dispatch, Promise!NoOutcome
<1>8. QED BY <1>6, <1>7

\* The same for universal non-realtime messages.
LEMMA NonRealtimeDispatch ==
    ASSUME NEW m \in Seq(Byte), NEW len \in Int, len = Len(m),
           len > 3, len - 3 < MaxSysex,
           Classify(m) = "NonRealtime",
           NEW buffer \in [Addresses -> Byte],
           HoldsFrom(buffer, m, 4)
    PROVE  sysex_handle("NonRealtime", buffer, len - 3) = Promise!Dispatch(m)
<1>1. len \in Nat /\ (len - 3) % 256 = len - 3
  BY MaxSysexAssumption
<1>2. m[1] = 240 /\ m[2] = 126 /\ m[3] \in {5, 127}
  BY DEF Classify
<1>3. buffer[0] = m[4] /\ (len >= 5 => buffer[1] = m[5])
  BY <1>1 DEF HoldsFrom
<1>4. ~Promise!IsCommand(m)
  BY <1>2 DEF Promise!IsCommand, Promise!MFR_ID
<1>5. Promise!IsIdentityRequest(m) <=> len >= 5 /\ m[4] = 6 /\ m[5] = 1
  BY <1>2 DEF Promise!IsIdentityRequest, Promise!SOX, Promise!NON_RT, Promise!CHANNEL,
              Promise!ALL_CALL
<1>6. Promise!Identity = [kind |-> "identity", command |-> 0, data |-> << >>]
  BY DEF Promise!Identity, Promise!NoOutcome
<1>7. CASE Promise!IsIdentityRequest(m)
  BY <1>1, <1>3, <1>4, <1>5, <1>6, <1>7 DEF sysex_handle, Promise!Dispatch
<1>8. CASE ~Promise!IsIdentityRequest(m)
  BY <1>1, <1>3, <1>4, <1>5, <1>8 DEF sysex_handle, Promise!Dispatch, Promise!NoOutcome
<1>9. QED BY <1>7, <1>8

\* Messages that are for nobody here, or too long, ask for nothing.
LEMMA NothingToDispatch ==
    ASSUME NEW m \in Seq(Byte),
           \/ Len(m) <= 3
           \/ Classify(m) = "Invalid"
           \/ Classify(m) = "NonRealtime" /\ Len(m) - 3 >= MaxSysex
           \/ Classify(m) = "CheckMID" /\ (\/ Len(m) < 6 \/ m[4] # 121
                                            \/ Len(m) - 4 >= MaxSysex)
    PROVE  Promise!Dispatch(m) = Promise!NoOutcome
<1>1. ~Promise!IsCommand(m)
  BY DEF Promise!IsCommand, Promise!SOX, Promise!MFR_ID, Classify
<1>2. ~Promise!IsIdentityRequest(m)
  BY DEF Promise!IsIdentityRequest, Promise!SOX, Promise!NON_RT, Promise!CHANNEL,
         Promise!ALL_CALL, Classify
<1>3. QED BY <1>1, <1>2 DEF Promise!Dispatch

\* Whatever the parser's state, what an end packet hands to sysex_handle comes
\* out as an outcome whose data ends with the packet's last byte.
LEMMA HandleStored ==
    ASSUME TypeOK, NEW state \in States, state # "Begin" => sysex_ptr >= 0,
           NEW n \in 1..3, NEW d \in [1..n -> Byte], Len(d) = n, d[n] >= 128,
           state = "DJTT" => sysex_ptr + n >= 2, Fits(n),
           NEW h, h = sysex_handle(state, Stored(d), sysex_ptr + n)
    PROVE  /\ h \in Outcome
           /\ h.kind = "command" => /\ Len(h.data) >= 1
                                    /\ h.data[Len(h.data)] >= 128
<1>1. Stored(d) \in [Addresses -> Byte]
  BY StoredFacts
<1>2. CASE sysex_ptr >= 0
  <2> DEFINE p == sysex_ptr + n
             buf == Stored(d)
  <2>1. p \in 0..(MaxSysex - 1) /\ p >= 1 /\ buf \in [Addresses -> Byte]
    BY <1>1, <1>2 DEF TypeOK, Fits
  <2>2. buf[p - 1] = d[n]
    <3>1. p - 1 \in Addresses /\ sysex_ptr <= p - 1 /\ p - 1 < sysex_ptr + n
      BY <1>2 DEF TypeOK, Addresses, Fits
    <3>2. (p - 1) - sysex_ptr + 1 = n
      BY DEF TypeOK
    <3> HIDE DEF p
    <3>3. QED BY <3>1, <3>2, StoredFacts
  <2>3. h = sysex_handle(state, buf, p) /\ (state = "DJTT" => p >= 2)
    OBVIOUS
  <2> HIDE DEF p, buf
  <2>4. /\ h \in Outcome
        /\ h.kind = "command" => /\ state = "DJTT" /\ Len(h.data) = p - 1
                                 /\ \A i \in 1..(p - 1) : h.data[i] = buf[i]
    BY <2>1, <2>3, HandleFacts
  <2>5. ASSUME h.kind = "command"
        PROVE  Len(h.data) >= 1 /\ h.data[Len(h.data)] >= 128
    <3>1. p - 1 \in 1..(p - 1)
      BY <2>1, <2>3, <2>4, <2>5
    <3>2. h.data[p - 1] = buf[p - 1] /\ Len(h.data) = p - 1
      BY <3>1, <2>4, <2>5
    <3>3. QED BY <3>1, <3>2, <2>2
  <2>6. QED BY <2>4, <2>5
<1>3. CASE ~(sysex_ptr >= 0)
  <2>1. state = "Begin"
    BY <1>3
  <2>2. h = [kind |-> "none", command |-> 0, data |-> << >>]
    BY <2>1 DEF sysex_handle
  <2>3. QED BY <2>2, NoneIsOutcome
<1>4. QED BY <1>2, <1>3

-----------------------------------------------------------------------------
\* What is common to the three end packets: n bytes d are left of the message.
LEMMA EndPacket ==
    ASSUME IInv, NEW n \in 1..3, msg # << >>, Packet.Event = 4 + n
    PROVE  /\ pos + n = Len(msg) /\ pos \in Nat /\ Len(msg) \in Nat
           /\ msg \in Seq(Byte) /\ TypeOK /\ InStep
           /\ Packet.Data \in [1..n -> Byte] /\ Len(Packet.Data) = n
           /\ \A i \in 1..n : Packet.Data[i] = msg[pos + i]
           /\ Packet.Data[n] >= 128
           /\ handled = Promise!NoOutcome
<1>1. TypeOK /\ InStep /\ handled = Promise!NoOutcome
  BY DEF IInv, InStep
<1>2. /\ pos \in Nat /\ Len(msg) \in Nat /\ msg \in Seq(Byte) /\ msg[Len(msg)] >= 128
      /\ Packet.Event = 4 + Len(msg) - pos
      /\ Packet.Data = [i \in 1..(Packet.Event - 4) |-> msg[pos + i]]
  BY <1>1, PacketFacts
<1>3. pos + n = Len(msg) /\ Packet.Event - 4 = n
  BY <1>2
<1>4. Packet.Data = [i \in 1..n |-> msg[pos + i]]
  BY <1>2, <1>3
<1>5. QED
  BY <1>1, <1>2, <1>3, <1>4, DataIsBytes

\* A parser left idle satisfies the invariant, whatever the last packet stored.
LEMMA IdleIInv ==
    ASSUME TypeOK, sysex_state' = "Begin", sysex_is_reading' = FALSE, Finished,
           sysex_ptr' \in Int, sysex_ptr' < MaxSysex, wild' \in BOOLEAN,
           sysex_buffer' \in [Addresses -> Byte],
           handled' \in Outcome, HandlerSeesTerminator'
    PROVE  IInv'
<1>1. TypeOK'
  BY DEF TypeOK, States, Finished
<1>2. PointerInBuffer' /\ IdleMeansBegin' /\ DJTTHasCommand'
  BY DEF PointerInBuffer, IdleMeansBegin, DJTTHasCommand
<1>3. InStep'
  BY DEF InStep, Finished
<1>4. QED
  BY <1>1, <1>2, <1>3 DEF IInv

\* Handing n bytes d on in the given state ends in a good state, if they fit.
LEMMA StoreAndHandle ==
    ASSUME IInv, NEW state \in States, state # "Begin" => sysex_is_reading,
           NEW n \in 1..3, NEW d \in [1..n -> Byte], Len(d) = n, d[n] >= 128,
           state = "DJTT" => sysex_ptr + n >= 2, Fits(n), Store(d), Finished,
           sysex_state' = "Begin", sysex_is_reading' = FALSE,
           handled' = sysex_handle(state, Stored(d), sysex_ptr + n)
    PROVE  IInv'
<1>1. TypeOK /\ PointerInBuffer
  BY DEF IInv
<1>2. /\ handled' \in Outcome
      /\ handled'.kind = "command" => /\ Len(handled'.data) >= 1
                                      /\ handled'.data[Len(handled'.data)] >= 128
  <2>1. state # "Begin" => sysex_ptr >= 0
    BY <1>1 DEF PointerInBuffer
  <2>2. QED BY <1>1, <2>1, HandleStored
<1>3. /\ sysex_ptr' \in Int /\ sysex_ptr' < MaxSysex /\ wild' \in BOOLEAN
      /\ sysex_buffer' \in [Addresses -> Byte]
  <2>1. Stored(d) \in [Addresses -> Byte]
    BY <1>1, StoredFacts
  <2>2. QED BY <1>1, <2>1 DEF Store, Fits, TypeOK
<1>4. HandlerSeesTerminator'
  BY <1>2 DEF HandlerSeesTerminator
<1>5. QED BY <1>1, <1>2, <1>3, <1>4, IdleIInv

\* An end packet that is dropped.
LEMMA DropAtEnd ==
    ASSUME IInv, NoStore, UNCHANGED handled, Finished,
           sysex_state' = "Begin", sysex_is_reading' = FALSE
    PROVE  IInv'
<1>1. TypeOK /\ PointerInBuffer /\ HandlerSeesTerminator
  BY DEF IInv
<1>2. HandlerSeesTerminator'
  BY <1>1 DEF HandlerSeesTerminator
<1>3. QED
  BY <1>1, <1>2, IdleIInv DEF NoStore, TypeOK, PointerInBuffer

\* An end packet of three bytes.
LEMMA End3 == IInv /\ sysex_handle_3e => IInv'
<1> SUFFICES ASSUME IInv, sysex_handle_3e PROVE IInv'
  OBVIOUS
<1> DEFINE d == Packet.Data
           e == <<d[2], d[3]>>
           f == <<d[1], d[2], d[3]>>
<1>1. /\ msg # << >> /\ Packet.Event = 4 + 3 /\ Finished
      /\ sysex_state' = "Begin" /\ sysex_is_reading' = FALSE
  BY DEF sysex_handle_3e, Arrives
<1>2. d \in [1..3 -> Byte] /\ Len(d) = 3 /\ d[3] >= 128
  BY <1>1, EndPacket
<1>3. d[1] \in Byte /\ d[2] \in Byte /\ d[3] \in Byte
  BY <1>2
<1>4. e \in [1..2 -> Byte] /\ Len(e) = 2 /\ e[2] >= 128
  BY <1>2, <1>3, PacketBytes
<1>5. f \in [1..3 -> Byte] /\ Len(f) = 3 /\ f = d
  BY <1>2, <1>3, PacketBytes
<1>6. TypeOK /\ PointerInBuffer /\ IdleMeansBegin /\ DJTTHasCommand
  BY DEF IInv
<1>7. CASE sysex_state = "CheckMID" /\ d[1] = 121 /\ Fits(2)
  <2>1. Store(e) /\ handled' = sysex_handle("DJTT", Stored(e), sysex_ptr + 2)
    BY <1>7 DEF sysex_handle_3e
  <2>2. sysex_is_reading /\ sysex_ptr + 2 >= 2 /\ "DJTT" \in States /\ 2 \in 1..3
    BY <1>6, <1>7 DEF IdleMeansBegin, PointerInBuffer, TypeOK, States
  <2> HIDE DEF d, e
  <2>3. QED BY <1>1, <1>4, <1>7, <2>1, <2>2, StoreAndHandle, Zenon
<1>8. CASE ~(sysex_state = "CheckMID" /\ d[1] = 121 /\ Fits(2))
  <2>1. CASE sysex_state \notin {"CheckMID", "Invalid"} /\ Fits(3)
    <3>1. /\ Store(d)
          /\ handled' = sysex_handle(sysex_state, Stored(d), sysex_ptr + 3)
      BY <1>5, <1>8, <2>1 DEF sysex_handle_3e
    <3>2. /\ sysex_state # "Begin" => sysex_is_reading
          /\ sysex_state = "DJTT" => sysex_ptr + 3 >= 2
          /\ sysex_state \in States /\ 3 \in 1..3
      BY <1>6 DEF IdleMeansBegin, DJTTHasCommand, TypeOK
    <3> HIDE DEF d
    <3>3. QED BY <1>1, <1>2, <2>1, <3>1, <3>2, StoreAndHandle, Zenon
  <2>2. CASE ~(sysex_state \notin {"CheckMID", "Invalid"} /\ Fits(3))
    <3>1. NoStore /\ UNCHANGED handled
      BY <1>8, <2>2 DEF sysex_handle_3e
    <3>2. QED BY <1>1, <3>1, DropAtEnd
  <2>3. QED BY <2>1, <2>2
<1>9. QED BY <1>7, <1>8

\* An end packet of one or two bytes, which completes a short message too.
LEMMA EndShort ==
    ASSUME IInv, NEW n \in 1..2, sysex_handle_short(n)
    PROVE  IInv'
<1> DEFINE d == Packet.Data
<1>0. TypeOK /\ PointerInBuffer /\ IdleMeansBegin /\ DJTTHasCommand
  BY DEF IInv
<1>1. /\ msg # << >> /\ Packet.Event = 4 + n /\ Finished /\ n \in 1..3
      /\ sysex_state' = "Begin" /\ sysex_is_reading' = FALSE
  BY <1>0 DEF sysex_handle_short, Arrives, IdleMeansBegin
<1>2. d \in [1..n -> Byte] /\ Len(d) = n /\ d[n] >= 128
  BY <1>1, EndPacket
<1>3. CASE sysex_is_reading /\ sysex_state # "Invalid" /\ Fits(n)
  <2>1. Store(d) /\ handled' = sysex_handle(sysex_state, Stored(d), sysex_ptr + n)
    BY <1>3 DEF sysex_handle_short
  <2>2. sysex_state \in States /\ (sysex_state = "DJTT" => sysex_ptr + n >= 2)
    BY <1>0 DEF DJTTHasCommand, TypeOK
  <2> HIDE DEF d
  <2>3. QED BY <1>1, <1>2, <1>3, <2>1, <2>2, StoreAndHandle
<1>4. CASE ~(sysex_is_reading /\ sysex_state # "Invalid" /\ Fits(n))
  <2>1. NoStore /\ UNCHANGED handled
    BY <1>4 DEF sysex_handle_short
  <2>2. QED BY <1>1, <2>1, DropAtEnd
<1>5. QED BY <1>3, <1>4

\* Every packet, and the host giving up, keeps the invariant.
LEMMA NextIInv == IInv /\ [Next]_vars => IInv'
<1> SUFFICES ASSUME IInv, [Next]_vars PROVE IInv'
  OBVIOUS
<1>0. /\ TypeOK /\ PointerInBuffer /\ IdleMeansBegin /\ DJTTHasCommand
      /\ HandlerSeesTerminator /\ InStep
  BY DEF IInv
<1>1. ASSUME NEW m \in Messages, HostBegin(m) PROVE IInv'
  <2>1. m \in Seq(Byte) /\ Len(m) >= 1
    BY MessagesAssumption
  <2>2. Promise!NoOutcome = [kind |-> "none", command |-> 0, data |-> << >>]
    BY DEF Promise!NoOutcome
  <2>3. TypeOK'
    BY <1>0, <1>1, <2>2, NoneIsOutcome DEF HostBegin, parser, TypeOK
  <2>4. HandlerSeesTerminator'
    BY <1>1, <2>2 DEF HostBegin, HandlerSeesTerminator
  <2>5. InStep'
    BY <1>0, <1>1, <2>1 DEF HostBegin, parser, InStep
  <2>6. QED
    BY <1>0, <1>1, <2>3, <2>4, <2>5
       DEF IInv, HostBegin, parser, PointerInBuffer, IdleMeansBegin, DJTTHasCommand
<1>2. CASE HostAbort
  <2>1. TypeOK' /\ HandlerSeesTerminator'
    BY <1>0, <1>2 DEF HostAbort, parser, TypeOK, HandlerSeesTerminator
  <2>2. QED
    BY <1>0, <1>2, <2>1
       DEF IInv, HostAbort, parser, PointerInBuffer, IdleMeansBegin, DJTTHasCommand,
           InStep
<1>3. CASE sysex_handle_3sc
  BY <1>3, StartOrContinue
<1>4. CASE sysex_handle_3e
  BY <1>4, End3
<1>5. CASE sysex_handle_2e
  BY <1>5, EndShort DEF sysex_handle_2e
<1>6. CASE sysex_handle_1e
  BY <1>6, EndShort DEF sysex_handle_1e
<1>7. CASE UNCHANGED vars
  BY <1>0, <1>7
     DEF vars, IInv, TypeOK, PointerInBuffer, IdleMeansBegin, DJTTHasCommand,
         HandlerSeesTerminator, InStep, HoldsNonRealtime, HoldsDJTT, Classify
<1>8. QED
  BY <1>1, <1>2, <1>3, <1>4, <1>5, <1>6, <1>7 DEF Next

-----------------------------------------------------------------------------
\* The stored bytes continue the message in the buffer: what is below the
\* pointer stays and the packet follows, so byte a of the buffer is the byte of
\* the message that is h bytes (the header) further on.
LEMMA BufferHoldsMessage ==
    ASSUME IInv, NEW n \in 1..3, msg # << >>, Packet.Event = 4 + n,
           NEW h \in 1..5, sysex_ptr >= 0, Fits(n), sysex_ptr + h = pos + 1,
           \A a \in 0..(sysex_ptr - 1) : sysex_buffer[a] = msg[a + h]
    PROVE  \A a \in 0..(sysex_ptr + n - 1) :
              Stored(Packet.Data)[a] = msg[a + h]
<1> DEFINE d == Packet.Data
<1>0. /\ TypeOK /\ pos \in Nat /\ d \in [1..n -> Byte] /\ Len(d) = n
      /\ \A i \in 1..n : d[i] = msg[pos + i]
  BY EndPacket
<1> HIDE DEF d
<1>1. TAKE a \in 0..(sysex_ptr + n - 1)
<1>2. a \in Addresses /\ sysex_ptr \in Int
  BY <1>0 DEF TypeOK, Addresses, Fits
<1>3. CASE a < sysex_ptr
  <2>1. a \in 0..(sysex_ptr - 1)
    BY <1>2, <1>3
  <2>2. Stored(d)[a] = sysex_buffer[a]
    BY <1>0, <1>2, <1>3, StoredFacts
  <2>3. QED BY <2>1, <2>2 DEF d
<1>4. CASE sysex_ptr <= a
  <2>1. a - sysex_ptr + 1 \in 1..n /\ pos + (a - sysex_ptr + 1) = a + h
    BY <1>0, <1>2, <1>4
  <2>2. Stored(d)[a] = d[a - sysex_ptr + 1]
    <3>1. sysex_ptr <= a /\ a < sysex_ptr + n
      BY <1>2, <1>4
    <3>2. QED BY <1>0, <1>2, <3>1, StoredFacts, Zenon
  <2>3. QED BY <1>0, <2>1, <2>2 DEF d
<1>5. QED BY <1>2, <1>3, <1>4 DEF d

\* In step with the host, an end packet makes the parser do what the whole
\* message asks for: when it stores and hands on ...
LEMMA StoredEndKeepsPromise ==
    ASSUME IInv, ~dirty, NEW n \in 1..3, msg # << >>, Packet.Event = 4 + n,
           sysex_is_reading, sysex_state \in {"NonRealtime", "DJTT"}, Fits(n)
    PROVE  sysex_handle(sysex_state, Stored(Packet.Data), sysex_ptr + n)
              = Promise!Dispatch(msg)
<1> DEFINE d == Packet.Data
           buf == Stored(d)
<1>1. /\ pos + n = Len(msg) /\ pos \in Nat /\ Len(msg) \in Nat /\ msg \in Seq(Byte)
      /\ TypeOK /\ InStep /\ d \in [1..n -> Byte] /\ Len(d) = n
      /\ \A i \in 1..n : d[i] = msg[pos + i]
  BY EndPacket
<1>2. buf \in [Addresses -> Byte] /\ sysex_ptr \in Int /\ pos >= 3
  <2>1. buf \in [Addresses -> Byte]
    BY <1>1, StoredFacts, Zenon
  <2>2. QED BY <1>1, <2>1 DEF TypeOK, InStep
<1> HIDE DEF d, buf
<1>3. CASE sysex_state = "NonRealtime"
  <2>1. /\ Classify(msg) = "NonRealtime" /\ sysex_ptr = pos - 3
        /\ \A a \in 0..(pos - 4) : sysex_buffer[a] = msg[a + 4]
    BY <1>1, <1>2, <1>3 DEF InStep, HoldsNonRealtime, HoldsDJTT, Classify
  <2>2. /\ sysex_ptr >= 0 /\ sysex_ptr + 4 = pos + 1 /\ 4 \in 1..5
        /\ \A a \in 0..(sysex_ptr - 1) : sysex_buffer[a] = msg[a + 4]
    BY <1>1, <1>2, <2>1
  <2>3. \A a \in 0..(sysex_ptr + n - 1) : buf[a] = msg[a + 4]
    BY <2>2, BufferHoldsMessage DEF buf, d
  <2>4. sysex_ptr + n = Len(msg) - 3 /\ sysex_ptr + n - 1 = Len(msg) - 4
        /\ Len(msg) > 3 /\ Len(msg) - 3 < MaxSysex
    BY <1>1, <1>2, <2>1 DEF Fits
  <2>5. HoldsFrom(buf, msg, 4)
    BY <2>3, <2>4 DEF HoldsFrom
  <2>6. sysex_handle("NonRealtime", buf, Len(msg) - 3) = Promise!Dispatch(msg)
    BY <1>1, <1>2, <2>1, <2>4, <2>5, NonRealtimeDispatch
  <2>7. QED BY <1>3, <2>4, <2>6 DEF buf, d
<1>4. CASE sysex_state = "DJTT"
  <2>1. /\ Classify(msg) = "CheckMID" /\ sysex_ptr = pos - 4 /\ pos >= 6 /\ msg[4] = 121
        /\ \A a \in 0..(pos - 5) : sysex_buffer[a] = msg[a + 5]
    BY <1>1, <1>2, <1>4 DEF InStep, HoldsNonRealtime, HoldsDJTT, Classify
  <2>2. /\ sysex_ptr >= 0 /\ sysex_ptr + 5 = pos + 1 /\ 5 \in 1..5
        /\ \A a \in 0..(sysex_ptr - 1) : sysex_buffer[a] = msg[a + 5]
    BY <1>1, <1>2, <2>1
  <2>3. \A a \in 0..(sysex_ptr + n - 1) : buf[a] = msg[a + 5]
    BY <2>2, BufferHoldsMessage DEF buf, d
  <2>4. sysex_ptr + n = Len(msg) - 4 /\ sysex_ptr + n - 1 = Len(msg) - 5
        /\ Len(msg) >= 6 /\ Len(msg) - 4 < MaxSysex
    BY <1>1, <1>2, <2>1 DEF Fits
  <2>5. HoldsFrom(buf, msg, 5)
    BY <2>3, <2>4 DEF HoldsFrom
  <2>6. sysex_handle("DJTT", buf, Len(msg) - 4) = Promise!Dispatch(msg)
    BY <1>1, <1>2, <2>1, <2>4, <2>5, CommandDispatch
  <2>7. QED BY <1>4, <2>4, <2>6 DEF buf, d
<1>5. QED BY <1>3, <1>4

\* ... when the end completes the manufacturer id ...
LEMMA ShortCommandKeepsPromise ==
    ASSUME IInv, ~dirty, msg # << >>, Packet.Event = 4 + 3,
           sysex_state = "CheckMID", Packet.Data[1] = 121
    PROVE  LET d == Packet.Data IN
           sysex_handle("DJTT", Stored(<<d[2], d[3]>>), sysex_ptr + 2)
              = Promise!Dispatch(msg)
<1> DEFINE d == Packet.Data
           e == <<d[2], d[3]>>
           buf == Stored(e)
<1>0. 3 \in 1..3
  OBVIOUS
<1>1. /\ pos + 3 = Len(msg) /\ pos \in Nat /\ Len(msg) \in Nat /\ msg \in Seq(Byte)
      /\ TypeOK /\ InStep /\ d \in [1..3 -> Byte] /\ Len(d) = 3
      /\ \A i \in 1..3 : d[i] = msg[pos + i]
  BY <1>0, EndPacket
<1>2. sysex_is_reading
  BY DEF IInv, IdleMeansBegin
<1>3. pos = 3 /\ sysex_ptr = 0 /\ Classify(msg) = "CheckMID"
  BY <1>1, <1>2 DEF InStep, HoldsNonRealtime, HoldsDJTT, Classify
<1>4. d[1] = msg[4] /\ d[2] = msg[5] /\ d[3] = msg[6] /\ Len(msg) = 6
  BY <1>1, <1>3
<1>5. e \in [1..2 -> Byte] /\ Len(e) = 2 /\ e[1] = d[2] /\ e[2] = d[3]
  BY <1>1, PacketBytes
<1> HIDE DEF d, e
<1>6. /\ buf \in [Addresses -> Byte]
      /\ \A a \in Addresses : sysex_ptr <= a /\ a < sysex_ptr + 2
            => buf[a] = e[a - sysex_ptr + 1]
  BY <1>1, <1>5, StoredFacts
<1> HIDE DEF buf
<1>7. HoldsFrom(buf, msg, 5)
  <2>1. buf[0] = msg[5] /\ buf[1] = msg[6]
    BY <1>3, <1>4, <1>5, <1>6 DEF Addresses
  <2>2. QED BY <2>1, <1>4 DEF HoldsFrom
<1>8. sysex_handle("DJTT", buf, Len(msg) - 4) = Promise!Dispatch(msg)
  <2>1. Len(msg) >= 6 /\ Len(msg) - 4 < MaxSysex /\ msg[4] = 121
    BY <1>4 DEF d
  <2>2. QED BY <1>1, <1>3, <1>6, <1>7, <2>1, CommandDispatch
<1>9. Len(msg) - 4 = sysex_ptr + 2
  BY <1>3, <1>4
<1>10. QED
  BY <1>8, <1>9 DEF buf, e, d

\* ... and when it hands on nothing.
LEMMA DroppedEndKeepsPromise ==
    ASSUME IInv, ~dirty, NEW n \in 1..3, msg # << >>, Packet.Event = 4 + n,
           \/ ~sysex_is_reading
           \/ sysex_state = "Invalid"
           \/ sysex_state \in {"NonRealtime", "DJTT"} /\ ~Fits(n)
           \/ sysex_state = "CheckMID" /\ (n < 3 \/ Packet.Data[1] # 121)
    PROVE  Promise!Dispatch(msg) = Promise!NoOutcome
<1>1. /\ pos + n = Len(msg) /\ pos \in Nat /\ Len(msg) \in Nat /\ msg \in Seq(Byte)
      /\ TypeOK /\ InStep /\ PointerInBuffer /\ IdleMeansBegin
      /\ \A i \in 1..n : Packet.Data[i] = msg[pos + i]
  BY EndPacket DEF IInv
<1>2. CASE ~sysex_is_reading
  <2>1. Len(msg) <= 3
    BY <1>1, <1>2 DEF InStep
  <2>2. QED BY <1>1, <2>1, NothingToDispatch
<1>3. CASE sysex_is_reading /\ sysex_state = "Invalid"
  <2>1. pos > 0 /\ pos >= 3 /\ Classify(msg) \in {"NonRealtime", "CheckMID", "Invalid"}
    BY <1>1, <1>3 DEF InStep, Classify
  <2>2. Classify(msg) = "NonRealtime" => Len(msg) - 3 >= MaxSysex
    BY <1>1, <1>3, <2>1 DEF InStep, HoldsNonRealtime
  <2>3. Classify(msg) = "CheckMID" => msg[4] # 121 \/ Len(msg) - 4 >= MaxSysex
    BY <1>1, <1>3, <2>1 DEF InStep, HoldsDJTT
  <2>4. QED BY <1>1, <2>1, <2>2, <2>3, NothingToDispatch
<1>4. CASE sysex_is_reading /\ sysex_state \in {"NonRealtime", "DJTT"} /\ ~Fits(n)
  <2>1. pos > 0 /\ pos >= 3 /\ Classify(msg) \in {"NonRealtime", "CheckMID", "Invalid"}
    BY <1>1, <1>4 DEF InStep, Classify
  <2>2. Classify(msg) = "NonRealtime" => Len(msg) - 3 >= MaxSysex
    BY <1>1, <1>4, <2>1 DEF InStep, HoldsNonRealtime, Fits
  <2>3. Classify(msg) = "CheckMID" => msg[4] # 121 \/ Len(msg) - 4 >= MaxSysex
    BY <1>1, <1>4, <2>1 DEF InStep, HoldsDJTT, Fits
  <2>4. QED BY <1>1, <2>1, <2>2, <2>3, NothingToDispatch
<1>5. CASE /\ sysex_is_reading /\ sysex_state = "CheckMID"
           /\ n < 3 \/ Packet.Data[1] # 121
  <2>1. pos = 3 /\ Classify(msg) = "CheckMID"
    BY <1>1, <1>5 DEF InStep, HoldsNonRealtime, HoldsDJTT, Classify
  <2>2. Len(msg) < 6 \/ msg[4] # 121
    BY <1>1, <1>5, <2>1
  <2>3. QED BY <1>1, <2>1, <2>2, NothingToDispatch
<1>6. QED BY <1>2, <1>3, <1>4, <1>5

-----------------------------------------------------------------------------
\* Every step of the parser is a step of the whole-message promise.
LEMMA StepKeepsPromise == IInv /\ [Next]_vars => [Promise!Next]_(Promise!avars)
<1> SUFFICES ASSUME IInv, [Next]_vars
             PROVE  Promise!Next \/ UNCHANGED <<msg, handled, dirty>>
  BY DEF Promise!avars
<1>0. TypeOK /\ InStep /\ IdleMeansBegin
  BY DEF IInv
<1>1. ASSUME NEW m \in Messages, HostBegin(m) PROVE Promise!Next
  BY <1>1 DEF HostBegin, Promise!Next, Promise!Begin
<1>2. CASE HostAbort
  <2>1. msg # << >>
    BY <1>0, <1>2 DEF HostAbort, InStep, TypeOK
  <2>2. Promise!Abort
    BY <1>2, <2>1 DEF HostAbort, Promise!Abort
  <2>3. QED BY <2>2 DEF Promise!Next
<1>3. CASE sysex_handle_3sc
  BY <1>3 DEF sysex_handle_3sc, MoreToCome
<1>4. ASSUME msg # << >>, Finished, dirty \/ handled' = Promise!Dispatch(msg)
      PROVE  Promise!Next
  BY <1>4 DEF Finished, Promise!Next, Promise!Complete
<1>5. CASE sysex_handle_3e
  <2> DEFINE d == Packet.Data
  <2>0. /\ msg # << >> /\ Packet.Event = 4 + 3 /\ 3 \in 1..3 /\ Finished
        /\ handled = Promise!NoOutcome
    BY <1>5, <1>0 DEF sysex_handle_3e, Arrives, InStep
  <2>1. CASE dirty
    BY <2>0, <2>1, <1>4
  <2>2. CASE ~dirty /\ sysex_state = "CheckMID" /\ d[1] = 121 /\ Fits(2)
    <3>1. handled' = sysex_handle("DJTT", Stored(<<d[2], d[3]>>), sysex_ptr + 2)
      BY <1>5, <2>2 DEF sysex_handle_3e
    <3>2. handled' = Promise!Dispatch(msg)
      BY <2>0, <2>2, <3>1, ShortCommandKeepsPromise
    <3>3. QED BY <2>0, <3>2, <1>4
  <2>3. CASE ~dirty /\ sysex_state \notin {"CheckMID", "Invalid"} /\ Fits(3)
    <3>1. handled' = sysex_handle(sysex_state, Stored(d), sysex_ptr + 3)
      BY <1>5, <2>3 DEF sysex_handle_3e
    <3>2. CASE sysex_is_reading
      <4>1. sysex_state \in {"NonRealtime", "DJTT"}
        <5>1. sysex_state # "Begin"
          BY <1>0, <2>0, <2>3, <3>2
             DEF InStep, TypeOK, HoldsNonRealtime, HoldsDJTT, Classify
        <5>2. QED BY <5>1, <1>0, <2>3 DEF TypeOK, States
      <4>2. handled' = Promise!Dispatch(msg)
        BY <2>0, <2>3, <3>1, <3>2, <4>1, StoredEndKeepsPromise
      <4>3. QED BY <2>0, <4>2, <1>4
    <3>3. CASE ~sysex_is_reading
      <4>1. sysex_state = "Begin"
        BY <1>0, <3>3 DEF IdleMeansBegin
      <4>2. handled' = Promise!NoOutcome
        BY <3>1, <4>1 DEF sysex_handle, Promise!NoOutcome
      <4>3. Promise!Dispatch(msg) = Promise!NoOutcome
        BY <2>0, <2>3, <3>3, DroppedEndKeepsPromise
      <4>4. QED BY <2>0, <4>2, <4>3, <1>4
    <3>4. QED BY <3>2, <3>3
  <2>4. CASE /\ ~dirty /\ ~(sysex_state = "CheckMID" /\ d[1] = 121 /\ Fits(2))
             /\ ~(sysex_state \notin {"CheckMID", "Invalid"} /\ Fits(3))
    <3>1. UNCHANGED handled
      BY <1>5, <2>4 DEF sysex_handle_3e
    <3>2. sysex_state = "CheckMID" => d[1] # 121
      <4>1. HAVE sysex_state = "CheckMID"
      <4>2. sysex_ptr = 0
        BY <1>0, <2>0, <2>4, <4>1
           DEF IdleMeansBegin, InStep, TypeOK, HoldsNonRealtime, HoldsDJTT, Classify
      <4>3. QED BY <2>4, <4>1, <4>2 DEF Fits
    <3>3. \/ ~sysex_is_reading
          \/ sysex_state = "Invalid"
          \/ sysex_state \in {"NonRealtime", "DJTT"} /\ ~Fits(3)
          \/ sysex_state = "CheckMID" /\ d[1] # 121
      <4>1. sysex_is_reading => sysex_state # "Begin"
        BY <1>0, <2>0, <2>4
           DEF InStep, TypeOK, HoldsNonRealtime, HoldsDJTT, Classify
      <4>2. QED BY <1>0, <2>4, <3>2, <4>1 DEF TypeOK, States
    <3>4. Promise!Dispatch(msg) = Promise!NoOutcome
      BY <2>0, <2>4, <3>3, DroppedEndKeepsPromise
    <3>5. QED BY <2>0, <3>1, <3>4, <1>4
  <2>5. QED BY <2>1, <2>2, <2>3, <2>4
<1>6. ASSUME NEW n \in 1..2, sysex_handle_short(n) PROVE Promise!Next
  <2> DEFINE d == Packet.Data
  <2>0. /\ msg # << >> /\ Packet.Event = 4 + n /\ n \in 1..3 /\ n < 3 /\ Finished
        /\ handled = Promise!NoOutcome
    BY <1>6, <1>0 DEF sysex_handle_short, Arrives, InStep
  <2>1. CASE dirty
    BY <2>0, <2>1, <1>4
  <2>2. CASE ~dirty /\ sysex_is_reading /\ sysex_state # "Invalid" /\ Fits(n)
    <3>1. handled' = sysex_handle(sysex_state, Stored(d), sysex_ptr + n)
      BY <1>6, <2>2 DEF sysex_handle_short
    <3>2. CASE sysex_state \in {"NonRealtime", "DJTT"}
      <4>1. handled' = Promise!Dispatch(msg)
        BY <2>0, <2>2, <3>1, <3>2, StoredEndKeepsPromise
      <4>2. QED BY <2>0, <4>1, <1>4
    <3>3. CASE sysex_state = "CheckMID"
      <4>1. handled' = Promise!NoOutcome
        BY <3>1, <3>3 DEF sysex_handle, Promise!NoOutcome
      <4>2. Promise!Dispatch(msg) = Promise!NoOutcome
        BY <2>0, <2>2, <3>3, DroppedEndKeepsPromise
      <4>3. QED BY <2>0, <4>1, <4>2, <1>4
    <3>4. sysex_state # "Begin"
      BY <1>0, <2>0, <2>2 DEF InStep, TypeOK, HoldsNonRealtime, HoldsDJTT, Classify
    <3>5. QED BY <1>0, <2>2, <3>2, <3>3, <3>4 DEF TypeOK, States
  <2>3. CASE ~dirty /\ ~(sysex_is_reading /\ sysex_state # "Invalid" /\ Fits(n))
    <3>1. UNCHANGED handled
      BY <1>6, <2>3 DEF sysex_handle_short
    <3>2. sysex_is_reading => sysex_state # "Begin"
      BY <1>0, <2>0, <2>3 DEF InStep, TypeOK, HoldsNonRealtime, HoldsDJTT, Classify
    <3>3. \/ ~sysex_is_reading
          \/ sysex_state = "Invalid"
          \/ sysex_state \in {"NonRealtime", "DJTT"} /\ ~Fits(n)
          \/ sysex_state = "CheckMID" /\ n < 3
      BY <1>0, <2>0, <2>3, <3>2 DEF TypeOK, States
    <3>4. Promise!Dispatch(msg) = Promise!NoOutcome
      BY <2>0, <2>3, <3>3, DroppedEndKeepsPromise
    <3>5. QED BY <2>0, <3>1, <3>4, <1>4
  <2>4. QED BY <2>1, <2>2, <2>3
<1>7. CASE sysex_handle_2e
  BY <1>6, <1>7 DEF sysex_handle_2e
<1>8. CASE sysex_handle_1e
  BY <1>6, <1>8 DEF sysex_handle_1e
<1>9. CASE UNCHANGED vars
  BY <1>9 DEF vars
<1>10. QED
  BY <1>1, <1>2, <1>3, <1>5, <1>7, <1>8, <1>9 DEF Next

-----------------------------------------------------------------------------
\* The inductive invariant holds in every reachable state.
THEOREM Invariance == Spec => []IInv
<1>1. Init => IInv
  BY InitIInv
<1>2. IInv /\ [Next]_vars => IInv'
  BY NextIInv
<1>3. QED BY <1>1, <1>2, PTL DEF Spec

\* Every variable of the parser and the host keeps its type (sysex.c:25-94).
THEOREM TypeCorrect == Spec => []TypeOK
<1>1. IInv => TypeOK
  BY DEF IInv
<1>2. QED BY <1>1, Invariance, PTL

\* The pointer stays below buffer_end and, while a message is read, inside
\* sysex_buffer, for every buffer size (sysex.c:97-243).
THEOREM BufferBound == Spec => []PointerInBuffer
<1>1. IInv => PointerInBuffer
  BY DEF IInv
<1>2. QED BY <1>1, Invariance, PTL

\* No verdict on an old message meets a new one (sysex.c:190, 214, 239).
THEOREM IdleParserIsFresh == Spec => []IdleMeansBegin
<1>1. IInv => IdleMeansBegin
  BY DEF IInv
<1>2. QED BY <1>1, Invariance, PTL

\* Unless a message was abandoned, the buffer is the message behind its header
\* (sysex.c:97-156).
THEOREM ParserInStep == Spec => []InStep
<1>1. IInv => InStep
  BY DEF IInv
<1>2. QED BY <1>1, Invariance, PTL

\* Every command handler finds the terminating status byte at the end of its
\* data, so its length is never 0 (sysex.c:39-50, config.c:359-362).
THEOREM HandlersGetTheEnd == Spec => []HandlerSeesTerminator
<1>1. IInv => HandlerSeesTerminator
  BY DEF IInv
<1>2. QED BY <1>1, Invariance, PTL

\* The packet-wise parser implements the whole-message promise (sysex.c:97-243).
THEOREM Implementation == Spec => WholeMessages
<1>1. Init => Promise!Init
  BY DEF Init, Promise!Init
<1>2. IInv /\ [Next]_vars => [Promise!Next]_(Promise!avars)
  BY StepKeepsPromise
<1>3. QED
  BY <1>1, <1>2, Invariance, PTL DEF Spec, WholeMessages, Promise!Spec
=============================================================================
