---------------------------- MODULE ConfigProofs -----------------------------
(***************************************************************************)
(* The settings with any number of encoders and pages, any transfers and   *)
(* messages, and power that may fail any number of times: what is          *)
(* answered is in the EEPROM, what is not sent is kept, and a reset over   *)
(* SysEx is whole before the processor restarts.                           *)
(***************************************************************************)
EXTENDS Config, TLAPS

\* Another layout is found at boot only, before anything can be answered.
LayoutKnown ==
    version # EEPROM_LAYOUT => job \in {"off", "bootReset"} /\ DOMAIN acked = {}

\* While the global bytes are being written, no answer stands.
NothingAnswered ==
    job \in {"bootReset", "sysReset", "push"} => DOMAIN acked = {}

\* The bytes that the message being written has reached.
PushedSoFar ==
    job = "push" =>
        \A k \in 1 .. NumCells :
            k < at => cells[k] = GlobalCells(global_tv_table_decode(message))[k]

\* What a reset has reached.
ResetSoFar ==
    job \in {"bootReset", "sysReset"} =>
        /\ at > 0 => version = EEPROM_LAYOUT
        /\ \A k \in 1 .. NumCells : k < at => cells[k] = FactoryCells[k]
        /\ \A e \in Encoders : PageStep(PageOf(e)) < at => pages[e] = FactoryEncoder

WriteInv == LayoutKnown /\ NothingAnswered /\ PushedSoFar /\ ResetSoFar

-----------------------------------------------------------------------------
(* What the packing of settings into bits keeps.                           *)

\* Every field packs into a byte, whatever 7-bit value is sent.
LEMMA PackedIsByte ==
    ASSUME NEW f \in Fields, NEW v \in 0 .. 127
    PROVE  Packed(f, v) \in Bytes
  BY DEF Packed, Fields, Room, ChannelFields, Bytes

\* A setting the utility offers comes back as it was sent.
LEMMA LegalComesBack ==
    ASSUME NEW f \in Fields, NEW v \in 0 .. 127, LegalField(f, v)
    PROVE  Pulled(f, Packed(f, v)) = v
  BY DEF Packed, Pulled, LegalField, Fields, Room, ChannelFields

\* The factory settings are bytes, and what a pull answers for them too.
LEMMA FactoryEncoderType ==
    /\ FactoryEncoder \in Settings
    /\ FactorySent \in Settings
  BY DEF FactoryEncoder, FactorySent, Settings, Fields, Room, Bytes, Pulled, ChannelFields

\* The factory settings of the whole device are bytes.
LEMMA FactoryCellsType ==
    FactoryCells \in [1 .. NumCells -> Bytes]
  BY DEF FactoryCells, NumCells, Bytes

\* A transfer merges into the page what was sent and keeps the rest.
LEMMA MergedType ==
    ASSUME NEW old \in Settings, NEW msg, IsPayload(msg, Fields)
    PROVE  /\ Decoded(msg) \in Settings
           /\ Merged(old, Decoded(msg)) \in Settings
           /\ \A f \in Fields : Merged(old, Decoded(msg))[f] =
                 IF f \in DOMAIN msg THEN Packed(f, msg[f]) ELSE old[f]
<1>1. ASSUME NEW f \in Fields
      PROVE  /\ Decoded(msg)[f] \in Bytes
             /\ Decoded(msg)[f] = IF f \in DOMAIN msg THEN msg[f] ELSE NotSent
             /\ f \in DOMAIN msg => msg[f] \in 0 .. 127
             /\ Merged(old, Decoded(msg))[f] =
                  IF f \in DOMAIN msg THEN Packed(f, msg[f]) ELSE old[f]
  BY DEF IsPayload, Decoded, Merged, NotSent, Bytes
<1>2. \A f \in Fields : Merged(old, Decoded(msg))[f] \in Bytes
  BY <1>1, PackedIsByte DEF Settings
<1> QED
  BY <1>1, <1>2 DEF Decoded, Merged, Settings

\* A message laid over settings in RAM leaves settings, markers included.
LEMMA OverlaidType ==
    ASSUME NEW old \in Settings, NEW msg, IsPayload(msg, Fields)
    PROVE  Overlaid(old, msg) \in Settings
  BY DEF Overlaid, Settings, IsPayload, Bytes

\* The table of a message holds 7-bit values, and packs into bytes.
LEMMA TableType ==
    ASSUME NEW msg, IsPayload(msg, Tags)
    PROVE  global_tv_table_decode(msg) \in [0 .. 17 -> 0 .. 127]
  BY DEF global_tv_table_decode, IsPayload

\* What the sixteen global bytes hold of the table of a message.
LEMMA CellsAre ==
    ASSUME NEW table
    PROVE  /\ GlobalCells(table)[1] = (table[0] + 255) % 256
           /\ GlobalCells(table)[14] =
                 AnimChannel(table[13], 5) * 16 + AnimChannel(table[14], 2)
           /\ GlobalCells(table)[15] = (table[15] % 64) + 64 * (table[16] % 4)
           /\ GlobalCells(table)[16] = table[17]
           /\ \A k \in 2 .. 13 : GlobalCells(table)[k] = table[k - 1]
  BY DEF GlobalCells, NumCells

\* The two animation channels share a byte.
LEMMA AnimChannelsFit ==
    ASSUME NEW a \in 0 .. 15, NEW b \in 0 .. 15
    PROVE  /\ a * 16 + b \in Bytes
           /\ (a * 16 + b) \div 16 = a
           /\ (a * 16 + b) % 16 = b
  BY DEF Bytes

\* Whatever 7-bit values a message holds, the global bytes are bytes.
LEMMA CellsType ==
    ASSUME NEW table \in [0 .. 17 -> 0 .. 127], NEW k \in 1 .. NumCells
    PROVE  GlobalCells(table)[k] \in Bytes
<1> DEFINE Cell == GlobalCells(table)[k]
<1>1. \A i \in 0 .. 17 : table[i] \in 0 .. 127
  OBVIOUS
<1>2. CASE k = 1
  <2>1. Cell = (table[0] + 255) % 256
    BY <1>2, CellsAre
  <2> QED
    BY <2>1, <1>1 DEF Bytes
<1>3. CASE k = 14
  <2> DEFINE a == AnimChannel(table[13], 5)
             b == AnimChannel(table[14], 2)
  <2>1. Cell = a * 16 + b
    BY <1>3, CellsAre
  <2>2. a \in 0 .. 15 /\ b \in 0 .. 15
    BY <1>1 DEF AnimChannel
  <2> HIDE DEF a, b, Cell
  <2>3. Cell \in Bytes
    BY <2>1, <2>2, AnimChannelsFit
  <2> QED
    BY <2>3 DEF Cell
<1>4. CASE k = 15
  <2>1. Cell = (table[15] % 64) + 64 * (table[16] % 4)
    BY <1>4, CellsAre
  <2>2. table[15] \in 0 .. 127 /\ table[16] \in 0 .. 127
    BY <1>1
  <2> QED
    BY <2>1, <2>2 DEF Bytes
<1>5. CASE k = 16
  <2>1. Cell = table[17]
    BY <1>5, CellsAre
  <2> QED
    BY <2>1, <1>1 DEF Bytes
<1>6. CASE k \in 2 .. 13
  <2>1. Cell = table[k - 1] /\ k - 1 \in 0 .. 17
    BY <1>6, CellsAre
  <2> QED
    BY <2>1, <1>1 DEF Bytes
<1> QED
  BY <1>2, <1>3, <1>4, <1>5, <1>6 DEF NumCells

\* Every legal global setting of a message comes back from the bytes it is
\* packed into.
LEMMA AnswerIsWhatWasSent ==
    ASSUME NEW msg, IsPayload(msg, Tags), NEW stored,
           \A k \in 1 .. NumCells : stored[k] = GlobalCells(global_tv_table_decode(msg))[k],
           NEW tag \in DOMAIN msg, LegalTag(tag, msg[tag])
    PROVE  Reply(stored, tag) = msg[tag]
<1> DEFINE table == global_tv_table_decode(msg)
<1>1. tag \in Tags /\ msg[tag] \in 0 .. 127
  BY DEF IsPayload
<1>2. \A i \in 0 .. 17 : TagOf(i) = tag => table[i] = msg[tag]
  BY DEF global_tv_table_decode
<1>3. table \in [0 .. 17 -> 0 .. 127]
  BY TableType
<1>4. \A k \in 1 .. NumCells : stored[k] = GlobalCells(table)[k]
  OBVIOUS
<1> HIDE DEF table
<1>5. CASE tag = 0
  BY <1>1, <1>2, <1>3, <1>4, <1>5
     DEF LegalTag, TagOf, Reply, GlobalCells, NumCells
<1>6. CASE tag \in 1 .. 9
  BY <1>1, <1>2, <1>3, <1>4, <1>6
     DEF LegalTag, TagOf, Reply, GlobalCells, NumCells
<1>7. CASE tag \in 31 .. 33
  BY <1>1, <1>2, <1>3, <1>4, <1>7
     DEF LegalTag, TagOf, Reply, GlobalCells, NumCells
<1>8. CASE tag \in {34, 35}
  <2> DEFINE a == AnimChannel(table[13], 5)
             b == AnimChannel(table[14], 2)
  <2>1. stored[14] = a * 16 + b
    BY <1>4, CellsAre DEF NumCells
  <2>2. a \in 0 .. 15 /\ b \in 0 .. 15
    BY <1>3 DEF AnimChannel
  <2>3. msg[tag] \in 1 .. 16
    BY <1>1, <1>8 DEF LegalTag
  <2>4. /\ tag = 34 => a = msg[tag] - 1
        /\ tag = 35 => b = msg[tag] - 1
    BY <1>1, <1>2, <1>3, <1>8, <2>3 DEF TagOf, AnimChannel
  <2>5. /\ tag = 34 => Reply(stored, tag) = (stored[14] \div 16) + 1
        /\ tag = 35 => Reply(stored, tag) = (stored[14] % 16) + 1
    BY <1>8 DEF Reply
  <2> HIDE DEF a, b
  <2>6. stored[14] \div 16 = a /\ stored[14] % 16 = b
    BY <2>1, <2>2, AnimChannelsFit
  <2> QED
    BY <2>3, <2>4, <2>5, <2>6, <2>2, <1>8
<1>9. CASE tag \in {36, 37}
  <2>1. stored[15] = (table[15] % 64) + 64 * (table[16] % 4)
    BY <1>4 DEF GlobalCells, NumCells
  <2>2. /\ tag = 36 => table[15] = msg[tag] /\ msg[tag] < 64
        /\ tag = 37 => table[16] = msg[tag] /\ msg[tag] < 4
    BY <1>2, <1>9 DEF TagOf, LegalTag
  <2>3. table[15] \in 0 .. 127 /\ table[16] \in 0 .. 127
    BY <1>3
  <2> QED
    BY <2>1, <2>2, <2>3, <1>1, <1>9 DEF Reply
<1>10. CASE tag = 38
  BY <1>1, <1>2, <1>3, <1>4, <1>10
     DEF LegalTag, TagOf, Reply, GlobalCells, NumCells
<1> QED
  BY <1>1, <1>5, <1>6, <1>7, <1>8, <1>9, <1>10 DEF Tags

\* The page of an encoder is one that a reset reaches.
LEMMA PageIsReached ==
    ASSUME NEW e \in Encoders
    PROVE  PageOf(e) \in 0 .. NumPages - 1
  BY SizesAssumption DEF Encoders, PageOf

-----------------------------------------------------------------------------
(* Type correctness, one group of variables after the other.               *)

\* Each group is disturbed by some of the actions only.
LEMMA SameKeepsType ==
    ASSUME TypeOK
    PROVE  /\ UNCHANGED eeprom => StoreType'
           /\ UNCHANGED ram => RamType'
           /\ UNCHANGED <<message, history>> => HistoryType'
           /\ UNCHANGED <<display, usb, wdt>> => FlagsType'
           /\ UNCHANGED <<job, at, losses>> => JobType'
<1>1. UNCHANGED eeprom => StoreType'
  BY DEF TypeOK, StoreType, eeprom
<1>2. UNCHANGED ram => RamType'
  BY DEF TypeOK, RamType, ram
<1>3. UNCHANGED <<message, history>> => HistoryType'
  BY DEF TypeOK, HistoryType, history, IsPayload
<1>4. UNCHANGED <<display, usb, wdt>> => FlagsType'
  BY DEF TypeOK, FlagsType
<1>5. UNCHANGED <<job, at, losses>> => JobType'
  BY DEF TypeOK, JobType
<1> QED
  BY <1>1, <1>2, <1>3, <1>4, <1>5

\* No answer is an answer with nothing in it.
LEMMA NoReplyType == IsPayload(NoReply, Tags) /\ DOMAIN NoReply = {}
  BY DEF NoReply, IsPayload

\* RAM is cleared at power on, and holds the EEPROM once it is loaded.
LEMMA PowerOnType ==
    ASSUME TypeOK, PowerOn
    PROVE  TypeOK'
<1>1. StoreType'
  BY SameKeepsType DEF PowerOn
<1>2. RamType'
  <2>1. /\ ramCells' = [k \in 1 .. NumCells |-> 0]
        /\ ramPages' = [e \in Encoders |-> [f \in Fields |-> 0]]
    BY DEF PowerOn
  <2> QED
    BY <2>1 DEF RamType, Settings, Bytes
<1>3. HistoryType'
  <2>1. UNCHANGED <<message, acked, sent, fresh>> /\ pending' = {}
    BY DEF PowerOn
  <2> QED
    BY <2>1 DEF TypeOK, HistoryType, IsPayload
<1>4. FlagsType'
  BY DEF PowerOn, FlagsType
<1>5. JobType'
  <2>1. job' \in {"bootReset", "boot"} /\ at' = 0 /\ losses' = losses
    BY DEF PowerOn
  <2> QED
    BY <2>1, SizesAssumption DEF TypeOK, JobType, Jobs, LastStep, NumCells
<1> QED
  BY <1>1, <1>2, <1>3, <1>4, <1>5 DEF TypeOK

\* Loading leaves RAM with settings.
LEMMA LoadedType ==
    ASSUME TypeOK, Loaded
    PROVE  RamType' /\ pending' \subseteq Encoders
  BY DEF TypeOK, StoreType, RamType, Loaded

\* The steps that write no setting.
LEMMA QuietType ==
    ASSUME TypeOK
    PROVE  PowerLoss \/ WatchdogReset \/ Boot \/ UsbConfigured \/ SystemReset => TypeOK'
<1>1. CASE PowerLoss
  <2>1. JobType'
    BY <1>1, SizesAssumption DEF TypeOK, JobType, PowerLoss, Jobs
  <2> QED
    BY <1>1, <2>1, SameKeepsType DEF PowerLoss, TypeOK
<1>2. CASE WatchdogReset
  <2>1. JobType'
    BY <1>2 DEF TypeOK, JobType, WatchdogReset, Jobs
  <2> QED
    BY <1>2, <2>1, SameKeepsType DEF WatchdogReset, TypeOK
<1>3. CASE Boot
  <2>1. RamType' /\ pending' \subseteq Encoders
    BY <1>3, LoadedType DEF Boot
  <2>2. UNCHANGED <<eeprom, display, usb, wdt, at, message, losses, acked, sent, fresh>>
        /\ job = "boot" /\ job' = "idle"
    BY <1>3 DEF Boot
  <2>3. HistoryType'
    BY <2>1, <2>2 DEF TypeOK, HistoryType, IsPayload
  <2>4. JobType'
    BY <2>2 DEF TypeOK, JobType, Jobs
  <2> QED
    BY <2>1, <2>2, <2>3, <2>4, SameKeepsType DEF TypeOK
<1>4. CASE UsbConfigured
  <2>1. FlagsType'
    BY <1>4 DEF FlagsType, UsbConfigured
  <2> QED
    BY <1>4, <2>1, SameKeepsType DEF UsbConfigured, TypeOK
<1>5. CASE SystemReset
  <2>1. /\ UNCHANGED <<eeprom, ram, display, usb, message, losses, sent, pending, fresh>>
        /\ job' = "sysReset" /\ at' = 0 /\ wdt' = FALSE /\ acked' = NoReply
    BY <1>5 DEF SystemReset
  <2>2. FlagsType'
    BY <2>1 DEF TypeOK, FlagsType
  <2>3. JobType'
    BY <2>1, SizesAssumption DEF TypeOK, JobType, Jobs, LastStep, NumCells
  <2>4. HistoryType'
    BY <2>1, NoReplyType DEF TypeOK, HistoryType, IsPayload
  <2> QED
    BY <2>1, <2>2, <2>3, <2>4, SameKeepsType DEF TypeOK
<1> QED
  BY <1>1, <1>2, <1>3, <1>4, <1>5

\* A reset writes bytes, and its next write is one it has.
LEMMA ResetType ==
    ASSUME TypeOK, ResetWrite
    PROVE  TypeOK'
<1>1. StoreType'
  <2>1. version' \in {EEPROM_LAYOUT, OtherLayout}
    BY DEF TypeOK, StoreType, ResetWrite
  <2>2. cells' = IF at \in 1 .. NumCells
                   THEN [cells EXCEPT ![at] = FactoryCells[at]] ELSE cells
    BY DEF ResetWrite
  <2>3. cells' \in [1 .. NumCells -> Bytes]
    BY <2>2, FactoryCellsType DEF TypeOK, StoreType
  <2>4. pages' = [e \in Encoders |->
                    IF at = PageStep(PageOf(e)) THEN FactoryEncoder ELSE pages[e]]
    BY DEF ResetWrite
  <2>5. pages' \in [Encoders -> Settings]
    BY <2>4, FactoryEncoderType DEF TypeOK, StoreType
  <2> QED
    BY <2>1, <2>3, <2>5 DEF StoreType
<1>2. RamType'
  BY SameKeepsType DEF ResetWrite
<1>3. HistoryType'
  <2>1. sent' = [e \in Encoders |->
                    IF at = PageStep(PageOf(e)) THEN FactorySent ELSE sent[e]]
    BY DEF ResetWrite
  <2>2. sent' \in [Encoders -> Settings]
    BY <2>1, FactoryEncoderType DEF TypeOK, HistoryType
  <2>3. UNCHANGED <<message, acked, pending, fresh>>
    BY DEF ResetWrite
  <2> QED
    BY <2>2, <2>3 DEF TypeOK, HistoryType, IsPayload
<1>4. FlagsType'
  BY DEF TypeOK, FlagsType, ResetWrite
<1>5. JobType'
  <2>1. job \in {"bootReset", "sysReset"} /\ losses' = losses
    BY DEF ResetWrite
  <2>2. at' = IF at = LastStep THEN 0 ELSE at + 1
    BY DEF ResetWrite
  <2>3. IF at = LastStep THEN job' \in {"hung", "boot"} ELSE job' = job
    BY DEF ResetWrite
  <2>4. LastStep \in Nat
    BY SizesAssumption DEF LastStep, NumCells
  <2> QED
    BY <2>1, <2>2, <2>3, <2>4 DEF TypeOK, JobType, Jobs
<1> QED
  BY <1>1, <1>2, <1>3, <1>4, <1>5 DEF TypeOK

\* A message of the utility is written byte by byte, and then answered.
LEMMA PushType ==
    ASSUME TypeOK
    PROVE  (\E msg \in PushMessages : PushConfig(msg)) \/ PushWrite \/ PushDone => TypeOK'
<1>1. ASSUME NEW msg \in PushMessages, PushConfig(msg)
      PROVE  TypeOK'
  <2>1. /\ UNCHANGED <<eeprom, ram, display, usb, losses, sent, pending>>
        /\ job' = "push" /\ at' = 1 /\ wdt' = FALSE /\ fresh' = FALSE
        /\ message' = msg /\ acked' = NoReply
    BY <1>1 DEF PushConfig
  <2>2. FlagsType'
    BY <2>1 DEF TypeOK, FlagsType
  <2>3. JobType'
    BY <2>1 DEF TypeOK, JobType, Jobs, NumCells
  <2>4. IsPayload(message, Tags)' /\ IsPayload(acked, Tags)'
    BY <2>1, NoReplyType, MessagesAssumption DEF IsPayload
  <2>5. HistoryType'
    BY <2>1, <2>4 DEF TypeOK, HistoryType
  <2> QED
    BY <2>1, <2>2, <2>3, <2>5, SameKeepsType DEF TypeOK
<1>2. CASE PushWrite
  <2>1. /\ UNCHANGED <<version, pages, ram, display, usb, wdt, job, message, losses, history>>
        /\ job = "push" /\ at <= NumCells /\ at' = at + 1
        /\ cells' = [cells EXCEPT ![at] = GlobalCells(global_tv_table_decode(message))[at]]
    BY <1>2 DEF PushWrite
  <2>2. at \in 1 .. NumCells
    BY <2>1 DEF TypeOK, JobType, NumCells
  <2>3. GlobalCells(global_tv_table_decode(message))[at] \in Bytes
    BY <2>2, TableType, CellsType DEF TypeOK, HistoryType
  <2>4. StoreType'
    BY <2>1, <2>3 DEF TypeOK, StoreType
  <2>5. JobType'
    BY <2>1, <2>2 DEF TypeOK, JobType, NumCells
  <2> QED
    BY <2>1, <2>4, <2>5, SameKeepsType DEF TypeOK
<1>3. CASE PushDone
  <2>1. RamType' /\ pending' \subseteq Encoders
    BY <1>3, LoadedType DEF PushDone
  <2>2. /\ UNCHANGED <<eeprom, usb, wdt, losses, sent, fresh>>
        /\ job' = "idle" /\ at' = 0 /\ display' = TRUE
        /\ message' = NoReply /\ acked' = message
    BY <1>3 DEF PushDone
  <2>3. FlagsType'
    BY <2>2 DEF TypeOK, FlagsType
  <2>4. JobType'
    BY <2>2 DEF TypeOK, JobType, Jobs
  <2>5. IsPayload(message, Tags)' /\ IsPayload(acked, Tags)'
    BY <2>2, NoReplyType DEF TypeOK, HistoryType, IsPayload
  <2>6. HistoryType'
    BY <2>1, <2>2, <2>5 DEF TypeOK, HistoryType
  <2> QED
    BY <2>1, <2>2, <2>3, <2>4, <2>6, SameKeepsType DEF TypeOK
<1> QED
  BY <1>1, <1>2, <1>3

\* A transfer of one encoder.
LEMMA BulkType ==
    ASSUME TypeOK, NEW t \in BulkTransfers, BulkPush(t[1], t[2])
    PROVE  TypeOK'
<1> DEFINE e == t[1]
           msg == t[2]
           cfg == Decoded(msg)
<1>1. e \in Encoders /\ IsPayload(msg, Fields)
  BY TransfersAssumption
<1>2. /\ UNCHANGED <<version, cells, ramCells, usb, wdt, job, at, message, losses, acked>>
      /\ ramPages' = [ramPages EXCEPT ![e] = cfg]
      /\ pages' = [pages EXCEPT ![e] = Merged(pages[e], cfg)]
      /\ sent' = [sent EXCEPT ![e] = Overlaid(sent[e], msg)]
      /\ pending' = pending \cup {e}
      /\ display' = FALSE /\ fresh' = FALSE
  BY DEF BulkPush
<1> HIDE DEF e, msg
<1>3. cfg \in Settings /\ Merged(pages[e], cfg) \in Settings
  BY <1>1, MergedType DEF TypeOK, StoreType
<1>4. Overlaid(sent[e], msg) \in Settings
  BY <1>1, OverlaidType DEF TypeOK, HistoryType
<1> HIDE DEF cfg
<1>5. StoreType'
  BY <1>1, <1>2, <1>3 DEF TypeOK, StoreType
<1>6. RamType'
  BY <1>1, <1>2, <1>3 DEF TypeOK, RamType
<1>7. HistoryType'
  BY <1>1, <1>2, <1>4 DEF TypeOK, HistoryType, IsPayload
<1>8. FlagsType'
  BY <1>2 DEF TypeOK, FlagsType
<1> QED
  BY <1>2, <1>5, <1>6, <1>7, <1>8, SameKeepsType DEF TypeOK

\* A device that is off, new or left by another firmware, has its type.
LEMMA InitTypeOK == Init => TypeOK
<1> SUFFICES ASSUME Init PROVE TypeOK
  OBVIOUS
<1> DEFINE Zeroes == [f \in Fields |-> 0]
           Blank == [k \in 1 .. NumCells |-> 0]
<1>1. StoreType /\ RamType
  <2>1. Zeroes \in Settings /\ Blank \in [1 .. NumCells -> Bytes]
    BY DEF Settings, Bytes
  <2>2. /\ version \in {EEPROM_LAYOUT, OtherLayout}
        /\ cells = IF version = EEPROM_LAYOUT THEN FactoryCells ELSE Blank
        /\ pages = [e \in Encoders |->
                       IF version = EEPROM_LAYOUT THEN FactoryEncoder ELSE Zeroes]
        /\ ramCells = Blank
        /\ ramPages = [e \in Encoders |-> Zeroes]
    BY DEF Init
  <2> HIDE DEF Zeroes, Blank
  <2>3. cells \in [1 .. NumCells -> Bytes] /\ pages \in [Encoders -> Settings]
    BY <2>1, <2>2, FactoryCellsType, FactoryEncoderType
  <2>4. ramPages \in [Encoders -> Settings]
    BY <2>1, <2>2
  <2> QED
    BY <2>1, <2>2, <2>3, <2>4 DEF StoreType, RamType
<1>2. sent \in [Encoders -> Settings]
  <2>1. sent = [e \in Encoders |-> [f \in Fields |-> Pulled(f, pages[e][f])]]
    BY DEF Init
  <2>2. \A e \in Encoders, f \in Fields :
            pages[e][f] = FactoryEncoder[f] \/ pages[e][f] = 0
    BY DEF Init
  <2>3. \A f \in Fields : Pulled(f, FactoryEncoder[f]) \in Bytes /\ Pulled(f, 0) \in Bytes
    BY FactoryEncoderType DEF FactorySent, Settings, Pulled, Bytes
  <2> QED
    BY <2>1, <2>2, <2>3 DEF Settings
<1>3. HistoryType
  BY <1>2, NoReplyType DEF Init, HistoryType
<1>4. FlagsType
  BY DEF Init, FlagsType
<1>5. JobType
  <2>1. job = "off" /\ at = 0 /\ losses = 0
    BY DEF Init
  <2> QED
    BY <2>1, SizesAssumption DEF JobType, Jobs
<1> QED
  BY <1>1, <1>3, <1>4, <1>5 DEF TypeOK

\* Every step keeps the types.
LEMMA NextTypeOK == TypeOK /\ [Next]_vars => TypeOK'
<1> SUFFICES ASSUME TypeOK, [Next]_vars PROVE TypeOK'
  OBVIOUS
<1>1. CASE Next
  BY <1>1, QuietType, PowerOnType, ResetType, PushType, BulkType DEF Next
<1>2. CASE UNCHANGED vars
  <2>1. UNCHANGED <<eeprom, ram, history, message, display, usb, wdt, job, at, losses>>
    BY <1>2 DEF vars, eeprom, ram, history
  <2> QED
    BY <2>1, SameKeepsType DEF TypeOK
<1> QED
  BY <1>1, <1>2

\* Every variable of the settings keeps its kind, and every job has the write
\* it is at.
THEOREM TypeCorrect == Spec => []TypeOK
<1> QED
  BY InitTypeOK, NextTypeOK, PTL DEF Spec

-----------------------------------------------------------------------------
(* What the writes have reached, and so what an answer stands for.         *)

\* Nothing in the EEPROM, at work or answered has changed.
SameWrites == UNCHANGED <<eeprom, job, at, message, acked>>

\* The processor stops or comes to rest: no write is under way.
Rests == UNCHANGED <<eeprom, acked>> /\ job' \in {"off", "boot", "idle"}

\* Steps that write nothing and answer nothing keep what the writes have reached.
LEMMA RestKeepsWriteInv ==
    ASSUME TypeOK, WriteInv
    PROVE  /\ SameWrites => WriteInv'
           /\ Rests /\ (job' = "off" \/ version = EEPROM_LAYOUT) => WriteInv'
<1>1. SameWrites => WriteInv'
  BY DEF SameWrites, eeprom, WriteInv, LayoutKnown, NothingAnswered, PushedSoFar,
         ResetSoFar
<1>2. ASSUME Rests, job' = "off" \/ version = EEPROM_LAYOUT
      PROVE  WriteInv'
  <2>1. version' = version /\ acked' = acked /\ job' \notin {"bootReset", "sysReset", "push"}
    BY <1>2 DEF Rests, eeprom
  <2> QED
    BY <1>2, <2>1 DEF WriteInv, LayoutKnown, NothingAnswered, PushedSoFar, ResetSoFar
<1> QED
  BY <1>1, <1>2

\* No byte is written before the first.
LEMMA StartKeepsWriteInv ==
    ASSUME TypeOK, WriteInv, UNCHANGED eeprom,
           \/ job' \in {"bootReset", "sysReset"} /\ at' = 0
           \/ job' = "push" /\ at' = 1,
           DOMAIN acked' = {},
           job' = "bootReset" \/ version = EEPROM_LAYOUT
    PROVE  WriteInv'
<1>1. LayoutKnown' /\ NothingAnswered'
  BY DEF LayoutKnown, NothingAnswered, eeprom
<1>2. PushedSoFar'
  BY DEF PushedSoFar, NumCells
<1>3. ResetSoFar'
  <2>1. ASSUME NEW e \in Encoders
        PROVE  ~(PageStep(PageOf(e)) < 0)
    BY PageIsReached, SizesAssumption DEF PageStep, NumCells
  <2> QED
    BY <2>1 DEF ResetSoFar, NumCells
<1> QED
  BY <1>1, <1>2, <1>3 DEF WriteInv

\* Each write of a reset adds one byte or page to those that are as new.
LEMMA ResetKeepsWriteInv ==
    ASSUME TypeOK, WriteInv, ResetWrite
    PROVE  WriteInv'
<1>1. /\ job \in {"bootReset", "sysReset"} /\ at \in 0 .. LastStep
      /\ at' = IF at = LastStep THEN 0 ELSE at + 1
      /\ at # LastStep => job' = job
      /\ at = LastStep => job' \in {"hung", "boot"}
      /\ acked' = acked /\ DOMAIN acked = {}
  BY DEF ResetWrite, TypeOK, JobType, WriteInv, NothingAnswered
<1>2. LastStep \in Nat /\ LastStep > NumCells
  BY SizesAssumption DEF LastStep, NumCells
<1>3. version' = EEPROM_LAYOUT
  BY <1>1 DEF ResetWrite, WriteInv, ResetSoFar
<1>4. LayoutKnown' /\ NothingAnswered'
  BY <1>1, <1>3 DEF LayoutKnown, NothingAnswered
<1>5. PushedSoFar'
  BY <1>1 DEF PushedSoFar
<1>6. ASSUME at # LastStep, NEW k \in 1 .. NumCells, k < at'
      PROVE  cells'[k] = FactoryCells[k]
  <2>1. cells' = IF at \in 1 .. NumCells
                   THEN [cells EXCEPT ![at] = FactoryCells[at]] ELSE cells
    BY DEF ResetWrite
  <2>2. cells \in [1 .. NumCells -> Bytes]
    BY DEF TypeOK, StoreType
  <2>3. k < at => cells[k] = FactoryCells[k]
    BY <1>1 DEF WriteInv, ResetSoFar
  <2>4. k = at \/ k < at
    BY <1>1, <1>6, <1>2
  <2> QED
    BY <2>1, <2>2, <2>3, <2>4, <1>6
<1>7. ASSUME at # LastStep, NEW e \in Encoders, PageStep(PageOf(e)) < at'
      PROVE  pages'[e] = FactoryEncoder
  <2>1. pages'[e] = IF at = PageStep(PageOf(e)) THEN FactoryEncoder ELSE pages[e]
    BY DEF ResetWrite
  <2>2. PageStep(PageOf(e)) < at => pages[e] = FactoryEncoder
    BY <1>1 DEF WriteInv, ResetSoFar
  <2>3. PageStep(PageOf(e)) \in Nat
    BY PageIsReached, SizesAssumption DEF PageStep, NumCells
  <2>4. PageStep(PageOf(e)) = at \/ PageStep(PageOf(e)) < at
    BY <1>1, <1>7, <1>2, <2>3
  <2> QED
    BY <2>1, <2>2, <2>4
<1>8. ResetSoFar'
  <2>1. job' \in {"bootReset", "sysReset"} => at # LastStep
    BY <1>1
  <2> QED
    BY <2>1, <1>3, <1>6, <1>7 DEF ResetSoFar
<1> QED
  BY <1>4, <1>5, <1>8 DEF WriteInv

\* Each write of a push adds one byte to those that are as sent; the last one answers.
LEMMA PushKeepsWriteInv ==
    ASSUME TypeOK, WriteInv, PushWrite
    PROVE  WriteInv'
<1>1. /\ UNCHANGED <<version, pages, job, message, acked>>
      /\ job = "push" /\ at <= NumCells /\ at' = at + 1
      /\ cells' = [cells EXCEPT ![at] = GlobalCells(global_tv_table_decode(message))[at]]
  BY DEF PushWrite, history
<1>2. at \in 1 .. NumCells /\ cells \in [1 .. NumCells -> Bytes]
  BY <1>1 DEF TypeOK, JobType, StoreType, NumCells
<1>3. LayoutKnown' /\ NothingAnswered'
  BY <1>1 DEF WriteInv, LayoutKnown, NothingAnswered
<1>4. ResetSoFar'
  BY <1>1 DEF ResetSoFar
<1>5. ASSUME NEW k \in 1 .. NumCells, k < at'
      PROVE  cells'[k] = GlobalCells(global_tv_table_decode(message))[k]
  <2>1. k < at => cells[k] = GlobalCells(global_tv_table_decode(message))[k]
    BY <1>1 DEF WriteInv, PushedSoFar
  <2> DEFINE new == GlobalCells(global_tv_table_decode(message))[at]
  <2>2. cells'[at] = new /\ (k # at => cells'[k] = cells[k])
    BY <1>1, <1>2
  <2>3. k = at \/ k < at
    BY <1>1, <1>2, <1>5
  <2> QED
    BY <2>1, <2>2, <2>3
<1>6. PushedSoFar'
  BY <1>1, <1>5 DEF PushedSoFar
<1> QED
  BY <1>3, <1>4, <1>6 DEF WriteInv

\* Every step keeps what the writes have reached.
LEMMA NextWriteInv == TypeOK /\ WriteInv /\ [Next]_vars => WriteInv'
<1> SUFFICES ASSUME TypeOK, WriteInv, [Next]_vars PROVE WriteInv'
  OBVIOUS
<1>0. job \in {"boot", "idle", "push"} => version = EEPROM_LAYOUT
  BY DEF WriteInv, LayoutKnown
<1>1. CASE PowerLoss \/ WatchdogReset
  <2>1. Rests /\ job' = "off"
    BY <1>1 DEF PowerLoss, WatchdogReset, Rests, history
  <2> QED
    BY <2>1, RestKeepsWriteInv
<1>2. CASE PowerOn
  <2>1. UNCHANGED <<eeprom, acked>> /\ at' = 0
    BY <1>2 DEF PowerOn
  <2>2. CASE version = EEPROM_LAYOUT
    <3>1. Rests
      BY <1>2, <2>1, <2>2 DEF PowerOn, Rests
    <3> QED
      BY <3>1, <2>2, RestKeepsWriteInv
  <2>3. CASE version # EEPROM_LAYOUT
    <3>1. job' = "bootReset" /\ DOMAIN acked' = {}
      BY <1>2, <2>1, <2>3 DEF PowerOn, WriteInv, LayoutKnown
    <3> QED
      BY <2>1, <3>1, StartKeepsWriteInv
  <2> QED
    BY <2>2, <2>3
<1>3. CASE Boot
  <2>1. Rests
    BY <1>3 DEF Boot, Rests
  <2> QED
    BY <1>0, <1>3, <2>1, RestKeepsWriteInv DEF Boot
<1>4. CASE UsbConfigured
  BY <1>4, RestKeepsWriteInv DEF UsbConfigured, SameWrites, history
<1>5. CASE ResetWrite
  BY <1>5, ResetKeepsWriteInv
<1>6. CASE SystemReset
  <2>1. UNCHANGED eeprom /\ job = "idle" /\ job' = "sysReset" /\ at' = 0 /\ acked' = NoReply
    BY <1>6 DEF SystemReset
  <2> QED
    BY <1>0, <2>1, NoReplyType, StartKeepsWriteInv
<1>7. ASSUME NEW msg \in PushMessages, PushConfig(msg)
      PROVE  WriteInv'
  <2>1. UNCHANGED eeprom /\ job = "idle" /\ job' = "push" /\ at' = 1 /\ acked' = NoReply
    BY <1>7 DEF PushConfig
  <2> QED
    BY <1>0, <2>1, NoReplyType, StartKeepsWriteInv
<1>8. CASE PushWrite
  BY <1>8, PushKeepsWriteInv
<1>9. CASE PushDone
  <2>1. job' = "idle" /\ version' = version /\ version = EEPROM_LAYOUT
    BY <1>0, <1>9 DEF PushDone, eeprom
  <2> QED
    BY <2>1 DEF WriteInv, LayoutKnown, NothingAnswered, PushedSoFar, ResetSoFar
<1>10. ASSUME NEW t \in BulkTransfers, BulkPush(t[1], t[2])
       PROVE  WriteInv'
  <2>1. job = "idle" /\ job' = job /\ version' = version /\ acked' = acked
    BY <1>10 DEF BulkPush
  <2> QED
    BY <2>1 DEF WriteInv, LayoutKnown, NothingAnswered, PushedSoFar, ResetSoFar
<1>11. CASE UNCHANGED vars
  BY <1>11, RestKeepsWriteInv DEF vars, SameWrites, eeprom
<1> QED
  BY <1>1, <1>2, <1>3, <1>4, <1>5, <1>6, <1>7, <1>8, <1>9, <1>10, <1>11 DEF Next

\* Nothing is being written at first.
LEMMA InitWriteInv == Init => WriteInv
<1> SUFFICES ASSUME Init PROVE WriteInv
  OBVIOUS
<1>1. job = "off" /\ acked = NoReply
  BY DEF Init
<1> QED
  BY <1>1, NoReplyType DEF WriteInv, LayoutKnown, NothingAnswered, PushedSoFar, ResetSoFar

\* The answer stands while no global byte is written.
LEMMA NextDurable ==
    TypeOK /\ WriteInv /\ AnsweredConfigIsDurable /\ [Next]_vars => AnsweredConfigIsDurable'
<1> SUFFICES ASSUME TypeOK, WriteInv, AnsweredConfigIsDurable, [Next]_vars
             PROVE  AnsweredConfigIsDurable'
  OBVIOUS
<1>1. ASSUME UNCHANGED <<cells, acked>>
      PROVE  AnsweredConfigIsDurable'
  BY <1>1 DEF AnsweredConfigIsDurable
<1>2. ASSUME acked' = NoReply
      PROVE  AnsweredConfigIsDurable'
  BY <1>2, NoReplyType DEF AnsweredConfigIsDurable
<1>3. CASE ResetWrite
  <2>1. acked' = acked /\ DOMAIN acked = {}
    BY <1>3 DEF ResetWrite, WriteInv, NothingAnswered
  <2> QED
    BY <2>1 DEF AnsweredConfigIsDurable
<1>4. CASE PushWrite
  <2>1. acked' = acked /\ DOMAIN acked = {}
    BY <1>4 DEF PushWrite, WriteInv, NothingAnswered, history
  <2> QED
    BY <2>1 DEF AnsweredConfigIsDurable
<1>5. CASE PushDone
  <2>1. cells' = cells /\ acked' = message /\ job = "push" /\ at > NumCells
    BY <1>5 DEF PushDone, eeprom
  <2>2. \A k \in 1 .. NumCells : cells[k] = GlobalCells(global_tv_table_decode(message))[k]
    BY <2>1 DEF WriteInv, PushedSoFar, TypeOK, JobType, NumCells
  <2>3. IsPayload(message, Tags)
    BY DEF TypeOK, HistoryType
  <2>4. \A tag \in DOMAIN message :
            LegalTag(tag, message[tag]) => Reply(cells, tag) = message[tag]
    BY <2>2, <2>3, AnswerIsWhatWasSent
  <2> QED
    BY <2>1, <2>4 DEF AnsweredConfigIsDurable
<1>6. CASE PowerLoss \/ WatchdogReset \/ PowerOn \/ Boot \/ UsbConfigured
  <2>1. UNCHANGED <<cells, acked>>
    BY <1>6 DEF PowerLoss, WatchdogReset, PowerOn, Boot, UsbConfigured, eeprom, history
  <2> QED
    BY <2>1, <1>1
<1>7. CASE SystemReset
  BY <1>2, <1>7 DEF SystemReset
<1>8. ASSUME NEW msg \in PushMessages, PushConfig(msg)
      PROVE  AnsweredConfigIsDurable'
  BY <1>2, <1>8 DEF PushConfig
<1>9. ASSUME NEW t \in BulkTransfers, BulkPush(t[1], t[2])
      PROVE  AnsweredConfigIsDurable'
  BY <1>1, <1>9 DEF BulkPush
<1>10. CASE UNCHANGED vars
  BY <1>1, <1>10 DEF vars
<1> QED
  BY <1>3, <1>4, <1>5, <1>6, <1>7, <1>8, <1>9, <1>10 DEF Next

\* A whole reset has written every byte and every page.
LEMMA NextWhole ==
    TypeOK /\ WriteInv /\ ResetIsWhole /\ [Next]_vars => ResetIsWhole'
<1> SUFFICES ASSUME TypeOK, WriteInv, ResetIsWhole, [Next]_vars, job' = "hung"
             PROVE  (version = EEPROM_LAYOUT /\ cells = FactoryCells
                       /\ \A e \in Encoders : pages[e] = FactoryEncoder)'
  BY DEF ResetIsWhole
<1>1. CASE ResetWrite
  <2>1. job \in {"bootReset", "sysReset"} /\ at = LastStep
    BY <1>1 DEF ResetWrite
  <2>2. at \in Nat /\ at > NumCells
    BY <2>1, SizesAssumption DEF LastStep, NumCells
  <2>3. version' = EEPROM_LAYOUT
    BY <1>1, <2>1, <2>2 DEF ResetWrite, WriteInv, ResetSoFar
  <2>4. cells' = FactoryCells
    <3>1. cells' = cells
      <4>1. at \notin 1 .. NumCells
        BY <2>2 DEF NumCells
      <4> QED
        BY <1>1, <4>1 DEF ResetWrite
    <3>2. ASSUME NEW k \in 1 .. NumCells
          PROVE  cells[k] = FactoryCells[k]
      <4>1. k < at
        BY <2>2 DEF NumCells
      <4> QED
        BY <2>1, <4>1 DEF WriteInv, ResetSoFar
    <3>3. /\ cells = [k \in 1 .. NumCells |-> cells[k]]
          /\ FactoryCells = [k \in 1 .. NumCells |-> FactoryCells[k]]
      BY FactoryCellsType DEF TypeOK, StoreType
    <3>4. cells = FactoryCells
      BY <3>2, <3>3, Zenon
    <3> QED
      BY <3>1, <3>4
  <2>5. ASSUME NEW e \in Encoders
        PROVE  pages'[e] = FactoryEncoder
    <3>1. pages'[e] = IF at = PageStep(PageOf(e)) THEN FactoryEncoder ELSE pages[e]
      BY <1>1 DEF ResetWrite
    <3>2. PageStep(PageOf(e)) <= at
      BY <2>1, PageIsReached, SizesAssumption DEF PageStep, LastStep, NumCells
    <3>3. PageStep(PageOf(e)) < at => pages[e] = FactoryEncoder
      BY <2>1 DEF WriteInv, ResetSoFar
    <3>4. PageStep(PageOf(e)) = at \/ PageStep(PageOf(e)) < at
      BY <3>2, <2>1, PageIsReached, SizesAssumption DEF PageStep, LastStep, NumCells
    <3> QED
      BY <3>1, <3>3, <3>4
  <2> QED
    BY <2>3, <2>4, <2>5
<1>2. CASE UNCHANGED vars
  BY <1>2 DEF vars, ResetIsWhole
<1>3. CASE PowerLoss \/ WatchdogReset \/ PowerOn \/ Boot
  BY <1>3 DEF PowerLoss, WatchdogReset, PowerOn, Boot
<1>4. CASE UsbConfigured \/ SystemReset
  BY <1>4 DEF UsbConfigured, SystemReset
<1>5. CASE \E msg \in PushMessages : PushConfig(msg)
  BY <1>5 DEF PushConfig
<1>6. CASE PushWrite \/ PushDone
  BY <1>6 DEF PushWrite, PushDone
<1>7. CASE \E t \in BulkTransfers : BulkPush(t[1], t[2])
  BY <1>7 DEF BulkPush
<1> QED
  BY <1>1, <1>2, <1>3, <1>4, <1>5, <1>6, <1>7 DEF Next

\* RAM is what was loaded, but for the transfers since.
LEMMA NextStale ==
    TypeOK /\ OnlyPendingIsStale /\ [Next]_vars => OnlyPendingIsStale'
<1> SUFFICES ASSUME TypeOK, OnlyPendingIsStale, [Next]_vars, job' = "idle"
             PROVE  (/\ ramCells = cells
                     /\ \A e \in Encoders \ pending : ramPages[e] = pages[e])'
  BY DEF OnlyPendingIsStale
<1>1. CASE Boot \/ PushDone
  BY <1>1 DEF Boot, PushDone, Loaded, eeprom
<1>2. CASE UNCHANGED vars
  BY <1>2 DEF vars, OnlyPendingIsStale
<1>3. CASE UsbConfigured
  BY <1>3 DEF UsbConfigured, OnlyPendingIsStale, eeprom, ram, history
<1>4. ASSUME NEW t \in BulkTransfers, BulkPush(t[1], t[2])
      PROVE  (/\ ramCells = cells
              /\ \A e \in Encoders \ pending : ramPages[e] = pages[e])'
  <2>1. job = "idle" /\ UNCHANGED <<cells, ramCells>> /\ pending' = pending \cup {t[1]}
    BY <1>4 DEF BulkPush
  <2>2. ASSUME NEW e \in Encoders, e # t[1]
        PROVE  ramPages'[e] = ramPages[e] /\ pages'[e] = pages[e]
    BY <1>4, <2>2 DEF BulkPush, TypeOK, StoreType, RamType
  <2> QED
    BY <2>1, <2>2 DEF OnlyPendingIsStale
<1>5. CASE PowerLoss \/ WatchdogReset \/ PowerOn
  BY <1>5 DEF PowerLoss, WatchdogReset, PowerOn
<1>6. CASE ResetWrite
  BY <1>6 DEF ResetWrite
<1>7. CASE SystemReset \/ \E msg \in PushMessages : PushConfig(msg)
  BY <1>7 DEF SystemReset, PushConfig
<1>8. CASE PushWrite
  BY <1>8 DEF PushWrite
<1> QED
  BY <1>1, <1>2, <1>3, <1>4, <1>5, <1>6, <1>7, <1>8 DEF Next

\* What was sent of an encoder changes together with its page.
LEMMA NextKeeps ==
    TypeOK /\ EncoderKeepsWhatWasSent /\ [Next]_vars => EncoderKeepsWhatWasSent'
<1> SUFFICES ASSUME TypeOK, EncoderKeepsWhatWasSent, [Next]_vars
             PROVE  EncoderKeepsWhatWasSent'
  OBVIOUS
<1>1. ASSUME UNCHANGED <<pages, sent>>
      PROVE  EncoderKeepsWhatWasSent'
  BY <1>1 DEF EncoderKeepsWhatWasSent
<1>2. CASE ResetWrite
  <2>1. ASSUME NEW e \in Encoders, NEW f \in Fields, LegalField(f, sent'[e][f])
        PROVE  Pulled(f, pages'[e][f]) = sent'[e][f]
    <3>1. /\ pages'[e] = IF at = PageStep(PageOf(e)) THEN FactoryEncoder ELSE pages[e]
          /\ sent'[e] = IF at = PageStep(PageOf(e)) THEN FactorySent ELSE sent[e]
      BY <1>2 DEF ResetWrite
    <3>2. CASE at = PageStep(PageOf(e))
      <4>1. pages'[e] = FactoryEncoder /\ sent'[e][f] = Pulled(f, FactoryEncoder[f])
        BY <3>1, <3>2 DEF FactorySent
      <4> QED
        BY <4>1
    <3>3. CASE at # PageStep(PageOf(e))
      <4>1. pages'[e] = pages[e] /\ sent'[e] = sent[e]
        BY <3>1, <3>3
      <4> QED
        BY <2>1, <4>1 DEF EncoderKeepsWhatWasSent
    <3> QED
      BY <3>2, <3>3
  <2> QED
    BY <2>1 DEF EncoderKeepsWhatWasSent
<1>3. ASSUME NEW t \in BulkTransfers, BulkPush(t[1], t[2])
      PROVE  EncoderKeepsWhatWasSent'
  <2> DEFINE x == t[1]
             msg == t[2]
  <2>1. x \in Encoders /\ IsPayload(msg, Fields)
    BY TransfersAssumption
  <2>2. /\ pages' = [pages EXCEPT ![x] = Merged(pages[x], Decoded(msg))]
        /\ sent' = [sent EXCEPT ![x] = Overlaid(sent[x], msg)]
    BY <1>3 DEF BulkPush
  <2> HIDE DEF x, msg
  <2>3. ASSUME NEW e \in Encoders, NEW f \in Fields, LegalField(f, sent'[e][f])
        PROVE  Pulled(f, pages'[e][f]) = sent'[e][f]
    <3>1. CASE e # x
      <4>1. pages'[e] = pages[e] /\ sent'[e] = sent[e]
        BY <2>2, <3>1 DEF TypeOK, StoreType, HistoryType
      <4> QED
        BY <2>3, <4>1 DEF EncoderKeepsWhatWasSent
    <3>2. CASE e = x
      <4>1. /\ pages'[e] = Merged(pages[e], Decoded(msg))
            /\ sent'[e] = Overlaid(sent[e], msg)
        BY <2>2, <3>2 DEF TypeOK, StoreType, HistoryType
      <4>2. pages'[e][f] = IF f \in DOMAIN msg THEN Packed(f, msg[f]) ELSE pages[e][f]
        BY <2>1, <4>1, MergedType DEF TypeOK, StoreType
      <4>3. sent'[e][f] = IF f \in DOMAIN msg THEN msg[f] ELSE sent[e][f]
        BY <4>1 DEF Overlaid
      <4>4. CASE f \in DOMAIN msg
        <5>1. msg[f] \in 0 .. 127
          BY <2>1, <4>4 DEF IsPayload
        <5> QED
          BY <2>3, <4>2, <4>3, <4>4, <5>1, LegalComesBack
      <4>5. CASE f \notin DOMAIN msg
        BY <2>3, <4>2, <4>3, <4>5 DEF EncoderKeepsWhatWasSent
      <4> QED
        BY <4>4, <4>5
    <3> QED
      BY <3>1, <3>2
  <2> QED
    BY <2>3 DEF EncoderKeepsWhatWasSent
<1>4. CASE PowerLoss \/ WatchdogReset \/ PowerOn \/ Boot \/ UsbConfigured
  <2>1. UNCHANGED <<pages, sent>>
    BY <1>4 DEF PowerLoss, WatchdogReset, PowerOn, Boot, UsbConfigured, eeprom, history
  <2> QED
    BY <1>1, <2>1
<1>5. CASE SystemReset \/ \E msg \in PushMessages : PushConfig(msg)
  <2>1. UNCHANGED <<pages, sent>>
    BY <1>5 DEF SystemReset, PushConfig, eeprom
  <2> QED
    BY <1>1, <2>1
<1>6. CASE PushWrite \/ PushDone
  <2>1. UNCHANGED <<pages, sent>>
    BY <1>6 DEF PushWrite, PushDone, eeprom, history
  <2> QED
    BY <1>1, <2>1
<1>7. CASE UNCHANGED vars
  BY <1>1, <1>7 DEF vars
<1> QED
  BY <1>2, <1>3, <1>4, <1>5, <1>6, <1>7 DEF Next

\* Nothing is answered, nothing is hung and what was sent is what is stored.
LEMMA InitProperties ==
    Init => /\ AnsweredConfigIsDurable /\ ResetIsWhole
            /\ OnlyPendingIsStale /\ EncoderKeepsWhatWasSent
<1> SUFFICES ASSUME Init
             PROVE  /\ AnsweredConfigIsDurable /\ ResetIsWhole
                    /\ OnlyPendingIsStale /\ EncoderKeepsWhatWasSent
  OBVIOUS
<1>1. AnsweredConfigIsDurable
  BY NoReplyType DEF Init, AnsweredConfigIsDurable
<1>2. ResetIsWhole /\ OnlyPendingIsStale
  <2>1. job = "off"
    BY DEF Init
  <2> QED
    BY <2>1 DEF ResetIsWhole, OnlyPendingIsStale
<1>3. EncoderKeepsWhatWasSent
  <2>1. sent = [e \in Encoders |-> [f \in Fields |-> Pulled(f, pages[e][f])]]
    BY DEF Init
  <2> QED
    BY <2>1 DEF EncoderKeepsWhatWasSent
<1> QED
  BY <1>1, <1>2, <1>3

-----------------------------------------------------------------------------
\* The invariant that carries what the writes have reached.
THEOREM Invariance == Spec => [](TypeOK /\ WriteInv)
<1>1. Init => TypeOK /\ WriteInv
  BY InitTypeOK, InitWriteInv
<1>2. TypeOK /\ WriteInv /\ [Next]_vars => (TypeOK /\ WriteInv)'
  BY NextTypeOK, NextWriteInv
<1> QED
  BY <1>1, <1>2, PTL DEF Spec

\* Once a PushConfig is answered, every legal setting in it is what a pull
\* answers, whenever power fails, until the next push or reset: the answer is
\* sent after the last EEPROM write (sysExCmdPushConfig).
THEOREM AnswersAreDurable == Spec => []AnsweredConfigIsDurable
<1> QED
  BY Invariance, InitProperties, NextDurable, PTL DEF Spec

\* When a reset over SysEx lets the watchdog restart the processor, every byte
\* and page is that of a new device (config_factory_reset).
THEOREM ResetsAreWhole == Spec => []ResetIsWhole
<1> QED
  BY Invariance, InitProperties, NextWhole, PTL DEF Spec

\* A working device has in RAM what the EEPROM holds, save for the encoders
\* transferred since it was loaded (load_config, encoders_init).
THEOREM RamIsLoaded == Spec => []OnlyPendingIsStale
<1> QED
  BY TypeCorrect, InitProperties, NextStale, PTL DEF Spec

\* A transfer keeps what it does not send and the other encoders' settings,
\* and what it sends comes back (save_encoder_config).
THEOREM TransfersAreKept == Spec => []EncoderKeepsWhatWasSent
<1> QED
  BY TypeCorrect, InitProperties, NextKeeps, PTL DEF Spec
=============================================================================
