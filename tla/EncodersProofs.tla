--------------------------- MODULE EncodersProofs ---------------------------
(***************************************************************************)
(* The encoder values with any number of banks and encoders, any settings, *)
(* ranges and messages of the host: the values stay in their range, the    *)
(* display shows them, and the host knows them.                            *)
(***************************************************************************)
EXTENDS Encoders, TLAPS, WellFoundedInduction

At(b, i, layer) == Address(config[b][i], layer)
Value == 0 .. RAW_MAX

-----------------------------------------------------------------------------
(* Numbers.                                                                *)

\* The numbers the code is built from, as linear facts.
LEMMA Ranges ==
    /\ CC_MAX \in Int /\ CENTER \in Int /\ CENTER >= 2 /\ CENTER + 2 <= CC_MAX
    /\ RAW_MAX = CC_MAX * 100 /\ RAW_MAX \in Int /\ RAW_MAX >= 400
    /\ encoder_detent_limit_low = CENTER * 100 - 60
    /\ encoder_detent_limit_high = CENTER * 100 + 150
    /\ encoder_detent_limit_low \in Value /\ encoder_detent_limit_high \in Value
    /\ 0 \in Value /\ 100 \in Value /\ RAW_MAX \in Value /\ RAW_MAX - 100 \in Value
    /\ CENTER * 100 \in Value /\ \A v \in 0 .. CC_MAX : v * 100 \in Value
  BY EncodersAssumption
     DEF RAW_MAX, Value, encoder_detent_limit_low, encoder_detent_limit_high

\* The value on the bus and the value on the display are a step apart at most.
LEMMA Scaling ==
    ASSUME NEW x \in Value
    PROVE  /\ scale_encoder_value(x) \in 0 .. CC_MAX /\ x \div 100 \in 0 .. CC_MAX
           /\ Distance(scale_encoder_value(x), x \div 100) <= 1
<1>1. x \in Int /\ 0 <= x /\ x <= CC_MAX * 100 /\ CC_MAX \in Int
  BY Ranges DEF Value
<1>2. x \div 100 \in 0 .. CC_MAX
  BY <1>1
<1>3. (x + 50) \div 100 \in 0 .. CC_MAX
  BY <1>1
<1>4. (x + 50) \div 100 = x \div 100 \/ (x + 50) \div 100 = (x \div 100) + 1
  BY <1>1
<1> QED
  BY <1>2, <1>3, <1>4 DEF scale_encoder_value, Distance

\* A value of the host comes back from the raw value it is stored as.
LEMMA ScalingBack ==
    ASSUME NEW v \in 0 .. CC_MAX
    PROVE  /\ scale_encoder_value(v * 100) = v /\ (v * 100) \div 100 = v
<1>1. v \in Int /\ v >= 0
  BY Ranges
<1>2. (v * 100 + 50) \div 100 = v /\ (v * 100) \div 100 = v
  BY <1>1
<1> QED
  BY <1>2 DEF scale_encoder_value

\* A clamped value is in range, and clamping does not pass the value it moves away
\* from.
LEMMA Clamping ==
    ASSUME NEW x \in Int
    PROVE  /\ clamp_encoder_raw_value(x) \in Value
           /\ clamp_encoder_raw_value(x) =
                IF x < 0 THEN 0 ELSE IF x > RAW_MAX THEN RAW_MAX ELSE x
<1>1. \A a, b \in Int : Max({a, b}) = (IF a >= b THEN a ELSE b)
  BY DEF Max
<1>2. \A a, b \in Int : Min({a, b}) = (IF a <= b THEN a ELSE b)
  BY DEF Min
<1> DEFINE y == IF x >= 0 THEN x ELSE 0
<1>3. Max({x, 0}) = y /\ y \in Int
  BY <1>1
<1>4. Min({y, RAW_MAX}) = IF y <= RAW_MAX THEN y ELSE RAW_MAX
  BY <1>2, <1>3, Ranges
<1>5. clamp_encoder_raw_value(x) = IF y <= RAW_MAX THEN y ELSE RAW_MAX
  BY <1>3, <1>4 DEF clamp_encoder_raw_value
<1>6. RAW_MAX \in Int /\ RAW_MAX >= 400
  BY Ranges
<1> QED
  BY <1>5, <1>6 DEF Value

\* What the widths make of a number, and when they leave it as it is.
LEMMA Widths ==
    ASSUME NEW n \in Int
    PROVE  /\ Int8(n) \in -128 .. 127 /\ Int16(n) \in Int
           /\ n >= -32768 /\ n < 32768 => Int16(n) = n
<1>1. Int8(n) \in -128 .. 127
  BY DEF Int8
<1>2. Int16(n) \in Int
  BY DEF Int16
<1>3. n >= -32768 /\ n < 32768 => Int16(n) = n
  BY DEF Int16
<1> QED
  BY <1>1, <1>2, <1>3

\* A set of encoders that is not empty has a last one.
LEMMA LastEncoder ==
    ASSUME NEW S \in SUBSET Encoders, S # {}
    PROVE  Max(S) \in S
<1> DEFINE R == OpToRel(<, Nat)
           T == {NumEncoders - s : s \in S}
<1>1. NumEncoders \in Nat /\ \A s \in S : s \in Nat /\ NumEncoders - s \in Nat
  BY EncodersAssumption DEF Encoders
<1>2. T \subseteq Nat /\ T # {}
  BY <1>1
<1>3. IsWellFoundedOn(R, Nat)
  BY NatLessThanWellFounded
<1>4. \A x, y \in Nat : <<y, x>> \in R <=> y < x
  BY DEF OpToRel
<1> HIDE DEF R, T
<1>5. PICK t \in T : \A y \in T : ~(<<y, t>> \in R)
  BY <1>2, <1>3, WFMin
<1>6. PICK m \in S : t = NumEncoders - m
  BY DEF T
<1>7. ASSUME NEW s \in S
      PROVE  m >= s
  <2>1. NumEncoders - s \in T
    BY DEF T
  <2>2. ~(NumEncoders - s < t)
    BY <1>2, <1>4, <1>5, <2>1
  <2> QED
    BY <1>1, <1>6, <2>2
<1> QED
  BY <1>7 DEF Max

-----------------------------------------------------------------------------
(* The raw values after a transfer.                                        *)

\* The variables the turns and the switches look at, one by one.
LEMMA SettingsTypes ==
    ASSUME TypeOK
    PROVE  /\ config \in [Banks -> [Encoders -> Settings]] /\ bank \in Banks
           /\ \A b \in Banks, i \in Encoders :
                 /\ config[b][i] \in Settings
                 /\ \A layer \in Layers : At(b, i, layer) \in Addresses
           /\ \A b, i : Layer(b, i) \in Layers
<1>1. config \in [Banks -> [Encoders -> Settings]] /\ bank \in Banks
  BY EncodersAssumption DEF TypeOK
<1>2. \A b \in Banks, i \in Encoders : config[b][i] \in Settings
  BY <1>1
<1>3. \A b \in Banks, i \in Encoders, layer \in Layers : At(b, i, layer) \in Addresses
  BY DEF Addresses, At
<1>4. \A b, i : Layer(b, i) \in Layers
  BY DEF Layer, Layers
<1> QED
  BY <1>1, <1>2, <1>3, <1>4

\* The giver of a value is an encoder of the current bank, and none gives to it.
LEMMA GiversAre ==
    ASSUME TypeOK, NEW b \in Banks, NEW i \in Encoders, NEW layer \in Layers
    PROVE  /\ Givers(b, i, layer) \subseteq Encoders
           /\ b = bank => Givers(b, i, layer) = {}
           /\ Givers(b, i, layer) # {} => Max(Givers(b, i, layer)) \in Givers(b, i, layer)
<1>1. Givers(b, i, layer) \subseteq Encoders /\ (b = bank => Givers(b, i, layer) = {})
  BY DEF Givers
<1> QED
  BY <1>1, LastEncoder

\* A transfer leaves the current bank alone, and gives the others its values.
LEMMA TransferredIs ==
    ASSUME TypeOK
    PROVE  /\ Transferred \in [Banks -> [Encoders -> [Layers -> Value]]]
           /\ \A i \in Encoders, layer \in Layers :
                 Transferred[bank][i][layer] = raw[bank][i][layer]
           /\ \A b \in Banks, i \in Encoders, layer \in Layers :
                 \/ /\ Givers(b, i, layer) = {}
                    /\ Transferred[b][i][layer] = raw[b][i][layer]
                 \/ \E j \in Givers(b, i, layer) :
                      Transferred[b][i][layer] = raw[bank][j][layer]
<1>1. ASSUME NEW b \in Banks, NEW i \in Encoders, NEW layer \in Layers
      PROVE  Transferred[b][i][layer] =
               IF Givers(b, i, layer) = {} THEN raw[b][i][layer]
               ELSE raw[bank][Max(Givers(b, i, layer))][layer]
  BY DEF Transferred
<1>2. raw \in [Banks -> [Encoders -> [Layers -> Value]]] /\ bank \in Banks
  BY DEF TypeOK, ValuesType, Value
<1>3. ASSUME NEW b \in Banks, NEW i \in Encoders, NEW layer \in Layers
      PROVE  /\ \/ /\ Givers(b, i, layer) = {}
                   /\ Transferred[b][i][layer] = raw[b][i][layer]
                \/ \E j \in Givers(b, i, layer) :
                     Transferred[b][i][layer] = raw[bank][j][layer]
             /\ Transferred[b][i][layer] \in Value
  <2>1. CASE Givers(b, i, layer) = {}
    BY <1>1, <1>2, <2>1
  <2>2. CASE Givers(b, i, layer) # {}
    <3>1. PICK j \in Givers(b, i, layer) : j = Max(Givers(b, i, layer))
      BY <2>2, GiversAre
    <3>2. j \in Encoders /\ Transferred[b][i][layer] = raw[bank][j][layer]
      BY <1>1, <2>2, <3>1, GiversAre
    <3> QED
      BY <1>2, <3>2
  <2> QED
    BY <2>1, <2>2
<1>4. Transferred \in [Banks -> [Encoders -> [Layers -> Value]]]
  <2>1. Transferred = [b \in Banks |-> [i \in Encoders |-> [layer \in Layers |->
                          Transferred[b][i][layer]]]]
    BY <1>1 DEF Transferred
  <2> QED
    BY <1>3, <2>1
<1>5. \A i \in Encoders, layer \in Layers : Transferred[bank][i][layer] = raw[bank][i][layer]
  BY <1>2, <1>3, GiversAre
<1> QED
  BY <1>3, <1>4, <1>5

\* Setting the current value of an encoder sets nothing else.
LEMMA SetCurrentIs ==
    ASSUME TypeOK, NEW i \in Encoders, NEW x \in Value
    PROVE  /\ SetCurrent(i, x) \in [Banks -> [Encoders -> [Layers -> Value]]]
           /\ \A b \in Banks, j \in Encoders, layer \in Layers :
                 SetCurrent(i, x)[b][j][layer] =
                    IF b = bank /\ j = i /\ layer = Layer(bank, i) THEN x
                    ELSE Transferred[b][j][layer]
<1>1. bank \in Banks /\ Layer(bank, i) \in Layers
  BY SettingsTypes
<1>2. PICK l \in Layers : l = Layer(bank, i)
  BY <1>1
<1>3. PICK t \in [Banks -> [Encoders -> [Layers -> Value]]] : t = Transferred
  BY TransferredIs
<1>4. SetCurrent(i, x) = [t EXCEPT ![bank][i][l] = x]
  BY <1>2, <1>3 DEF SetCurrent
<1>5. /\ SetCurrent(i, x) \in [Banks -> [Encoders -> [Layers -> Value]]]
      /\ \A b \in Banks, j \in Encoders, layer \in Layers :
            SetCurrent(i, x)[b][j][layer] =
               IF b = bank /\ j = i /\ layer = l THEN x ELSE t[b][j][layer]
  BY <1>1, <1>4
<1> QED
  BY <1>2, <1>3, <1>5

-----------------------------------------------------------------------------
(* What a turn or a switch does to the values.                             *)

\* The value x that encoder i takes without a message: the one it had, an edge of
\* the detent it leaves, or the place next to the end it leaves.
Unsent(i, x) ==
    \/ x = Current(i)
    \/ /\ DetentApplies(i) /\ x \in {encoder_detent_limit_low, encoder_detent_limit_high}
    \/ /\ DeadZoneApplies(i) /\ x = OffTheEnd(Current(i))

Near(i, v, x) == Distance(v, x \div 100) <= (IF config[bank][i].detent THEN 3 ELSE 1)

\* Encoder i takes the value x and shows v.
Sets(i, x, v) ==
    /\ raw' = SetCurrent(i, x)
    /\ indicator' = [Refreshed EXCEPT ![i] = v]
    /\ \/ NoMidi /\ Unsent(i, x)
       \/ Send(i, Layer(bank, i), scale_encoder_value(x))

\* The encoders that are not acted on stay in their layers.
Spares(i) ==
    /\ UNCHANGED <<config, bank, selecting>>
    /\ \A j \in Encoders : j # i => Layer(bank, j)' = Layer(bank, j)

Acted(i) ==
    /\ Spares(i)
    /\ \E x \in Value, v \in 0 .. CC_MAX : Sets(i, x, v) /\ Near(i, v, Current(i)')

\* The current value of an encoder is a raw value, and stands for a value.
LEMMA CurrentIs ==
    ASSUME TypeOK, NEW i \in Encoders
    PROVE  /\ Current(i) \in Value /\ Current(i) \div 100 \in 0 .. CC_MAX
           /\ Refreshed \in [Encoders -> 0 .. CC_MAX]
           /\ \A j \in Encoders : Refreshed[j] = Current(j) \div 100
<1>1. \A j \in Encoders : Current(j) \in Value
  BY SettingsTypes DEF Current, TypeOK, ValuesType, Value
<1>2. \A j \in Encoders : Current(j) \div 100 \in 0 .. CC_MAX
  BY <1>1, Scaling
<1>3. Refreshed = [j \in Encoders |-> Current(j) \div 100]
  BY DEF Refreshed
<1> QED
  BY <1>1, <1>2, <1>3

\* Keeping a value is setting it to what it is.
LEMMA KeepingIs ==
    ASSUME TypeOK, NEW i \in Encoders
    PROVE  /\ Transferred = SetCurrent(i, Current(i))
           /\ Refreshed = [Refreshed EXCEPT ![i] = Current(i) \div 100]
<1>1. Refreshed = [Refreshed EXCEPT ![i] = Current(i) \div 100]
  BY CurrentIs
<1>2. PICK t \in [Banks -> [Encoders -> [Layers -> Value]]] : t = Transferred
  BY TransferredIs
<1>3. PICK b \in Banks, l \in Layers : b = bank /\ l = Layer(bank, i)
  BY SettingsTypes
<1>4. Current(i) = t[b][i][l]
  BY <1>2, <1>3, TransferredIs DEF Current
<1>5. t = [t EXCEPT ![b][i][l] = t[b][i][l]]
  <2>1. t[b] \in [Encoders -> [Layers -> Value]] /\ t[b][i] \in [Layers -> Value]
    BY <1>2, <1>3
  <2>2. t[b][i] = [t[b][i] EXCEPT ![l] = t[b][i][l]]
    BY <2>1
  <2>3. t[b] = [t[b] EXCEPT ![i] = t[b][i]]
    BY <2>1
  <2>4. t = [t EXCEPT ![b] = t[b]]
    BY <1>2
  <2> QED
    BY <2>2, <2>3, <2>4
<1>6. SetCurrent(i, Current(i)) = [t EXCEPT ![b][i][l] = t[b][i][l]]
  BY <1>2, <1>3, <1>4 DEF SetCurrent
<1> QED
  BY <1>1, <1>2, <1>5, <1>6

\* What becomes of the current value of an encoder that stays in its layer.
LEMMA CurrentAfter ==
    ASSUME TypeOK, NEW i \in Encoders, NEW x \in Value, raw' = SetCurrent(i, x),
           UNCHANGED <<config, bank, pressed, toggled>>
    PROVE  /\ Current(i)' = x /\ Layer(bank, i)' = Layer(bank, i)
           /\ \A j \in Encoders : Layer(bank, j)' = Layer(bank, j)
<1>1. \A j \in Encoders : Layer(bank, j)' = Layer(bank, j)
  BY DEF Layer, encoder_is_in_shift_state
<1>2. bank \in Banks /\ Layer(bank, i) \in Layers
  BY SettingsTypes
<1>3. SetCurrent(i, x)[bank][i][Layer(bank, i)] = x
  BY <1>2, SetCurrentIs
<1> QED
  BY <1>1, <1>3 DEF Current

\* The detent is about its center.
LEMMA DetentIs ==
    ASSUME NEW x \in Value, encoder_is_in_detent(x)
    PROVE  /\ x > CENTER * 100 - 60 /\ x < CENTER * 100 + 150
           /\ x \div 100 \in {CENTER - 1, CENTER, CENTER + 1}
           /\ scale_encoder_value(x) \in {CENTER - 1, CENTER, CENTER + 1}
<1>1. x \in Int /\ CENTER \in Int /\ x > CENTER * 100 - 60 /\ x < CENTER * 100 + 150
  BY Ranges DEF encoder_is_in_detent, Value
<1>2. x \div 100 \in {CENTER - 1, CENTER, CENTER + 1}
  BY <1>1
<1>3. (x + 50) \div 100 \in {CENTER - 1, CENTER, CENTER + 1}
  BY <1>1
<1> QED
  BY <1>1, <1>2, <1>3 DEF scale_encoder_value

\* A turn in the detent acts upon its encoder and on no other.
LEMMA DetentActs ==
    ASSUME TypeOK, NEW i \in Encoders, NEW n \in Ticks, TurnInDetent(i, n),
           UNCHANGED <<config, bank, switches>>
    PROVE  Acted(i)
<1> DEFINE count == Int8(counter[i] + n)
           c == Current(i)
<1>1. /\ DetentApplies(i) /\ NoMidi
      /\ UNCHANGED <<config, bank, pressed, toggled, selecting>>
      /\ IF count > DETENT_SIZE
           THEN raw' = SetCurrent(i, encoder_detent_limit_high) /\ indicator' = Refreshed
         ELSE IF count < -DETENT_SIZE
           THEN raw' = SetCurrent(i, encoder_detent_limit_low) /\ indicator' = Refreshed
         ELSE raw' = Transferred /\ indicator' = [Refreshed EXCEPT ![i] = CENTER]
  BY DEF TurnInDetent, switches
<1>2. /\ c \in Value /\ c \div 100 \in {CENTER - 1, CENTER, CENTER + 1}
      /\ c \div 100 \in 0 .. CC_MAX /\ config[bank][i].detent /\ CENTER \in 0 .. CC_MAX
  <2>1. c \in Value /\ c \div 100 \in 0 .. CC_MAX
    BY CurrentIs
  <2>2. encoder_is_in_detent(c) /\ config[bank][i].detent
    BY <1>1 DEF DetentApplies
  <2>3. c \div 100 \in {CENTER - 1, CENTER, CENTER + 1}
    BY <2>1, <2>2, DetentIs
  <2> QED
    BY <2>1, <2>2, <2>3, Ranges
<1>3. \A v, x : CENTER \in Int /\ v \in {CENTER - 1, CENTER, CENTER + 1}
                /\ x \div 100 \in {CENTER - 1, CENTER, CENTER + 1} => Near(i, v, x)
  BY <1>2 DEF Near, Distance
<1>4. /\ encoder_detent_limit_high \div 100 = CENTER + 1 /\ CENTER \in Int
      /\ encoder_detent_limit_low \div 100 = CENTER - 1
  <2>1. (CENTER * 100 + 150) \div 100 = CENTER + 1 /\ (CENTER * 100 - 60) \div 100 = CENTER - 1
    BY Ranges
  <2> QED
    BY <2>1, Ranges
<1>5. ASSUME NEW x \in Value, x \in {encoder_detent_limit_low, encoder_detent_limit_high},
             raw' = SetCurrent(i, x), indicator' = Refreshed
      PROVE  Acted(i)
  <2>1. Sets(i, x, c \div 100)
    BY <1>1, <1>5, KeepingIs DEF Sets, Unsent
  <2>2. Current(i)' = x /\ Spares(i)
    BY <1>1, <1>5, CurrentAfter DEF Spares
  <2>3. Near(i, c \div 100, Current(i)')
    BY <1>2, <1>3, <1>4, <1>5, <2>2
  <2> QED
    BY <1>2, <2>1, <2>2, <2>3 DEF Acted
<1>6. ASSUME raw' = Transferred, indicator' = [Refreshed EXCEPT ![i] = CENTER]
      PROVE  Acted(i)
  <2>1. raw' = SetCurrent(i, c)
    BY <1>6, KeepingIs
  <2>2. Sets(i, c, CENTER)
    BY <1>1, <1>6, <2>1 DEF Sets, Unsent
  <2>3. Current(i)' = c /\ Spares(i)
    BY <1>1, <1>2, <2>1, CurrentAfter DEF Spares
  <2>4. Near(i, CENTER, Current(i)')
    BY <1>2, <1>3, <1>4, <2>3
  <2> QED
    BY <1>2, <2>2, <2>3, <2>4 DEF Acted
<1> HIDE DEF count, c
<1> QED
  BY <1>1, <1>5, <1>6, Ranges

\* The value next to an end.
LEMMA OffTheEndIs ==
    ASSUME NEW x \in Value, encoder_is_in_deadzone(x)
    PROVE  /\ OffTheEnd(x) \in Value
           /\ \/ x = 0 /\ OffTheEnd(x) = 100 /\ x \div 100 = 0 /\ OffTheEnd(x) \div 100 = 1
              \/ /\ x = RAW_MAX /\ OffTheEnd(x) = RAW_MAX - 100
                 /\ x \div 100 = CC_MAX /\ OffTheEnd(x) \div 100 = CC_MAX - 1
<1>1. x \in Int /\ RAW_MAX \in Int /\ RAW_MAX >= 400 /\ x >= 0 /\ x <= RAW_MAX
  BY Ranges DEF Value
<1>2. x = 0 \/ x = RAW_MAX
  BY <1>1 DEF encoder_is_in_deadzone
<1>3. RAW_MAX \div 100 = CC_MAX /\ (RAW_MAX - 100) \div 100 = CC_MAX - 1
  <2>1. (CC_MAX * 100) \div 100 = CC_MAX /\ (CC_MAX * 100 - 100) \div 100 = CC_MAX - 1
    BY Ranges
  <2> QED
    BY <2>1, Ranges
<1>4. x = 0 => OffTheEnd(x) = 100
  BY DEF OffTheEnd
<1>5. x = RAW_MAX => OffTheEnd(x) = RAW_MAX - 100
  BY <1>1 DEF OffTheEnd
<1> QED
  BY <1>2, <1>3, <1>4, <1>5, Ranges

\* Dividing a raw value by 100 gives a value near it.
LEMMA KeepsNear ==
    ASSUME NEW i, NEW x \in Value
    PROVE  Near(i, x \div 100, x)
<1>1. x \div 100 \in Int
  BY Scaling
<1>2. Distance(x \div 100, x \div 100) = 0
  BY <1>1 DEF Distance
<1> QED
  BY <1>2 DEF Near

\* So does a turn at an end.
LEMMA DeadZoneActs ==
    ASSUME TypeOK, NEW i \in Encoders, NEW n \in Ticks, TurnInDeadZone(i, n),
           UNCHANGED <<config, bank, switches>>
    PROVE  Acted(i)
<1> DEFINE c == Current(i)
<1>1. /\ DeadZoneApplies(i) /\ NoMidi /\ indicator' = Refreshed
      /\ UNCHANGED <<config, bank, pressed, toggled, selecting>>
      /\ raw' = SetCurrent(i, OffTheEnd(c)) \/ raw' = Transferred
  BY DEF TurnInDeadZone, switches
<1>2. c \in Value /\ c \div 100 \in 0 .. CC_MAX
  BY CurrentIs
<1>3. ASSUME NEW x \in Value, Unsent(i, x), raw' = SetCurrent(i, x),
             Distance(c \div 100, x \div 100) <= 1
      PROVE  Acted(i)
  <2>1. Sets(i, x, c \div 100)
    BY <1>1, <1>3, KeepingIs DEF Sets
  <2>2. Current(i)' = x /\ Spares(i)
    BY <1>1, <1>3, CurrentAfter DEF Spares
  <2>3. Distance(c \div 100, x \div 100) \in Int
    BY <1>2, <1>3, Scaling DEF Distance
  <2>4. Near(i, c \div 100, Current(i)')
    BY <1>3, <2>2, <2>3 DEF Near
  <2> QED
    BY <1>2, <2>1, <2>2, <2>4 DEF Acted
<1>4. CASE raw' = SetCurrent(i, OffTheEnd(c))
  <2>1. encoder_is_in_deadzone(c)
    BY <1>1 DEF DeadZoneApplies
  <2>2. /\ OffTheEnd(c) \in Value
        /\ Distance(c \div 100, OffTheEnd(c) \div 100) <= 1
    <3>1. /\ OffTheEnd(c) \in Value
          /\ \/ c \div 100 = 0 /\ OffTheEnd(c) \div 100 = 1
             \/ c \div 100 = CC_MAX /\ OffTheEnd(c) \div 100 = CC_MAX - 1
      BY <1>2, <2>1, OffTheEndIs
    <3>2. CC_MAX \in Int
      BY Ranges
    <3> HIDE DEF c
    <3> QED
      BY <3>1, <3>2 DEF Distance
  <2>3. Unsent(i, OffTheEnd(c))
    BY <1>1 DEF Unsent
  <2> QED
    BY <1>3, <1>4, <2>2, <2>3
<1>5. CASE raw' = Transferred
  <2>1. raw' = SetCurrent(i, c) /\ Unsent(i, c)
    BY <1>5, KeepingIs DEF Unsent
  <2>2. Distance(c \div 100, c \div 100) <= 1
    BY <1>2 DEF Distance
  <2> QED
    BY <1>2, <1>3, <2>1, <2>2
<1> QED
  BY <1>1, <1>4, <1>5

\* A step that keeps all values and shows them.
LEMMA KeepingActs ==
    ASSUME TypeOK, NEW i \in Encoders, raw' = Transferred, indicator' = Refreshed,
           UNCHANGED <<config, bank, pressed, toggled, selecting>>, NoMidi
    PROVE  Acted(i)
<1> DEFINE c == Current(i)
<1>1. c \in Value /\ c \div 100 \in 0 .. CC_MAX
  BY CurrentIs
<1>2. raw' = SetCurrent(i, c) /\ Sets(i, c, c \div 100)
  BY KeepingIs DEF Sets, Unsent
<1>3. Current(i)' = c /\ Spares(i)
  BY <1>1, <1>2, CurrentAfter DEF Spares
<1>4. Near(i, c \div 100, Current(i)')
  BY <1>1, <1>3, KeepsNear
<1> QED
  BY <1>1, <1>2, <1>3, <1>4 DEF Acted

\* A step that sends the value it sets.
LEMMA SendingActs ==
    ASSUME TypeOK, NEW i \in Encoders, NEW x \in Value, raw' = SetCurrent(i, x),
           indicator' = [Refreshed EXCEPT ![i] = scale_encoder_value(x)],
           Send(i, Layer(bank, i), scale_encoder_value(x)),
           UNCHANGED <<config, bank, pressed, toggled, selecting>>
    PROVE  Acted(i)
<1>1. Sets(i, x, scale_encoder_value(x)) /\ scale_encoder_value(x) \in 0 .. CC_MAX
  BY Scaling DEF Sets
<1>2. Current(i)' = x /\ Spares(i)
  BY CurrentAfter DEF Spares
<1>3. Distance(scale_encoder_value(x), x \div 100) \in Int
  BY Scaling DEF Distance
<1>4. Near(i, scale_encoder_value(x), x)
  BY <1>3, Scaling DEF Near
<1>5. Near(i, scale_encoder_value(x), Current(i)')
  BY <1>2, <1>4
<1> QED
  BY <1>1, <1>2, <1>5 DEF Acted

\* A turn by n ticks, each worth that much, takes encoder i to x.
MovesTo(i, n, multiplier, x) ==
    /\ x = clamp_encoder_raw_value(Int16(Current(i) + Int16(n * multiplier)))
    /\ raw' = SetCurrent(i, x)
    /\ indicator' = [Refreshed EXCEPT ![i] = scale_encoder_value(x)]
    /\ Send(i, Layer(bank, i), scale_encoder_value(x))

\* A turn of an absolute encoder moves it by one of four multiples.
LEMMA AbsoluteIs ==
    ASSUME TypeOK, NEW i \in Encoders, NEW n \in Ticks, TurnAbsolute(i, n)
    PROVE  \E multiplier \in {25, 100, 178, 255}, x \in Value : MovesTo(i, n, multiplier, x)
<1>1. PICK multiplier \in Multipliers(i) :
         LET moved == clamp_encoder_raw_value(Int16(Current(i) + Int16(n * multiplier)))
             value == scale_encoder_value(moved)
         IN  /\ Send(i, Layer(bank, i), value)
             /\ indicator' = [Refreshed EXCEPT ![i] = value]
             /\ raw' = SetCurrent(i, moved)
  BY DEF TurnAbsolute
<1> DEFINE x == clamp_encoder_raw_value(Int16(Current(i) + Int16(n * multiplier)))
<1>2. multiplier \in {25, 100, 178, 255}
  BY DEF Multipliers
<1>3. n \in Int /\ n * multiplier \in Int /\ Current(i) \in Int
  BY <1>2, EncodersAssumption, CurrentIs, Ranges DEF Value
<1>4. Int16(n * multiplier) \in Int
  BY <1>3, Widths
<1>5. Int16(Current(i) + Int16(n * multiplier)) \in Int
  BY <1>3, <1>4, Widths
<1>6. x \in Value
  BY <1>5, Clamping
<1>7. MovesTo(i, n, multiplier, x)
  BY <1>1 DEF MovesTo
<1> HIDE DEF x
<1> QED
  BY <1>2, <1>6, <1>7

\* Every turn acts upon one encoder: its value, its display, its message.
LEMMA TurnActs ==
    ASSUME TypeOK, NEW i \in Encoders, NEW n \in Ticks, Turn(i, n)
    PROVE  Acted(i)
<1>1. UNCHANGED <<config, bank, switches>>
      /\ UNCHANGED <<pressed, toggled, selecting>>
  BY DEF Turn, switches
<1>2. CASE TurnInDetent(i, n)
  BY <1>1, <1>2, DetentActs
<1>3. CASE TurnInDeadZone(i, n)
  BY <1>1, <1>3, DeadZoneActs
<1>4. CASE TurnRelative(i, n)
  BY <1>1, <1>4, KeepingActs DEF TurnRelative
<1>5. CASE TurnAbsolute(i, n)
  BY <1>1, <1>5, AbsoluteIs, SendingActs DEF MovesTo
<1> QED
  BY <1>2, <1>3, <1>4, <1>5 DEF Turn

\* The switches that reset, shift or change nothing.
LEMMA SwitchActs ==
    ASSUME TypeOK, NEW i \in Encoders, Switch(i)
    PROVE  Acted(i)
<1>1. UNCHANGED <<config, bank, pressed, selecting>>
  BY DEF Switch
<1>2. CASE ResetValue(i)
  <2> DEFINE s == config[bank][i]
             x == IF s.detent THEN CENTER * 100
                  ELSE IF s.action = "reset" THEN 0 ELSE RAW_MAX
  <2>1. /\ s.action \in {"reset", "reset_inv"}
        /\ raw' = SetCurrent(i, x)
        /\ indicator' = [Refreshed EXCEPT ![i] = scale_encoder_value(x)]
        /\ Send(i, "base", scale_encoder_value(x))
        /\ UNCHANGED toggled
    BY <1>2 DEF ResetValue
  <2>2. Layer(bank, i) = "base"
    BY <2>1 DEF Layer, encoder_is_in_shift_state
  <2>3. x \in Value
    BY Ranges
  <2> HIDE DEF s, x
  <2> QED
    BY <1>1, <2>1, <2>2, <2>3, SendingActs
<1>3. CASE ShiftHold(i)
  <2>1. /\ NoMidi /\ UNCHANGED toggled /\ raw' = Transferred
        /\ indicator' = [Refreshed EXCEPT ![i] = Current(i) \div 100]
    BY <1>3 DEF ShiftHold, ShowLayer, Current
  <2>2. indicator' = Refreshed
    BY <2>1, KeepingIs
  <2> QED
    BY <1>1, <2>1, <2>2, KeepingActs
<1>4. CASE NoValueAction(i)
  BY <1>1, <1>4, KeepingActs DEF NoValueAction
<1>5. CASE ShiftToggle(i)
  <2>1. CASE i \notin pressed
    BY <1>1, <1>5, <2>1, KeepingActs DEF ShiftToggle
  <2>2. CASE i \in pressed
    <3> DEFINE layer == IF i \in toggled'[bank] THEN "shift" ELSE "base"
               v == raw[bank][i][layer] \div 100
    <3>1. /\ NoMidi /\ raw' = Transferred /\ config[bank][i].action = "shift_toggle"
          /\ toggled' = [toggled EXCEPT ![bank] =
                           IF i \in @ THEN @ \ {i} ELSE @ \cup {i}]
          /\ indicator' = [Refreshed EXCEPT ![i] = v]
      BY <1>5, <2>2 DEF ShiftToggle, ShowLayer
    <3>2. Layer(bank, i)' = layer
      BY <1>1, <3>1 DEF Layer, encoder_is_in_shift_state
    <3>3. \A j \in Encoders : j # i => Layer(bank, j)' = Layer(bank, j)
      <4>1. toggled \in [Banks -> SUBSET Encoders] /\ bank \in Banks
        BY DEF TypeOK, InputType
      <4>2. toggled'[bank] = IF i \in toggled[bank] THEN toggled[bank] \ {i}
                             ELSE toggled[bank] \cup {i}
        BY <3>1, <4>1
      <4>3. \A j \in Encoders : j # i => (j \in toggled'[bank] <=> j \in toggled[bank])
        BY <4>2
      <4> QED
        BY <1>1, <4>3 DEF Layer, encoder_is_in_shift_state
    <3>4. layer \in Layers
      BY DEF Layers
    <3> HIDE DEF layer
    <3>5. raw[bank][i][layer] \in Value
      BY <3>4 DEF TypeOK, ValuesType, Value
    <3>6. v \in 0 .. CC_MAX
      BY <3>5, Scaling
    <3>7. Current(i)' = raw[bank][i][layer]
      <4>1. Current(i)' = Transferred[bank][i][layer]
        BY <1>1, <3>1, <3>2 DEF Current
      <4> QED
        BY <3>4, <4>1, TransferredIs
    <3>8. Near(i, v, Current(i)')
      <4>1. Near(i, raw[bank][i][layer] \div 100, raw[bank][i][layer])
        BY <3>5, KeepsNear
      <4> QED
        BY <3>7, <4>1
    <3>9. Spares(i)
      BY <1>1, <3>3 DEF Spares
    <3>10. PICK c \in Value : c = Current(i)
      BY CurrentIs
    <3>11. Sets(i, c, v)
      BY <3>1, <3>10, KeepingIs DEF Sets, Unsent
    <3> HIDE DEF v
    <3> QED
      BY <3>6, <3>8, <3>9, <3>11 DEF Acted
  <2> QED
    BY <2>1, <2>2
<1> QED
  BY <1>2, <1>3, <1>4, <1>5 DEF Switch

-----------------------------------------------------------------------------
(* Type correctness.                                                       *)

\* Sending a value keeps the types of what the host knows.
LEMMA SendKnows ==
    ASSUME TypeOK, UNCHANGED config, NEW i \in Encoders, NEW layer \in Layers,
           NEW value \in 0 .. CC_MAX, Send(i, layer, value)
    PROVE  HostType'
<1>1. Addresses' = Addresses
  BY DEF Addresses, Address
<1>2. PICK a \in Addresses : a = Address(config[bank][i], layer)
  BY SettingsTypes DEF At
<1>3. heard' = [heard EXCEPT ![a] = value] /\ dropped' = dropped \ {a}
  BY <1>2 DEF Send
<1> QED
  BY <1>1, <1>3 DEF TypeOK, HostType

\* Acting upon an encoder keeps the types.
LEMMA ActedTypes ==
    ASSUME TypeOK, NEW i \in Encoders, Acted(i)
    PROVE  config' \in Configs /\ bank' \in Banks /\ ValuesType' /\ HostType'
<1>1. UNCHANGED <<config, bank>>
  BY DEF Acted, Spares
<1>2. PICK x \in Value, v \in 0 .. CC_MAX : Sets(i, x, v)
  BY DEF Acted
<1>3. ValuesType'
  <2>1. raw' \in [Banks -> [Encoders -> [Layers -> Value]]]
    BY <1>2, SetCurrentIs DEF Sets
  <2>2. indicator' \in [Encoders -> 0 .. CC_MAX]
    BY <1>2, CurrentIs DEF Sets
  <2> QED
    BY <2>1, <2>2 DEF ValuesType, Value
<1>4. HostType'
  <2>1. CASE NoMidi
    <3>1. Addresses' = Addresses
      BY <1>1 DEF Addresses, Address
    <3> QED
      BY <2>1, <3>1 DEF NoMidi, TypeOK, HostType
  <2>2. CASE Send(i, Layer(bank, i), scale_encoder_value(x))
    <3>1. Layer(bank, i) \in Layers /\ scale_encoder_value(x) \in 0 .. CC_MAX
      BY SettingsTypes, Scaling
    <3> QED
      BY <1>1, <2>2, <3>1, SendKnows
  <2> QED
    BY <1>2, <2>1, <2>2 DEF Sets
<1> QED
  BY <1>1, <1>3, <1>4 DEF TypeOK

\* A new bank.
LEMMA ChangeBankTypes ==
    ASSUME TypeOK, NEW new \in Banks, ChangeBank(new)
    PROVE  /\ config' \in Configs /\ bank' \in Banks /\ ValuesType' /\ HostType'
           /\ bank' = new /\ raw' = Transferred
           /\ \A i \in Encoders : indicator'[i] = Current(i)' \div 100
<1>1. /\ raw' = Transferred /\ bank' = new
      /\ UNCHANGED <<config, counter, fine, pressed, toggled, moving, heard, dropped>>
      /\ indicator' = [i \in Encoders |-> raw'[new][i][Layer(new, i)] \div 100]
  BY DEF ChangeBank
<1>2. Addresses' = Addresses
  BY <1>1 DEF Addresses, Address
<1>3. raw' \in [Banks -> [Encoders -> [Layers -> Value]]]
  BY <1>1, TransferredIs
<1>4. \A i \in Encoders : raw'[new][i][Layer(new, i)] \in Value
  BY <1>3, SettingsTypes
<1>5. \A i \in Encoders : raw'[new][i][Layer(new, i)] \div 100 \in 0 .. CC_MAX
  BY <1>4, Scaling
<1>6. indicator' \in [Encoders -> 0 .. CC_MAX]
  BY <1>1, <1>5
<1>7. \A i \in Encoders : Layer(bank, i)' = Layer(new, i)
  BY <1>1 DEF Layer, encoder_is_in_shift_state
<1>8. \A i \in Encoders : indicator'[i] = Current(i)' \div 100
  BY <1>1, <1>7 DEF Current
<1>9. ValuesType' /\ HostType' /\ config' \in Configs
  BY <1>1, <1>2, <1>3, <1>6 DEF TypeOK, ValuesType, HostType, Value
<1> QED
  BY <1>1, <1>8, <1>9

\* What the host sends reaches the values and the display whole or not at all.
LEMMA HostTypes ==
    ASSUME TypeOK, NEW a \in Addresses, NEW value \in 0 .. CC_MAX,
           process_element_midi(a, value)
    PROVE  /\ TypeOK'
           /\ \A b \in Banks, i \in Encoders, layer \in Layers :
                 raw'[b][i][layer] =
                   IF layer \in Reaches(a, b, i) /\ ~Ignores(b, i, value)
                   THEN value * 100 ELSE raw[b][i][layer]
<1>1. /\ raw' = [b \in Banks |-> [i \in Encoders |-> [layer \in Layers |->
                IF layer \in Reaches(a, b, i) /\ ~Ignores(b, i, value)
                  THEN value * 100 ELSE raw[b][i][layer]]]]
      /\ indicator' = [i \in Encoders |->
                IF Layer(bank, i) \in Reaches(a, bank, i) /\ ~Ignores(bank, i, value)
                  THEN value ELSE indicator[i]]
      /\ heard' = [heard EXCEPT ![a] = value]
      /\ dropped' \in {dropped \cup {a}, dropped \ {a}}
      /\ UNCHANGED <<config, bank, counter, fine, pressed, toggled, edges, selecting, moving>>
  BY DEF process_element_midi, switches
<1>2. Addresses' = Addresses
  BY <1>1 DEF Addresses, Address
<1>3. value * 100 \in Value
  BY Ranges
<1>4. ValuesType'
  BY <1>1, <1>3 DEF TypeOK, ValuesType, Value
<1>5. HostType'
  BY <1>1, <1>2 DEF TypeOK, HostType
<1>6. InputType'
  BY <1>1 DEF TypeOK, InputType
<1>7. config' \in Configs /\ bank' \in Banks
  BY <1>1 DEF TypeOK
<1>8. \A b \in Banks, i \in Encoders, layer \in Layers :
         raw'[b][i][layer] =
           IF layer \in Reaches(a, b, i) /\ ~Ignores(b, i, value)
           THEN value * 100 ELSE raw[b][i][layer]
  BY <1>1
<1> QED
  BY <1>4, <1>5, <1>6, <1>7, <1>8 DEF TypeOK

\* The counters of a turn keep their widths.
LEMMA TurnInputs ==
    ASSUME TypeOK, NEW i \in Encoders, NEW n \in Ticks, Turn(i, n)
    PROVE  InputType'
<1>1. UNCHANGED <<pressed, toggled, edges, selecting>> /\ moving' = moving \cup {i}
  BY DEF Turn, switches
<1>2. n \in Int /\ counter[i] \in Int /\ fine[i] \in Int
  BY EncodersAssumption DEF TypeOK, InputType
<1> DEFINE Counts == -128 .. 127
<1>3. Int8(counter[i] + n) \in Counts /\ counter[i] \in Counts /\ 0 \in Counts
      /\ counter \in [Encoders -> Counts]
  BY <1>2, Widths DEF TypeOK, InputType
<1> HIDE DEF Counts
<1>4. counter' \in [Encoders -> Counts]
  <2>1. CASE UNCHANGED counter
    BY <1>3, <2>1
  <2>2. ASSUME NEW count \in Counts, counter' = [counter EXCEPT ![i] = count]
        PROVE  counter' \in [Encoders -> Counts]
    BY <1>3, <2>2
  <2>3. CASE TurnInDetent(i, n)
    BY <1>3, <2>2, <2>3 DEF TurnInDetent
  <2>4. CASE TurnInDeadZone(i, n)
    <3>1. \E count \in Counts : counter' = [counter EXCEPT ![i] = count]
      BY <1>3, <2>4 DEF TurnInDeadZone
    <3> QED
      BY <2>2, <3>1
  <2> QED
    BY <2>1, <2>3, <2>4 DEF Turn, TurnRelative, TurnAbsolute
<1>5. fine' \in [Encoders -> -3 .. 3]
  <2>1. CASE UNCHANGED fine
    BY <2>1 DEF TypeOK, InputType
  <2>2. CASE TurnRelative(i, n)
    <3> DEFINE total == fine[i] + n
               sign == IF total < 0 THEN -1 ELSE 1
               left == sign * ((sign * total) % 4)
    <3>1. total \in Int /\ sign \in {-1, 1}
      BY <1>2
    <3>2. \A t \in Int : t % 4 \in 0 .. 3
      OBVIOUS
    <3>3. (sign * total) \in Int
      BY <3>1
    <3>4. left \in -3 .. 3
      BY <3>1, <3>2, <3>3
    <3>5. fine' = [fine EXCEPT ![i] = left] \/ fine' = fine
      BY <2>2 DEF TurnRelative
    <3> HIDE DEF left
    <3> QED
      BY <3>4, <3>5 DEF TypeOK, InputType
  <2> QED
    BY <2>1, <2>2 DEF Turn, TurnInDetent, TurnInDeadZone, TurnAbsolute
<1> QED
  BY <1>1, <1>4, <1>5 DEF TypeOK, InputType, Counts

\* A switch that is handled leaves sets of encoders.
LEMMA SwitchInputs ==
    ASSUME TypeOK, NEW i \in Encoders, Switch(i)
    PROVE  InputType'
<1>1. UNCHANGED <<bank, fine, pressed, selecting, moving>> /\ edges' = edges \ {i}
  BY DEF Switch
<1>2. UNCHANGED counter \/ counter' = [counter EXCEPT ![i] = 0]
  BY DEF Switch, ResetValue, ShiftHold, ShiftToggle, NoValueAction
<1>3. counter' \in [Encoders -> -128 .. 127]
  BY <1>2 DEF TypeOK, InputType
<1>4. toggled' \in [Banks -> SUBSET Encoders]
  <2>1. CASE UNCHANGED toggled
    BY <2>1 DEF TypeOK, InputType
  <2>2. CASE toggled' = [toggled EXCEPT ![bank] = IF i \in @ THEN @ \ {i} ELSE @ \cup {i}]
    BY <2>2 DEF TypeOK, InputType
  <2> QED
    BY <2>1, <2>2 DEF Switch, ResetValue, ShiftHold, ShiftToggle, NoValueAction
<1> QED
  BY <1>1, <1>3, <1>4 DEF TypeOK, InputType

\* Steps that touch neither values nor host.
Idle == UNCHANGED <<config, bank, raw, indicator, heard, dropped>>

\* A step that touches no value keeps the types.
LEMMA IdleTypes ==
    ASSUME TypeOK, Idle
    PROVE  config' \in Configs /\ bank' \in Banks /\ ValuesType' /\ HostType'
<1>1. Addresses' = Addresses
  BY DEF Idle, Addresses, Address
<1> QED
  BY <1>1 DEF Idle, TypeOK, ValuesType, HostType

\* Whatever selects a bank leads to one there is, or to none.
LEMMA BankStepIs ==
    ASSUME TypeOK,
           \/ \E i \in Encoders : SelectWithSwitch(i) /\ i \in pressed
           \/ \E b \in Banks : change_encoder_bank(b)
           \/ BeginSelecting \/ EndSelecting
    PROVE  (\E new \in Banks : ChangeBank(new)) /\ InputType'
<1>1. \E new \in Banks : ChangeBank(new)
  <2>1. ASSUME NEW i \in Encoders, SelectWithSwitch(i), i \in pressed
        PROVE  \E new \in Banks : ChangeBank(new)
    <3>1. NumBanks \in Nat /\ NumBanks > 0 /\ i \in Nat
      BY EncodersAssumption DEF Encoders
    <3>2. i % NumBanks \in Banks
      BY <3>1 DEF Banks
    <3> QED
      BY <2>1, <3>2 DEF SelectWithSwitch
  <2>2. bank \in Banks
    BY DEF TypeOK
  <2> QED
    BY <2>1, <2>2 DEF change_encoder_bank, BeginSelecting, EndSelecting
<1>2. UNCHANGED <<counter, fine, pressed, toggled, moving>>
  BY <1>1 DEF ChangeBank
<1>3. edges' \in SUBSET Encoders /\ selecting' \in BOOLEAN
  BY DEF TypeOK, InputType, SelectWithSwitch, change_encoder_bank, BeginSelecting,
         EndSelecting
<1> QED
  BY <1>1, <1>2, <1>3 DEF TypeOK, InputType

\* The steps of the scan and of a switch let go while a bank is being selected.
LEMMA IdleStepIs ==
    ASSUME TypeOK,
           \/ \E i \in Encoders : \/ StartMoving(i) \/ Rest(i)
                                  \/ SelectWithSwitch(i) /\ i \notin pressed
           \/ \E changed \in SUBSET Encoders \ {{}} : update_encoder_switch_state(changed)
           \/ UNCHANGED vars
    PROVE  Idle /\ InputType' /\ UNCHANGED <<selecting, toggled>>
<1>1. Idle /\ UNCHANGED <<counter, fine, toggled, selecting>>
  BY DEF Idle, StartMoving, Rest, SelectWithSwitch, update_encoder_switch_state, vars,
         switches
<1>2. moving' \in SUBSET Encoders /\ edges' \in SUBSET Encoders /\ pressed' \in SUBSET Encoders
  BY DEF StartMoving, Rest, SelectWithSwitch, update_encoder_switch_state, vars,
         switches, TypeOK, InputType
<1> QED
  BY <1>1, <1>2 DEF TypeOK, InputType

\* The steps there are.
LEMMA StepIs ==
    ASSUME TypeOK, [Next]_vars
    PROVE  \/ \E i \in Encoders : Acted(i) /\ (Switch(i) \/ \E n \in Ticks : Turn(i, n))
           \/ \E a \in Addresses, value \in 0 .. CC_MAX : process_element_midi(a, value)
           \/ \/ \E i \in Encoders : SelectWithSwitch(i) /\ i \in pressed
              \/ \E b \in Banks : change_encoder_bank(b)
              \/ BeginSelecting \/ EndSelecting
           \/ \/ \E i \in Encoders : \/ StartMoving(i) \/ Rest(i)
                                     \/ SelectWithSwitch(i) /\ i \notin pressed
              \/ \E changed \in SUBSET Encoders \ {{}} : update_encoder_switch_state(changed)
              \/ UNCHANGED vars
<1>1. ASSUME NEW m \in HostMessages, m[1] \in DOMAIN heard, process_element_midi(m[1], m[2])
      PROVE  \E a \in Addresses, value \in 0 .. CC_MAX : process_element_midi(a, value)
  <2>1. m[1] \in Addresses /\ m[2] \in 0 .. CC_MAX
    BY <1>1, EncodersAssumption DEF TypeOK, HostType
  <2> QED
    BY <1>1, <2>1
<1>2. ASSUME NEW i \in Encoders, Switch(i)
      PROVE  Acted(i)
  BY <1>2, SwitchActs
<1>3. ASSUME NEW i \in Encoders, NEW n \in Ticks, Turn(i, n)
      PROVE  Acted(i)
  BY <1>3, TurnActs
<1> QED
  BY <1>1, <1>2, <1>3 DEF Next

\* Every step keeps the types.
LEMMA NextType == TypeOK /\ [Next]_vars => TypeOK'
<1> SUFFICES ASSUME TypeOK, [Next]_vars PROVE TypeOK'
  OBVIOUS
<1>1. ASSUME NEW i \in Encoders, Acted(i), Switch(i) \/ \E n \in Ticks : Turn(i, n)
      PROVE  TypeOK'
  BY <1>1, ActedTypes, TurnInputs, SwitchInputs DEF TypeOK
<1>2. ASSUME NEW a \in Addresses, NEW value \in 0 .. CC_MAX, process_element_midi(a, value)
      PROVE  TypeOK'
  BY <1>2, HostTypes
<1>3. ASSUME (\E new \in Banks : ChangeBank(new)) /\ InputType'
      PROVE  TypeOK'
  BY <1>3, ChangeBankTypes DEF TypeOK
<1>4. ASSUME Idle /\ InputType'
      PROVE  TypeOK'
  BY <1>4, IdleTypes DEF TypeOK
<1> QED
  BY <1>1, <1>2, <1>3, <1>4, StepIs, BankStepIs, IdleStepIs

\* The initial values have their types.
LEMMA InitType == Init => TypeOK
<1> SUFFICES ASSUME Init PROVE TypeOK
  OBVIOUS
<1>1. config \in Configs /\ bank \in Banks
  BY EncodersAssumption DEF Init, Banks
<1>2. ValuesType
  <2>1. \A b \in Banks, i \in Encoders :
           (IF config[b][i].detent THEN CENTER * 100 ELSE 0) \in Value
    BY Ranges
  <2>2. raw \in [Banks -> [Encoders -> [Layers -> Value]]]
    BY <2>1 DEF Init
  <2>3. CENTER \in 0 .. CC_MAX /\ 0 \in 0 .. CC_MAX
    BY Ranges
  <2>4. indicator \in [Encoders -> 0 .. CC_MAX]
    BY <2>3 DEF Init
  <2> QED
    BY <2>2, <2>4 DEF ValuesType, Value
<1>3. InputType
  <2>1. counter \in [Encoders -> -128 .. 127] /\ fine \in [Encoders -> -3 .. 3]
    BY DEF Init
  <2>2. toggled \in [Banks -> SUBSET Encoders]
    BY DEF Init
  <2> QED
    BY <2>1, <2>2 DEF Init, InputType
<1>4. HostType
  <2>1. heard \in [Addresses -> {None} \cup 0 .. CC_MAX]
    BY DEF Init
  <2> QED
    BY <2>1 DEF Init, HostType
<1> QED
  BY <1>1, <1>2, <1>3, <1>4 DEF TypeOK

\* The raw values stay in the range of a CC and the detent counter in an int8_t, for
\* any settings, any turns and any messages (clamp_encoder_raw_value).
THEOREM TypeCorrect == Spec => []TypeOK
<1> QED
  BY InitType, NextType, PTL DEF Spec

-----------------------------------------------------------------------------
(* The display.                                                            *)

\* A value that is near what the display shows is close enough to it.
LEMMA CloseEnough ==
    ASSUME TypeOK, NEW i \in Encoders, UNCHANGED <<config, bank>>,
           NEW v, NEW x, Near(i, v, x), Current(i)' = x, indicator'[i] = v
    PROVE  Distance(indicator'[i], Current(i)' \div 100)
             <= (IF config'[bank'][i].detent THEN 3 ELSE 1)
  BY DEF Near

\* Every step leaves the display at the value: it is rebuilt or set with it.
LEMMA NextShows ==
    TypeOK /\ IndicatorShowsTheValue /\ [Next]_vars => IndicatorShowsTheValue'
<1> SUFFICES ASSUME TypeOK, IndicatorShowsTheValue, [Next]_vars
             PROVE  IndicatorShowsTheValue'
  OBVIOUS
<1> DEFINE Shown(i) == Distance(indicator'[i], Current(i)' \div 100)
                         <= (IF config'[bank'][i].detent THEN 3 ELSE 1)
\* What a step refreshes it shows.
<1>1. ASSUME TypeOK', NEW i \in Encoders, indicator'[i] = Current(i)' \div 100
      PROVE  Shown(i)
  <2>1. indicator'[i] \in Int
    BY <1>1, Ranges DEF TypeOK, ValuesType
  <2>2. Distance(indicator'[i], indicator'[i]) = 0
    BY <2>1 DEF Distance
  <2> QED
    BY <1>1, <2>2
<1>2. ASSUME NEW i \in Encoders, Acted(i)
      PROVE  IndicatorShowsTheValue'
  <2>1. PICK x \in Value, v \in 0 .. CC_MAX : Sets(i, x, v) /\ Near(i, v, Current(i)')
    BY <1>2 DEF Acted
  <2>2. /\ UNCHANGED <<config, bank>>
        /\ \A j \in Encoders : j # i => Layer(bank, j)' = Layer(bank, j)
        /\ raw' = SetCurrent(i, x) /\ indicator' = [Refreshed EXCEPT ![i] = v]
    BY <1>2, <2>1 DEF Acted, Spares, Sets
  <2>3. indicator'[i] = v
    BY <2>2, CurrentIs
  <2>4. Shown(i)
    BY <2>1, <2>2, <2>3 DEF Near
  <2>5. TypeOK'
    BY NextType
  <2>6. ASSUME NEW j \in Encoders, j # i
        PROVE  Shown(j)
    <3>1. indicator'[j] = Current(j) \div 100
      BY <2>2, <2>6, CurrentIs
    <3>2. bank \in Banks /\ Layer(bank, j) \in Layers
      BY SettingsTypes
    <3>3. SetCurrent(i, x)[bank][j][Layer(bank, j)] = Transferred[bank][j][Layer(bank, j)]
      BY <2>6, <3>2, SetCurrentIs
    <3>4. Transferred[bank][j][Layer(bank, j)] = Current(j)
      BY <3>2, TransferredIs DEF Current
    <3>5. Current(j)' = Current(j)
      BY <2>2, <2>6, <3>3, <3>4 DEF Current
    <3> QED
      BY <1>1, <2>5, <3>1, <3>5
  <2> QED
    BY <2>4, <2>6 DEF IndicatorShowsTheValue
<1>3. ASSUME NEW new \in Banks, ChangeBank(new)
      PROVE  IndicatorShowsTheValue'
  <2>1. TypeOK'
    BY NextType
  <2>2. \A i \in Encoders : Shown(i)
    BY <1>1, <1>3, <2>1, ChangeBankTypes
  <2> QED
    BY <2>2 DEF IndicatorShowsTheValue
<1>4. ASSUME NEW a \in Addresses, NEW value \in 0 .. CC_MAX, process_element_midi(a, value)
      PROVE  IndicatorShowsTheValue'
  <2>1. /\ UNCHANGED <<config, bank, pressed, toggled, selecting, edges>>
        /\ indicator' = [i \in Encoders |->
                IF Layer(bank, i) \in Reaches(a, bank, i) /\ ~Ignores(bank, i, value)
                  THEN value ELSE indicator[i]]
    BY <1>4 DEF process_element_midi, switches
  <2>2. \A i \in Encoders : Layer(bank, i)' = Layer(bank, i) /\ Layer(bank, i) \in Layers
    BY <2>1, SettingsTypes DEF Layer, encoder_is_in_shift_state
  <2>3. TypeOK' /\ bank \in Banks
    BY NextType DEF TypeOK
  <2>4. ASSUME NEW i \in Encoders, ~selecting', i \notin edges'
        PROVE  Shown(i)
    <3>1. CASE Layer(bank, i) \in Reaches(a, bank, i) /\ ~Ignores(bank, i, value)
      <4>1. Current(i)' = value * 100
        BY <1>4, <2>1, <2>2, <2>3, <3>1, HostTypes DEF Current
      <4>2. indicator'[i] = value
        BY <2>1, <3>1
      <4>3. (value * 100) \div 100 = value
        BY ScalingBack
      <4> QED
        BY <1>1, <2>3, <4>1, <4>2, <4>3
    <3>2. CASE ~(Layer(bank, i) \in Reaches(a, bank, i) /\ ~Ignores(bank, i, value))
      <4>1. Current(i)' = Current(i)
        BY <1>4, <2>1, <2>2, <2>3, <3>2, HostTypes DEF Current
      <4>2. indicator'[i] = indicator[i]
        BY <2>1, <3>2
      <4>3. Distance(indicator[i], Current(i) \div 100)
              <= (IF config[bank][i].detent THEN 3 ELSE 1)
        BY <2>1, <2>4 DEF IndicatorShowsTheValue
      <4> QED
        BY <2>1, <4>1, <4>2, <4>3
    <3> QED
      BY <3>1, <3>2
  <2> QED
    BY <2>4 DEF IndicatorShowsTheValue
\* A switch that changes is not shown until it is acted on.
<1>5. CASE \/ \E i \in Encoders : \/ StartMoving(i) \/ Rest(i)
                                  \/ SelectWithSwitch(i) /\ i \notin pressed
           \/ \E changed \in SUBSET Encoders \ {{}} : update_encoder_switch_state(changed)
           \/ UNCHANGED vars
  <2>1. Idle /\ UNCHANGED <<toggled, selecting>>
    BY <1>5, IdleStepIs
  <2>2. ASSUME NEW i \in Encoders, ~selecting', i \notin edges'
        PROVE  (i \in pressed' <=> i \in pressed) /\ i \notin edges
    BY <1>5, <2>1, <2>2
       DEF StartMoving, Rest, SelectWithSwitch, update_encoder_switch_state, vars, switches
  <2>3. ASSUME NEW i \in Encoders, ~selecting', i \notin edges'
        PROVE  Shown(i)
    <3>1. Layer(bank, i)' = Layer(bank, i)
      BY <2>1, <2>2, <2>3 DEF Layer, encoder_is_in_shift_state, Idle
    <3>2. Current(i)' = Current(i)
      BY <2>1, <3>1 DEF Current, Idle
    <3>3. Distance(indicator[i], Current(i) \div 100)
            <= (IF config[bank][i].detent THEN 3 ELSE 1)
      BY <2>1, <2>2, <2>3 DEF IndicatorShowsTheValue
    <3> QED
      BY <2>1, <3>2, <3>3 DEF Idle
  <2> QED
    BY <2>3 DEF IndicatorShowsTheValue
<1> QED
  BY <1>2, <1>3, <1>4, <1>5, StepIs, BankStepIs

\* At first the display shows the values it was initialised with.
LEMMA InitShows == Init => IndicatorShowsTheValue
<1> SUFFICES ASSUME Init, NEW i \in Encoders
             PROVE  Distance(indicator[i], Current(i) \div 100)
                      <= (IF config[bank][i].detent THEN 3 ELSE 1)
  BY DEF IndicatorShowsTheValue
<1>1. TypeOK /\ bank = 0 /\ 0 \in Banks
  BY InitType, EncodersAssumption DEF Init, Banks
<1>2. Current(i) = IF config[0][i].detent THEN CENTER * 100 ELSE 0
  BY <1>1, SettingsTypes DEF Init, Current
<1>3. indicator[i] = IF config[0][i].detent THEN CENTER ELSE 0
  BY DEF Init
<1>4. CENTER \in 0 .. CC_MAX /\ 0 \in 0 .. CC_MAX /\ CENTER \in Int
  BY Ranges
<1>5. (CENTER * 100) \div 100 = CENTER /\ 0 \div 100 = 0
  BY <1>4, ScalingBack
<1>6. indicator[i] = Current(i) \div 100 /\ indicator[i] \in Int
  BY <1>2, <1>3, <1>4, <1>5
<1> QED
  BY <1>6 DEF Distance

\* The display of an encoder shows the value of the layer it is in, whatever shifts,
\* bank changes, turns and feedback came before (refresh_display, change_encoder_bank).
THEOREM DisplayShows == Spec => []IndicatorShowsTheValue
<1>1. Init => TypeOK /\ IndicatorShowsTheValue
  BY InitType, InitShows
<1>2. TypeOK /\ IndicatorShowsTheValue /\ [Next]_vars => (TypeOK /\ IndicatorShowsTheValue)'
  BY NextType, NextShows
<1> QED
  BY <1>1, <1>2, PTL DEF Spec

-----------------------------------------------------------------------------
(* The host.                                                               *)

HasDetent(a) ==
    \E b \in Banks, i \in Encoders, layer \in Layers :
        config[b][i].detent /\ Address(config[b][i], layer) = a

\* What the host may know of the value x on address a: the value, the end it has left,
\* or a value about the detent it has left.
Faithful(a, x) ==
    \/ heard[a] = scale_encoder_value(x)
    \/ x = 100 /\ heard[a] = 0
    \/ x = RAW_MAX - 100 /\ heard[a] = CC_MAX
    \/ /\ HasDetent(a) /\ x \in {encoder_detent_limit_low, encoder_detent_limit_high}
       /\ heard[a] \in {CENTER - 1, CENTER, CENTER + 1, CENTER + 2}

\* It is claimed of the values that are absolute, were spoken of and not ignored.
Told(b, i, layer, x) ==
    LET a == At(b, i, layer) IN
        ~config[b][i].relative /\ heard[a] # None /\ a \notin dropped => Faithful(a, x)

CurrentAddresses == {At(bank, i, layer) : i \in Encoders, layer \in Layers}

\* The host knows the values of the current bank and those nobody in it shares; the
\* others are put right when the bank is left.
AgreeInv ==
    \A b \in Banks, i \in Encoders, layer \in Layers :
        b = bank \/ At(b, i, layer) \notin CurrentAddresses
            => Told(b, i, layer, raw[b][i][layer])

\* What the host may know is close to the value.
LEMMA FaithfulIsClose ==
    ASSUME TypeOK, NEW a \in Addresses, NEW x \in Value, Faithful(a, x)
    PROVE  Distance(heard[a], scale_encoder_value(x)) <= Slack(a)
<1> DEFINE s == scale_encoder_value(x)
<1>1. /\ s \in 0 .. CC_MAX /\ CC_MAX \in Int /\ CENTER \in Int
      /\ Slack(a) = IF HasDetent(a) THEN 3 ELSE 1
  BY Scaling, Ranges DEF Slack, HasDetent
<1>2. CASE heard[a] = s
  <2>1. Distance(heard[a], s) = 0
    BY <1>1, <1>2 DEF Distance
  <2> QED
    BY <1>1, <2>1
<1>3. CASE x = 100 /\ heard[a] = 0
  <2>1. s = 1
    BY <1>3 DEF scale_encoder_value
  <2>2. Distance(heard[a], s) = 1
    BY <1>3, <2>1 DEF Distance
  <2> QED
    BY <1>1, <2>2
<1>4. CASE x = RAW_MAX - 100 /\ heard[a] = CC_MAX
  <2>1. s = CC_MAX - 1
    <3>1. (CC_MAX * 100 - 100 + 50) \div 100 = CC_MAX - 1
      BY <1>1
    <3> QED
      BY <1>4, <3>1, Ranges DEF scale_encoder_value
  <2>2. Distance(heard[a], s) = 1
    BY <1>1, <1>4, <2>1 DEF Distance
  <2> QED
    BY <1>1, <2>2
<1>5. CASE /\ HasDetent(a) /\ x \in {encoder_detent_limit_low, encoder_detent_limit_high}
           /\ heard[a] \in {CENTER - 1, CENTER, CENTER + 1, CENTER + 2}
  <2>1. s \in {CENTER - 1, CENTER + 2}
    <3>1. /\ (CENTER * 100 - 60 + 50) \div 100 = CENTER - 1
          /\ (CENTER * 100 + 150 + 50) \div 100 = CENTER + 2
      BY <1>1
    <3> QED
      BY <1>5, <3>1, Ranges DEF scale_encoder_value
  <2>2. Distance(heard[a], s) <= 3
    <3> HIDE DEF s
    <3> QED
      BY <1>1, <1>5, <2>1 DEF Distance
  <2> QED
    BY <1>1, <1>5, <2>2
<1> QED
  BY <1>2, <1>3, <1>4, <1>5 DEF Faithful

\* What the host may know of a value is what it is promised to know.
LEMMA AgreementFromInv == TypeOK /\ AgreeInv => HostAndDeviceAgree
<1> SUFFICES ASSUME TypeOK, AgreeInv, NEW i \in Encoders, NEW layer \in Layers,
                    heard[At(bank, i, layer)] # None, At(bank, i, layer) \notin dropped,
                    ~config[bank][i].relative
             PROVE  Distance(heard[At(bank, i, layer)],
                             scale_encoder_value(raw[bank][i][layer]))
                      <= Slack(At(bank, i, layer))
  BY DEF HostAndDeviceAgree, At
<1>1. bank \in Banks /\ At(bank, i, layer) \in Addresses
  BY SettingsTypes
<1>2. raw[bank][i][layer] \in Value
  BY <1>1 DEF TypeOK, ValuesType, Value
<1>3. Told(bank, i, layer, raw[bank][i][layer])
  BY <1>1 DEF AgreeInv
<1>4. Faithful(At(bank, i, layer), raw[bank][i][layer])
  BY <1>3 DEF Told
<1> QED
  BY <1>1, <1>2, <1>4, FaithfulIsClose

\* After a transfer the host knows the values of all banks.
LEMMA TransferTells ==
    ASSUME TypeOK, AgreeInv, WellMapped(config),
           NEW b \in Banks, NEW i \in Encoders, NEW layer \in Layers
    PROVE  Told(b, i, layer, Transferred[b][i][layer])
<1> DEFINE a == At(b, i, layer)
<1>1. bank \in Banks
  BY SettingsTypes
<1>2. CASE b = bank
  <2>1. Told(b, i, layer, raw[b][i][layer])
    BY <1>2 DEF AgreeInv
  <2> QED
    BY <1>2, <2>1, TransferredIs
<1>3. CASE b # bank /\ a \notin CurrentAddresses
  <2>1. Told(b, i, layer, raw[b][i][layer])
    BY <1>3 DEF AgreeInv
  <2>2. Givers(b, i, layer) = {}
    BY <1>3 DEF Givers, CurrentAddresses, At
  <2> QED
    BY <2>1, <2>2, TransferredIs
<1>4. CASE b # bank /\ a \in CurrentAddresses
  <2> SUFFICES ASSUME ~config[b][i].relative
               PROVE  Told(b, i, layer, Transferred[b][i][layer])
    BY DEF Told
  <2>1. PICK j \in Encoders, l \in Layers : At(bank, j, l) = a
    BY <1>4 DEF CurrentAddresses
  <2>2. l = layer /\ config[bank][j].relative = config[b][i].relative
    BY <1>1, <2>1 DEF WellMapped, At
  <2>3. config[bank][j].number = config[b][i].number
    BY <2>1 DEF At, Address
  <2>4. j \in Givers(b, i, layer)
    BY <1>4, <2>1, <2>2, <2>3 DEF Givers, encoder_maps_match, At
  <2>5. PICK k \in Givers(b, i, layer) : Transferred[b][i][layer] = raw[bank][k][layer]
    BY <2>4, TransferredIs
  <2>6. k \in Encoders /\ At(bank, k, layer) = a /\ ~config[bank][k].relative
    BY <2>5 DEF Givers, encoder_maps_match, At
  <2>7. Told(bank, k, layer, raw[bank][k][layer])
    BY <1>1, <2>6 DEF AgreeInv
  <2> QED
    BY <2>5, <2>6, <2>7 DEF Told
<1> QED
  BY <1>2, <1>3, <1>4

\* What is said of a value is what its settings and the host's messages leave said.
LEMMA ToldStays ==
    ASSUME UNCHANGED config, NEW b \in Banks, NEW i \in Encoders, NEW layer \in Layers,
           NEW x, Told(b, i, layer, x),
           heard'[At(b, i, layer)] = heard[At(b, i, layer)],
           At(b, i, layer) \in dropped => At(b, i, layer) \in dropped'
    PROVE  \A y : y = x => Told(b, i, layer, y)'
<1> DEFINE a == At(b, i, layer)
<1>1. a' = a /\ (HasDetent(a) => HasDetent(a)')
  BY DEF At, Address, HasDetent
<1>2. Faithful(a, x) => \A y : y = x => Faithful(a, y)'
  BY <1>1 DEF Faithful, At, Address, HasDetent
<1> QED
  BY <1>1, <1>2 DEF Told, At, Address

\* A value taken without a message is one the host may know.
LEMMA UnsentIsTold ==
    ASSUME TypeOK, AgreeInv, NEW i \in Encoders, NEW x \in Value, Unsent(i, x)
    PROVE  Told(bank, i, Layer(bank, i), x)
<1> DEFINE a == At(bank, i, Layer(bank, i))
           c == Current(i)
<1>1. bank \in Banks /\ Layer(bank, i) \in Layers /\ c \in Value
  BY SettingsTypes, CurrentIs
<1>2. Told(bank, i, Layer(bank, i), c)
  BY <1>1 DEF AgreeInv, Current
<1> SUFFICES ASSUME Faithful(a, c) PROVE Faithful(a, x)
  BY <1>2 DEF Told
<1>3. /\ CC_MAX \in Int /\ CENTER \in Int /\ CENTER >= 2 /\ CENTER + 2 <= CC_MAX
      /\ RAW_MAX = CC_MAX * 100
      /\ encoder_detent_limit_low = CENTER * 100 - 60
      /\ encoder_detent_limit_high = CENTER * 100 + 150
      /\ c \in Int
  BY <1>1, Ranges DEF Value
<1>4. CASE DetentApplies(i) /\ x \in {encoder_detent_limit_low, encoder_detent_limit_high}
  <2>1. HasDetent(a)
    BY <1>1, <1>4 DEF HasDetent, DetentApplies, At
  <2>2. encoder_is_in_detent(c)
    BY <1>4 DEF DetentApplies
  <2>3. /\ c > CENTER * 100 - 60 /\ c < CENTER * 100 + 150
        /\ scale_encoder_value(c) \in {CENTER - 1, CENTER, CENTER + 1}
    BY <1>1, <2>2, DetentIs
  <2> HIDE DEF a, c
  <2>4. c # 100 /\ c \notin {encoder_detent_limit_low, encoder_detent_limit_high}
    BY <1>3, <2>3
  <2>5. c = RAW_MAX - 100 => CC_MAX = CENTER + 2
    BY <1>3, <2>3
  <2>6. heard[a] \in {CENTER - 1, CENTER, CENTER + 1, CENTER + 2}
    BY <2>3, <2>4, <2>5 DEF Faithful
  <2> QED
    BY <1>4, <2>1, <2>6 DEF Faithful
<1>5. CASE DeadZoneApplies(i) /\ x = OffTheEnd(c)
  <2>1. encoder_is_in_deadzone(c)
    BY <1>5 DEF DeadZoneApplies
  <2>2. (c = 0 /\ x = 100) \/ (c = RAW_MAX /\ x = RAW_MAX - 100)
    BY <1>1, <1>5, <2>1, OffTheEndIs
  <2> HIDE DEF a, c
  <2>3. /\ c # 100 /\ c # RAW_MAX - 100
        /\ c \notin {encoder_detent_limit_low, encoder_detent_limit_high}
    BY <1>3, <2>2
  <2>4. heard[a] = scale_encoder_value(c)
    BY <2>3 DEF Faithful
  <2>5. c = 0 => scale_encoder_value(c) = 0
    BY DEF scale_encoder_value
  <2>6. c = RAW_MAX => scale_encoder_value(c) = CC_MAX
    <3>1. (CC_MAX * 100 + 50) \div 100 = CC_MAX
      BY <1>3
    <3> QED
      BY <1>3, <3>1 DEF scale_encoder_value
  <2> QED
    BY <2>2, <2>4, <2>5, <2>6 DEF Faithful
<1> QED
  BY <1>4, <1>5 DEF Unsent

\* Acting upon an encoder tells the host, or leaves what it may know.
LEMMA ActedAgrees ==
    ASSUME TypeOK, AgreeInv, WellMapped(config), NEW i \in Encoders, Acted(i)
    PROVE  AgreeInv'
<1>1. PICK x \in Value, v \in 0 .. CC_MAX : Sets(i, x, v)
  BY DEF Acted
<1>2. PICK l \in Layers : l = Layer(bank, i)
  BY SettingsTypes
<1>3. /\ UNCHANGED <<config, bank>> /\ raw' = SetCurrent(i, x) /\ bank \in Banks
  BY <1>1, SettingsTypes DEF Acted, Spares, Sets
<1>4. \A b, j, layer : At(b, j, layer)' = At(b, j, layer)
  BY <1>3 DEF At, Address
<1>5. CurrentAddresses' = CurrentAddresses
  BY <1>3, <1>4 DEF CurrentAddresses
\* The value of another encoder, of which nothing has been said.
<1>6. ASSUME NEW b \in Banks, NEW j \in Encoders, NEW layer \in Layers,
             ~(b = bank /\ j = i /\ layer = l),
             heard'[At(b, j, layer)] = heard[At(b, j, layer)],
             At(b, j, layer) \in dropped => At(b, j, layer) \in dropped'
      PROVE  Told(b, j, layer, raw[b][j][layer])'
  <2>1. raw'[b][j][layer] = Transferred[b][j][layer]
    BY <1>2, <1>3, <1>6, SetCurrentIs
  <2>2. Told(b, j, layer, Transferred[b][j][layer])
    BY TransferTells
  <2>3. PICK t : t = Transferred[b][j][layer]
    OBVIOUS
  <2>4. \A y : y = t => Told(b, j, layer, y)'
    BY <1>3, <1>6, <2>2, <2>3, ToldStays
  <2> QED
    BY <2>1, <2>3, <2>4
<1>7. raw'[bank][i][l] = x
  BY <1>2, <1>3, SetCurrentIs
<1>8. CASE NoMidi /\ Unsent(i, x)
  <2>1. UNCHANGED <<heard, dropped>>
    BY <1>8 DEF NoMidi
  <2>2. Told(bank, i, l, x)
    BY <1>2, <1>8, UnsentIsTold
  <2>3. PICK b \in Banks : b = bank
    BY <1>3
  <2>4. \A y : y = x => Told(b, i, l, y)'
    BY <1>3, <2>1, <2>2, <2>3, ToldStays
  <2>5. Told(b, i, l, raw[b][i][l])'
    BY <1>3, <1>7, <2>3, <2>4
  <2>6. \A c \in Banks, j \in Encoders, layer \in Layers :
            Told(c, j, layer, raw[c][j][layer])'
    BY <1>6, <2>1, <2>3, <2>5
  <2> QED
    BY <2>6 DEF AgreeInv
<1>9. CASE Send(i, Layer(bank, i), scale_encoder_value(x))
  <2>1. PICK a \in Addresses : a = At(bank, i, l)
    BY <1>2, <1>3, SettingsTypes
  <2>2. /\ heard' = [heard EXCEPT ![a] = scale_encoder_value(x)]
        /\ dropped' = dropped \ {a}
    BY <1>2, <1>9, <2>1 DEF Send, At
  <2>3. heard'[a] = scale_encoder_value(x)
    BY <2>2 DEF TypeOK, HostType
  <2>4. \A d : d # a => heard'[d] = heard[d] /\ (d \in dropped => d \in dropped')
    BY <2>2 DEF TypeOK, HostType
  <2>5. PICK b \in Banks : b = bank
    BY <1>3
  <2>6. Told(b, i, l, raw[b][i][l])'
    <3>1. heard'[At(b, i, l)'] = scale_encoder_value(raw'[b][i][l])
      BY <1>4, <1>7, <2>1, <2>3, <2>5
    <3> QED
      BY <3>1 DEF Told, Faithful
  <2>7. ASSUME NEW c \in Banks, NEW j \in Encoders, NEW layer \in Layers,
               c = bank' \/ (At(c, j, layer) \notin CurrentAddresses)'
        PROVE  Told(c, j, layer, raw[c][j][layer])'
    <3>1. CASE c = b /\ j = i /\ layer = l
      BY <2>6, <3>1
    <3>2. CASE ~(c = b /\ j = i /\ layer = l)
      <4>1. a \in CurrentAddresses
        BY <2>1 DEF CurrentAddresses
      <4>2. At(c, j, layer) # a
        <5>1. CASE c = b
          <6>1. At(c, j, layer) = a => layer = l /\ j = i
            BY <2>1, <2>5, <5>1 DEF WellMapped, At
          <6> QED
            BY <3>2, <5>1, <6>1
        <5>2. CASE c # b
          BY <1>3, <1>4, <1>5, <2>5, <2>7, <4>1, <5>2
        <5> QED
          BY <5>1, <5>2
      <4>3. /\ heard'[At(c, j, layer)] = heard[At(c, j, layer)]
            /\ At(c, j, layer) \in dropped => At(c, j, layer) \in dropped'
        BY <2>4, <4>2
      <4> QED
        BY <1>6, <2>5, <3>2, <4>3
    <3> QED
      BY <3>1, <3>2
  <2> QED
    BY <2>7 DEF AgreeInv
<1> QED
  BY <1>1, <1>8, <1>9 DEF Sets

\* A message that nobody ignores makes every value it is about what it says.
LEMMA HostAgrees ==
    ASSUME TypeOK, AgreeInv, WellMapped(config),
           NEW a \in Addresses, NEW value \in 0 .. CC_MAX, process_element_midi(a, value)
    PROVE  AgreeInv'
<1>1. /\ UNCHANGED <<config, bank>> /\ heard' = [heard EXCEPT ![a] = value]
      /\ dropped' = IF \E b \in Banks, i \in Encoders :
                          Reaches(a, b, i) # {} /\ Ignores(b, i, value)
                    THEN dropped \cup {a} ELSE dropped \ {a}
  BY DEF process_element_midi
<1>2. heard'[a] = value
  BY <1>1 DEF TypeOK, HostType
<1>3. \A d : d # a => heard'[d] = heard[d] /\ (d \in dropped => d \in dropped')
  BY <1>1 DEF TypeOK, HostType
<1>4. \A b, j, layer : At(b, j, layer)' = At(b, j, layer)
  BY <1>1 DEF At, Address
<1>5. CurrentAddresses' = CurrentAddresses
  BY <1>1, <1>4 DEF CurrentAddresses
<1>6. ASSUME NEW b \in Banks, NEW j \in Encoders, NEW layer \in Layers,
             b = bank' \/ (At(b, j, layer) \notin CurrentAddresses)'
      PROVE  Told(b, j, layer, raw[b][j][layer])'
  <2>1. CASE At(b, j, layer) = a
    <3>1. layer \in Reaches(a, b, j)
      <4>1. layer = "shift" => config[b][j].channel # config[b][j].shift_channel
        <5> SUFFICES ASSUME config[b][j].channel = config[b][j].shift_channel
                     PROVE  FALSE
          OBVIOUS
        <5>1. Address(config[b][j], "base") = Address(config[b][j], "shift")
          BY DEF Address
        <5>2. "base" \in Layers /\ "shift" \in Layers
          BY DEF Layers
        <5> QED
          BY <5>1, <5>2 DEF WellMapped
      <4> QED
        BY <2>1, <4>1 DEF Reaches, At
    <3>2. CASE Ignores(b, j, value)
      <4>1. a \in dropped'
        BY <1>1, <3>1, <3>2
      <4> QED
        BY <1>4, <2>1, <4>1 DEF Told
    <3>3. CASE ~Ignores(b, j, value)
      <4>1. raw'[b][j][layer] = value * 100
        BY <3>1, <3>3, HostTypes
      <4>2. scale_encoder_value(value * 100) = value
        BY ScalingBack
      <4>3. heard'[At(b, j, layer)'] = scale_encoder_value(raw'[b][j][layer])
        BY <1>2, <1>4, <2>1, <4>1, <4>2
      <4> QED
        BY <4>3 DEF Told, Faithful
    <3> QED
      BY <3>2, <3>3
  <2>2. CASE At(b, j, layer) # a
    <3>1. raw'[b][j][layer] = raw[b][j][layer]
      BY <2>2, HostTypes DEF Reaches, At
    <3>2. Told(b, j, layer, raw[b][j][layer])
      BY <1>1, <1>4, <1>5, <1>6 DEF AgreeInv
    <3>3. PICK t : t = raw[b][j][layer]
      OBVIOUS
    <3>4. \A y : y = t => Told(b, j, layer, y)'
      BY <1>1, <1>3, <2>2, <3>2, <3>3, ToldStays
    <3> QED
      BY <3>1, <3>3, <3>4
  <2> QED
    BY <2>1, <2>2
<1> QED
  BY <1>6 DEF AgreeInv

\* Every step keeps the agreement: turns, feedback, transfers and bank changes.
LEMMA NextAgrees ==
    TypeOK /\ WellMapped(config) /\ AgreeInv /\ [Next]_vars => AgreeInv'
<1> SUFFICES ASSUME TypeOK, WellMapped(config), AgreeInv, [Next]_vars PROVE AgreeInv'
  OBVIOUS
<1>1. ASSUME NEW new \in Banks, ChangeBank(new)
      PROVE  AgreeInv'
  <2>1. raw' = Transferred /\ UNCHANGED <<config, heard, dropped>>
    BY <1>1 DEF ChangeBank
  <2>2. ASSUME NEW b \in Banks, NEW i \in Encoders, NEW layer \in Layers
        PROVE  Told(b, i, layer, raw[b][i][layer])'
    <3>1. PICK t : t = Transferred[b][i][layer]
      OBVIOUS
    <3>2. \A y : y = t => Told(b, i, layer, y)'
      BY <2>1, <3>1, TransferTells, ToldStays
    <3> QED
      BY <2>1, <3>1, <3>2
  <2> QED
    BY <2>2 DEF AgreeInv
<1>2. ASSUME Idle
      PROVE  AgreeInv'
  BY <1>2 DEF Idle, AgreeInv, Told, Faithful, HasDetent, CurrentAddresses, At, Address
<1> QED
  BY <1>1, <1>2, ActedAgrees, HostAgrees, StepIs, BankStepIs, IdleStepIs

\* Nothing has been said of any value yet.
LEMMA InitAgrees == Init => AgreeInv
<1> SUFFICES ASSUME Init, NEW b \in Banks, NEW i \in Encoders, NEW layer \in Layers
             PROVE  Told(b, i, layer, raw[b][i][layer])
  BY DEF AgreeInv
<1>1. At(b, i, layer) \in Addresses
  BY DEF Addresses, At
<1>2. heard[At(b, i, layer)] = None
  BY <1>1 DEF Init
<1> QED
  BY <1>2 DEF Told

\* Where a message is about one value, host and device agree on the values of the
\* current bank: what is sent, fed back and transferred between banks leaves no value
\* behind (send_encoder_midi, process_element_midi, transfer_encoder_values_to_other_banks).
THEOREM HostAgreement ==
    ASSUME \A c \in Configs : WellMapped(c)
    PROVE  Spec => []HostAndDeviceAgree
<1> DEFINE Inv == TypeOK /\ WellMapped(config) /\ AgreeInv
<1>1. Init => Inv
  BY InitType, InitAgrees DEF TypeOK
<1>2. Inv /\ [Next]_vars => Inv'
  <2> SUFFICES ASSUME Inv, [Next]_vars PROVE Inv'
    OBVIOUS
  <2>1. TypeOK' /\ AgreeInv'
    BY NextType, NextAgrees
  <2>2. config' \in Configs
    BY <2>1 DEF TypeOK
  <2> QED
    BY <2>1, <2>2
<1>3. Inv => HostAndDeviceAgree
  BY AgreementFromInv
<1> QED
  BY <1>1, <1>2, <1>3, PTL DEF Spec

-----------------------------------------------------------------------------
(* Turns and their direction.                                              *)

\* A turn that fits moves its value its own way, if at all.
LEMMA AbsoluteMoves ==
    ASSUME TicksFit, NEW n \in Ticks, NEW c \in Value,
           NEW multiplier \in {25, 100, 178, 255}
    PROVE  LET x == clamp_encoder_raw_value(Int16(c + Int16(n * multiplier)))
           IN  (n > 0 => x >= c) /\ (n < 0 => x <= c)
<1> DEFINE d == n * multiplier
<1>1. /\ n \in Int /\ n >= -127 /\ n <= 127 /\ RAW_MAX + 255 * n < 32768
      /\ c \in Int /\ 0 <= c /\ c <= RAW_MAX /\ RAW_MAX \in Int /\ RAW_MAX >= 400
      /\ RAW_MAX <= 12700
  <2>1. n \in Int /\ n >= -127 /\ n <= 127
    BY EncodersAssumption
  <2>2. CC_MAX \in Int /\ CC_MAX <= 127
    BY EncodersAssumption
  <2> QED
    BY <2>1, <2>2, Ranges DEF TicksFit, Value
<1>2. /\ d \in Int /\ d >= -32385 /\ d <= 32385 /\ RAW_MAX + d < 32768
      /\ n > 0 => d >= 0
      /\ n < 0 => d <= 0
  <2>1. CASE multiplier = 25
    BY <1>1, <2>1
  <2>2. CASE multiplier = 100
    BY <1>1, <2>2
  <2>3. CASE multiplier = 178
    BY <1>1, <2>3
  <2>4. CASE multiplier = 255
    BY <1>1, <2>4
  <2> QED
    BY <2>1, <2>2, <2>3, <2>4
<1> HIDE DEF d
<1>3. Int16(d) = d
  BY <1>2, Widths
<1>4. c + d \in Int /\ c + d >= -32768 /\ c + d < 32768
  BY <1>1, <1>2
<1>5. Int16(c + d) = c + d
  BY <1>4, Widths
<1>6. clamp_encoder_raw_value(c + d) =
        IF c + d < 0 THEN 0 ELSE IF c + d > RAW_MAX THEN RAW_MAX ELSE c + d
  BY <1>4, Clamping
<1>7. /\ n > 0 => clamp_encoder_raw_value(c + d) >= c
      /\ n < 0 => clamp_encoder_raw_value(c + d) <= c
  BY <1>1, <1>2, <1>6
<1> QED
  BY <1>3, <1>5, <1>7 DEF d

\* No branch of a turn moves a value against it, but for the two that give way.
LEMMA TurnsMove ==
    ASSUME TypeOK, TicksFit, NEW i \in Encoders, NEW n \in Ticks, Turn(i, n)
    PROVE  /\ n > 0 /\ Falls(i) =>
                \/ Current(i) = RAW_MAX /\ Current(i)' = RAW_MAX - 100
                \/ DetentApplies(i) /\ Current(i)' = encoder_detent_limit_low
           /\ n < 0 /\ Rises(i) =>
                \/ Current(i) = 0 /\ Current(i)' = 100
                \/ DetentApplies(i) /\ Current(i)' = encoder_detent_limit_high
<1> DEFINE c == Current(i)
<1>1. UNCHANGED <<config, bank, pressed, toggled>>
  BY DEF Turn, switches
<1>2. c \in Value /\ c \in Int /\ RAW_MAX \in Int /\ RAW_MAX >= 400
  BY CurrentIs, Ranges DEF Value
<1>3. \A x \in Value : raw' = SetCurrent(i, x) => Current(i)' = x
  BY <1>1, CurrentAfter
<1>4. raw' = Transferred => Current(i)' = c
  BY <1>2, <1>3, KeepingIs
<1>5. Current(i)' = c => ~Falls(i) /\ ~Rises(i)
  BY <1>2 DEF Falls, Rises
<1>6. CASE TurnInDetent(i, n)
  <2>1. /\ DetentApplies(i)
        /\ \/ raw' = Transferred
           \/ raw' = SetCurrent(i, encoder_detent_limit_low)
           \/ raw' = SetCurrent(i, encoder_detent_limit_high)
    BY <1>6 DEF TurnInDetent
  <2>2. \/ Current(i)' = c \/ Current(i)' = encoder_detent_limit_low
        \/ Current(i)' = encoder_detent_limit_high
    BY <1>3, <1>4, <2>1, Ranges
  <2>3. encoder_is_in_detent(c)
    BY <2>1 DEF DetentApplies
  <2>4. encoder_detent_limit_low < c /\ c < encoder_detent_limit_high
    BY <2>3 DEF encoder_is_in_detent
  <2>5. encoder_detent_limit_low \in Int /\ encoder_detent_limit_high \in Int
    BY Ranges
  <2>6. Current(i)' = encoder_detent_limit_low => ~Rises(i)
    BY <1>2, <2>4, <2>5 DEF Rises
  <2>7. Current(i)' = encoder_detent_limit_high => ~Falls(i)
    BY <1>2, <2>4, <2>5 DEF Falls
  <2> QED
    BY <1>5, <2>1, <2>2, <2>6, <2>7
<1>7. CASE TurnInDeadZone(i, n)
  <2>1. DeadZoneApplies(i) /\ (raw' = Transferred \/ raw' = SetCurrent(i, OffTheEnd(c)))
    BY <1>7 DEF TurnInDeadZone
  <2>2. encoder_is_in_deadzone(c)
    BY <2>1 DEF DeadZoneApplies
  <2>3. /\ OffTheEnd(c) \in Value
        /\ (c = 0 /\ OffTheEnd(c) = 100) \/ (c = RAW_MAX /\ OffTheEnd(c) = RAW_MAX - 100)
    BY <1>2, <2>2, OffTheEndIs
  <2>4. \/ Current(i)' = c \/ (c = 0 /\ Current(i)' = 100)
        \/ (c = RAW_MAX /\ Current(i)' = RAW_MAX - 100)
    BY <1>3, <1>4, <2>1, <2>3
  <2>5. c = 0 /\ Current(i)' = 100 => ~Falls(i)
    BY DEF Falls
  <2>6. c = RAW_MAX /\ Current(i)' = RAW_MAX - 100 => ~Rises(i)
    BY <1>2 DEF Rises
  <2> QED
    BY <1>5, <2>4, <2>5, <2>6
<1>8. CASE TurnRelative(i, n)
  BY <1>4, <1>5, <1>8 DEF TurnRelative
<1>9. CASE TurnAbsolute(i, n)
  <2>1. PICK multiplier \in {25, 100, 178, 255}, x \in Value : MovesTo(i, n, multiplier, x)
    BY <1>9, AbsoluteIs
  <2>2. /\ x = clamp_encoder_raw_value(Int16(c + Int16(n * multiplier)))
        /\ Current(i)' = x /\ x \in Int
    BY <1>3, <2>1, Ranges DEF MovesTo, Value
  <2>3. (n > 0 => x >= c) /\ (n < 0 => x <= c)
    BY <1>2, <2>2, AbsoluteMoves
  <2>4. n > 0 => ~Falls(i)
    BY <1>2, <2>2, <2>3 DEF Falls
  <2>5. n < 0 => ~Rises(i)
    BY <1>2, <2>2, <2>3 DEF Rises
  <2> QED
    BY <2>4, <2>5
<1> QED
  BY <1>6, <1>7, <1>8, <1>9 DEF Turn

\* As long as a turn between two reads fits its int16_t (78 ticks for 128 values), it
\* never moves a value against its direction, but for an end or a detent that gives way
\* to what their counter still holds (process_encoder_input_rotary).
THEOREM TurnsGoTheirWay == ASSUME TicksFit PROVE Spec => OnlyStopsGiveWay
<1>1. TypeOK /\ [Next]_vars =>
        [\A i \in Encoders, n \in Ticks :
          /\ n > 0 /\ Falls(i) /\ Turn(i, n) =>
                \/ Current(i) = RAW_MAX /\ Current(i)' = RAW_MAX - 100
                \/ DetentApplies(i) /\ Current(i)' = encoder_detent_limit_low
          /\ n < 0 /\ Rises(i) /\ Turn(i, n) =>
                \/ Current(i) = 0 /\ Current(i)' = 100
                \/ DetentApplies(i) /\ Current(i)' = encoder_detent_limit_high
        ]_vars
  BY TurnsMove
<1> QED
  BY <1>1, TypeCorrect, PTL DEF Spec, OnlyStopsGiveWay
=============================================================================
