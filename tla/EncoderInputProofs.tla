------------------------- MODULE EncoderInputProofs -------------------------
(***************************************************************************)
(* The reading of an encoder, for counters of any width and any debounce   *)
(* time: what the main loop takes is what the shaft did, with the time it  *)
(* took, although a scan may come between any two of its accesses, and the *)
(* protected read is one step of StepTally.                                *)
(***************************************************************************)
EXTENDS EncoderInput, TLAPS

\* Scans come in: interrupts are disabled during every read but main()'s.
IrqGuard == irq_enabled <=> (phase = "boot" \/ pc \in {"idle", "use"})

\* What a scan remembers is where the shaft was, which way it moved last and,
\* up to the debounce time, how long ago.
ScanRemembers ==
    /\ cha_prev = ChA(shaft) /\ chb_prev = ChB(shaft)
    /\ last_movement = event.dir
    /\ event.age = IF inactive_counter < ENCODER_DEBOUNCE_CYCLE_TIMEOUT
                   THEN inactive_counter ELSE ENCODER_DEBOUNCE_CYCLE_TIMEOUT

\* Outside a read the locals are empty; in a protected one nothing moves.
ReadIsAlone ==
    /\ pc \in {"idle", "read_value"} => new_value = 0 /\ cycle_count = 0
    /\ phase # "boot" /\ pc \in {"read_cycles", "clear_cycles"} => encoder_state = 0
    /\ phase # "boot" /\ Taking => events = 0 /\ moved = 0

\* No more movements than the bound, and none moves further than a step.
MovesAreBounded == -events <= moved /\ moved <= events

BInv ==
    /\ TypeOK
    /\ IrqGuard
    /\ ScanRemembers
    /\ ReadIsAlone
    /\ MovesAreBounded
    /\ BounceCountsOnce

\* The count is how far the shaft moved, until it is taken.
CountIsMovement ==
    /\ phase = "boot" \/ (phase = "first" /\ pc \in {"idle", "read_value"}) => ~orderly
    /\ orderly /\ ~Taking => encoder_state = moved
    /\ pc \notin {"idle", "read_value"} /\ due_orderly => new_value = due

\* The longest time one step can take.
StepTime == ENCODER_INACTIVE_THRESHOLD + 1

Covers(cycles, steps) == steps <= cycles /\ -steps <= cycles

\* Wherever the steps are, in the counter or taken, their time is with them.
TimeCoversSteps ==
    /\ phase = "running" \/ (phase = "first" /\ pc = "use") =>
         /\ ~Taking => Covers(event_cycle_counts, encoder_state)
                       /\ event_cycle_counts <= events * StepTime
         /\ phase = "running" /\ pc \in {"clear_value", "read_cycles"} =>
                Covers(event_cycle_counts, new_value)
         /\ phase = "running" /\ pc \in {"clear_cycles", "use"} =>
                Covers(cycle_count, new_value)

-----------------------------------------------------------------------------

\* The signed counter wraps at its two ends only.
LEMMA Int8Step ==
    ASSUME NEW s \in Int8Values, NEW a \in {-1, 1}
    PROVE  Int8(s + a) = IF s + a = StateHalf THEN -StateHalf
                         ELSE IF s + a < -StateHalf THEN StateHalf - 1 ELSE s + a
<1> DEFINE W == 2 * StateHalf
           n == s + a + StateHalf
<1>0. StateHalf \in Nat /\ StateHalf >= 1 /\ W \in Nat /\ W > 0
  BY InputAssumption
<1>a. s \in Int /\ -StateHalf <= s /\ s < StateHalf /\ n \in Int
  BY <1>0 DEF Int8Values
<1>b. Int8(s + a) = (n % W) - StateHalf
  BY DEF Int8
<1> HIDE DEF n, W
<1>1. CASE n \in 0..(W - 1)
  <2>1. n % W = n
    BY <1>0, <1>1
  <2>2. QED BY <1>0, <1>a, <1>b, <1>1, <2>1 DEF n, W
<1>2. CASE n = W
  <2>1. W % W = 0
    BY <1>0
  <2>2. QED BY <1>0, <1>a, <1>b, <1>2, <2>1 DEF n, W
<1>3. CASE n = -1
  <2>1. (-1) % W = W - 1
    BY <1>0
  <2>2. QED BY <1>0, <1>a, <1>b, <1>3, <2>1 DEF n, W
<1>4. QED BY <1>0, <1>a, <1>1, <1>2, <1>3 DEF n, W

\* The cycle counter keeps its width.
LEMMA UInt16Type == \A n \in Int : UInt16(n) \in 0..(CycleRange - 1)
  BY InputAssumption DEF UInt16

\* A count that fits the cycle counter stays as it is.
LEMMA UInt16Small == \A n \in 0..(CycleRange - 1) : UInt16(n) = n
  BY InputAssumption DEF UInt16

\* The table of the decoder, entry by entry.
LEMMA Table ==
    LET T == EncoderActionByState IN
    /\ T[0] = 0 /\ T[1] = -1 /\ T[2] = 1 /\ T[3] = -127
    /\ T[4] = 1 /\ T[5] = 0 /\ T[6] = -127 /\ T[7] = -1
    /\ T[8] = -1 /\ T[9] = -127 /\ T[10] = 0 /\ T[11] = 1
    /\ T[12] = -127 /\ T[13] = 1 /\ T[14] = -1 /\ T[15] = 0
BY DEF EncoderActionByState

\* The decoder tells a movement of the shaft, in any of its four places.
LEMMA Decodes ==
    ASSUME NEW p \in 0..3, NEW m \in {-1, 0, 1, 2},
           cha_prev = ChA(p), chb_prev = ChB(p)
    PROVE  Decoded(ChA((p + m) % 4), ChB((p + m) % 4)) = IF m = 2 THEN -127 ELSE m
<1> DEFINE q == (p + m) % 4
<1>1. q = IF p + m = -1 THEN 3 ELSE IF p + m > 3 THEN p + m - 4 ELSE p + m
  OBVIOUS
<1> HIDE DEF q
<1>2. Decoded(ChA(q), ChB(q)) = IF m = 2 THEN -127 ELSE m
  <2>0. Decoded(ChA(q), ChB(q)) =
          EncoderActionByState[(IF q \in {1, 2} THEN 4 ELSE 0)
                                 + (IF q \in {2, 3} THEN 8 ELSE 0)
                                 + (IF p \in {1, 2} THEN 1 ELSE 0)
                                 + (IF p \in {2, 3} THEN 2 ELSE 0)]
    BY DEF Decoded, ChA, ChB, Bit
  <2> HIDE DEF EncoderActionByState
  <2>1. CASE p = 0
    BY <1>1, <2>0, <2>1, Table
  <2>2. CASE p = 1
    BY <1>1, <2>0, <2>2, Table
  <2>3. CASE p = 2
    BY <1>1, <2>0, <2>3, Table
  <2>4. CASE p = 3
    BY <1>1, <2>0, <2>4, Table
  <2>5. QED BY <2>1, <2>2, <2>3, <2>4
<1>3. QED BY <1>2 DEF q

-----------------------------------------------------------------------------
\* What a scan does, in terms of the movement m.
Moving(m) == m \in {-1, 1}
Counts(m) == Moving(m) /\ Accepted(m)

\* What a scan does to every variable, the decoder worked out.
LEMMA ScanFacts ==
    ASSUME BInv, NEW m \in {-1, 0, 1, 2}, encoder_scan(m)
    PROVE  /\ irq_enabled /\ shaft' \in 0..3
           /\ cha_prev' = ChA(shaft') /\ chb_prev' = ChB(shaft')
           /\ m # 0 => events < MaxEvents
           /\ inactive_counter' = IF Moving(m) THEN 0 ELSE OneMoreScan
           /\ last_movement' = IF Moving(m) THEN m ELSE last_movement
           /\ encoder_state' = IF Counts(m) THEN Int8(encoder_state + m) ELSE encoder_state
           /\ event_cycle_counts' =
                IF Counts(m) THEN UInt16(event_cycle_counts + inactive_counter + 1)
                ELSE event_cycle_counts
           /\ Record(m, IF Counts(m) THEN m ELSE 0)
           /\ UNCHANGED loop
<1> DEFINE action == Decoded(cha_prev', chb_prev')
<1>1. shaft \in 0..3 /\ shaft' = (shaft + m) % 4 /\ shaft' \in 0..3
  BY DEF BInv, TypeOK, encoder_scan
<1>2. action = IF m = 2 THEN -127 ELSE m
  <2>1. cha_prev' = ChA((shaft + m) % 4) /\ chb_prev' = ChB((shaft + m) % 4)
    BY DEF encoder_scan
  <2>2. cha_prev = ChA(shaft) /\ chb_prev = ChB(shaft)
    BY DEF BInv, ScanRemembers
  <2>3. Decoded(ChA((shaft + m) % 4), ChB((shaft + m) % 4)) = IF m = 2 THEN -127 ELSE m
    BY <1>1, <2>2, Decodes
  <2>4. QED BY <2>1, <2>3
<1> HIDE DEF action
<1>3. /\ inactive_counter' = IF action \in {-1, 1} THEN 0 ELSE OneMoreScan
      /\ last_movement' = IF action \in {-1, 1} THEN action ELSE last_movement
      /\ encoder_state' = IF action \in {-1, 1} /\ Accepted(action)
                          THEN Int8(encoder_state + action) ELSE encoder_state
      /\ event_cycle_counts' =
           IF action \in {-1, 1} /\ Accepted(action)
           THEN UInt16(event_cycle_counts + inactive_counter + 1) ELSE event_cycle_counts
      /\ Record(m, IF action \in {-1, 1} /\ Accepted(action) THEN action ELSE 0)
  BY DEF encoder_scan, action
<1>4. action \in {-1, 1} <=> Moving(m)
  BY <1>2 DEF Moving
<1>5. Moving(m) => action = m
  BY <1>2 DEF Moving
<1>6. (action \in {-1, 1} /\ Accepted(action)) <=> Counts(m)
  BY <1>4, <1>5 DEF Counts
<1>7. Counts(m) => action = m
  BY <1>5 DEF Counts
<1>8. QED BY <1>1, <1>3, <1>4, <1>5, <1>6, <1>7 DEF encoder_scan

\* A movement is counted exactly if it does not reverse the last one too soon.
LEMMA CountsUnlessReversal ==
    ASSUME BInv, NEW m \in {-1, 1}
    PROVE  Counts(m) <=> ~Reverses(m)
<1>1. /\ inactive_counter \in Nat /\ ENCODER_DEBOUNCE_CYCLE_TIMEOUT \in Nat
      /\ last_movement = event.dir
      /\ event.age = IF inactive_counter < ENCODER_DEBOUNCE_CYCLE_TIMEOUT
                     THEN inactive_counter ELSE ENCODER_DEBOUNCE_CYCLE_TIMEOUT
  BY InputAssumption DEF BInv, TypeOK, ScanRemembers
<1>2. event.age + 1 < ENCODER_DEBOUNCE_CYCLE_TIMEOUT
        <=> ~(inactive_counter + 1 >= ENCODER_DEBOUNCE_CYCLE_TIMEOUT)
  BY <1>1
<1>3. QED BY <1>1, <1>2 DEF Counts, Moving, Accepted, Reverses

\* A scan keeps the invariant, wherever the main loop is.
LEMMA ScanKeepsBInv ==
    ASSUME BInv, NEW m \in {-1, 0, 1, 2}, encoder_scan(m)
    PROVE  BInv'
<1>0. TypeOK /\ IrqGuard /\ ScanRemembers /\ ReadIsAlone /\ MovesAreBounded
      /\ BounceCountsOnce
  BY DEF BInv
<1>1. /\ irq_enabled /\ shaft' \in 0..3
      /\ cha_prev' = ChA(shaft') /\ chb_prev' = ChB(shaft')
      /\ m # 0 => events < MaxEvents
      /\ inactive_counter' = IF Moving(m) THEN 0 ELSE OneMoreScan
      /\ last_movement' = IF Moving(m) THEN m ELSE last_movement
      /\ encoder_state' = IF Counts(m) THEN Int8(encoder_state + m) ELSE encoder_state
      /\ event_cycle_counts' =
           IF Counts(m) THEN UInt16(event_cycle_counts + inactive_counter + 1)
           ELSE event_cycle_counts
      /\ Record(m, IF Counts(m) THEN m ELSE 0)
      /\ UNCHANGED <<irq_enabled, pc, new_value, cycle_count, phase>>
  BY ScanFacts DEF loop
<1>2. Counts(m) <=> m \in {-1, 1} /\ ~Reverses(m)
  BY CountsUnlessReversal DEF Counts, Moving
<1>3. /\ moved' \in -MaxEvents..MaxEvents /\ events' \in 0..MaxEvents
      /\ -events' <= moved' /\ moved' <= events'
      /\ orderly' \in BOOLEAN /\ UNCHANGED <<due, due_orderly>>
  BY <1>0, <1>1, InputAssumption DEF Record, TypeOK, MovesAreBounded
<1>4. /\ encoder_state' \in Int8Values /\ event_cycle_counts' \in 0..(CycleRange - 1)
  <2>1. Counts(m) => Int8(encoder_state + m) \in Int8Values
    BY <1>0, <1>2, Int8Step, InputAssumption DEF TypeOK, Int8Values
  <2>2. event_cycle_counts + inactive_counter + 1 \in Int
    BY <1>0, InputAssumption DEF TypeOK
  <2>3. QED BY <1>0, <1>1, <2>1, <2>2, UInt16Type DEF TypeOK
<1>5. /\ inactive_counter' \in 0..ENCODER_INACTIVE_THRESHOLD
      /\ last_movement' \in {-1, 0, 1}
  BY <1>0, <1>1, InputAssumption DEF TypeOK, OneMoreScan, Moving
<1>6. /\ event' \in [dir : {-1, 0, 1}, age : Scans, bounce : Nat]
      /\ event'.bounce <= 1
      /\ event'.dir = last_movement'
      /\ event'.age = IF inactive_counter' < ENCODER_DEBOUNCE_CYCLE_TIMEOUT
                     THEN inactive_counter' ELSE ENCODER_DEBOUNCE_CYCLE_TIMEOUT
  <2>1. /\ event \in [dir : {-1, 0, 1}, age : Scans, bounce : Nat]
        /\ event.bounce <= 1 /\ event.dir = last_movement
        /\ ENCODER_DEBOUNCE_CYCLE_TIMEOUT \in Nat /\ ENCODER_DEBOUNCE_CYCLE_TIMEOUT >= 2
        /\ inactive_counter \in Nat
        /\ event.age = IF inactive_counter < ENCODER_DEBOUNCE_CYCLE_TIMEOUT
                       THEN inactive_counter ELSE ENCODER_DEBOUNCE_CYCLE_TIMEOUT
    BY <1>0, InputAssumption DEF TypeOK, ScanRemembers, BounceCountsOnce
  <2>2. CASE m \in {-1, 1}
    <3>1. event' = [dir |-> m, age |-> 0,
                    bounce |-> (IF Reverses(m) /\ m = -event.dir THEN event.bounce ELSE 0)
                                 + (IF ~Counts(m) THEN 0 ELSE 1)]
      BY <1>1, <2>2 DEF Record
    <3>2. event'.bounce \in Nat /\ event'.bounce <= 1
      BY <1>2, <2>1, <2>2, <3>1
    <3>3. inactive_counter' = 0 /\ last_movement' = m
      BY <1>1, <2>2 DEF Moving
    <3>4. QED BY <2>1, <2>2, <3>1, <3>2, <3>3 DEF Scans
  <2>3. CASE m \notin {-1, 1}
    <3>1. event' = [event EXCEPT !.age = Older(@), !.bounce = IF m = 2 THEN 0 ELSE @]
      BY <1>1, <2>3 DEF Record
    <3>2. inactive_counter' = OneMoreScan /\ last_movement' = last_movement
      BY <1>1, <2>3 DEF Moving
    <3>3. /\ event'.dir = event.dir /\ event'.age = Older(event.age)
          /\ event'.bounce = IF m = 2 THEN 0 ELSE event.bounce
          /\ event' = [dir |-> event'.dir, age |-> event'.age, bounce |-> event'.bounce]
      BY <2>1, <3>1
    <3>4. /\ event'.age \in Scans
          /\ event'.age = IF inactive_counter' < ENCODER_DEBOUNCE_CYCLE_TIMEOUT
                           THEN inactive_counter' ELSE ENCODER_DEBOUNCE_CYCLE_TIMEOUT
      BY <2>1, <3>2, <3>3, InputAssumption DEF Older, OneMoreScan, Scans
    <3>5. event'.bounce \in Nat /\ event'.bounce <= 1 /\ event'.dir \in {-1, 0, 1}
      BY <2>1, <3>3
    <3>6. event' \in [dir : {-1, 0, 1}, age : Scans, bounce : Nat]
      BY <3>3, <3>4, <3>5
    <3>7. QED BY <2>1, <3>2, <3>3, <3>4, <3>5, <3>6
  <2>4. QED BY <2>2, <2>3
<1>7. TypeOK'
  BY <1>0, <1>1, <1>3, <1>4, <1>5, <1>6 DEF TypeOK, ChA, ChB, Scans, Int8Values
<1>8. IrqGuard' /\ ScanRemembers' /\ MovesAreBounded' /\ BounceCountsOnce'
  BY <1>0, <1>1, <1>3, <1>6 DEF IrqGuard, ScanRemembers, MovesAreBounded, BounceCountsOnce
<1>9. ReadIsAlone'
  BY <1>0, <1>1 DEF IrqGuard, ReadIsAlone, Taking
<1>10. QED BY <1>7, <1>8, <1>9 DEF BInv

\* The invariant holds when the power comes on.
LEMMA InitBInv == Init => BInv
<1> SUFFICES ASSUME Init PROVE BInv
  OBVIOUS
<1> USE InputAssumption DEF Init
<1>1. TypeOK
  <2>1. /\ cha_prev \in BOOLEAN /\ chb_prev \in BOOLEAN /\ irq_enabled \in BOOLEAN
        /\ orderly \in BOOLEAN /\ due_orderly \in BOOLEAN
    OBVIOUS
  <2>2. event \in [dir : {-1, 0, 1}, age : Scans, bounce : Nat]
    BY DEF Scans
  <2>3. QED BY <2>1, <2>2 DEF TypeOK, Int8Values
<1>2. IrqGuard /\ ReadIsAlone /\ MovesAreBounded /\ BounceCountsOnce
  BY DEF IrqGuard, ReadIsAlone, MovesAreBounded, BounceCountsOnce, Taking
<1>3. ScanRemembers
  <2>1. ChA(shaft) = FALSE /\ ChB(shaft) = FALSE
    BY DEF ChA, ChB
  <2>2. cha_prev = ChA(shaft) /\ chb_prev = ChB(shaft)
    BY <2>1, Zenon
  <2>3. /\ last_movement = event.dir
        /\ event.age = IF inactive_counter < ENCODER_DEBOUNCE_CYCLE_TIMEOUT
                       THEN inactive_counter ELSE ENCODER_DEBOUNCE_CYCLE_TIMEOUT
    OBVIOUS
  <2>4. QED BY <2>2, <2>3 DEF ScanRemembers
<1>4. QED BY <1>1, <1>2, <1>3 DEF BInv

\* Every step of the scan or of the main loop keeps it.
LEMMA NextBInv == BInv /\ [Next]_vars => BInv'
<1> SUFFICES ASSUME BInv, [Next]_vars PROVE BInv'
  OBVIOUS
<1> USE InputAssumption DEF BInv, TypeOK, IrqGuard, ScanRemembers, ReadIsAlone,
        MovesAreBounded, BounceCountsOnce, Taking, Goto, pins, counted, history, ChA, ChB
<1>1. CASE \E m \in {-1, 0, 1, 2} : encoder_scan(m)
  BY <1>1, ScanKeepsBInv
<1>2. CASE BeginRead
  BY <1>2 DEF BeginRead
<1>3. CASE ReadValue
  BY <1>3 DEF ReadValue
<1>4. CASE ClearValue
  BY <1>4 DEF ClearValue, Int8Values
<1>5. CASE ReadCycles
  BY <1>5 DEF ReadCycles
<1>6. CASE ClearCycles
  BY <1>6 DEF ClearCycles
<1>7. CASE Use
  BY <1>7 DEF Use, Int8Values
<1>8. CASE UNCHANGED vars
  BY <1>8 DEF vars, loop
<1>9. QED
  BY <1>1, <1>2, <1>3, <1>4, <1>5, <1>6, <1>7, <1>8 DEF Next

-----------------------------------------------------------------------------
\* At most as many steps pile up as the counter holds.
CountFits == MaxEvents < StateHalf

\* And no more time.
TimeFits == MaxEvents * StepTime < CycleRange

\* While the steps fit the counter, a scan counts what moved.
LEMMA ScanKeepsCount ==
    ASSUME BInv, CountIsMovement, CountFits,
           NEW m \in {-1, 0, 1, 2}, encoder_scan(m)
    PROVE  CountIsMovement'
<1>1. /\ irq_enabled /\ (m # 0 => events < MaxEvents)
      /\ encoder_state' = IF Counts(m) THEN Int8(encoder_state + m) ELSE encoder_state
      /\ Record(m, IF Counts(m) THEN m ELSE 0)
      /\ UNCHANGED <<irq_enabled, pc, new_value, cycle_count, phase>>
  BY ScanFacts DEF loop
<1>2. Counts(m) <=> m \in {-1, 1} /\ ~Reverses(m)
  BY CountsUnlessReversal DEF Counts, Moving
<1>3. orderly' => orderly /\ m # 2 /\ (m # 0 => ~Reverses(m))
  <2> DEFINE R == orderly /\ (m = 0 \/ (m # 2 /\ ~Reverses(m)))
  <2>1. orderly' = R
    BY <1>1 DEF Record
  <2>2. R => orderly /\ m # 2 /\ (m # 0 => ~Reverses(m))
    OBVIOUS
  <2> HIDE DEF R
  <2>3. QED BY <2>1, <2>2
<1>4. moved' = moved + (IF m = 2 THEN 0 ELSE m) /\ UNCHANGED <<due, due_orderly>>
  BY <1>1 DEF Record
<1>5. TypeOK /\ MovesAreBounded
  BY DEF BInv
<1>6. ASSUME orderly', ~Taking PROVE encoder_state' = moved'
  <2>1. encoder_state = moved
    BY <1>3, <1>6 DEF CountIsMovement
  <2>2. CASE m = 0
    BY <1>1, <1>2, <1>4, <1>5, <2>1, <2>2 DEF TypeOK
  <2>3. CASE m # 0
    <3>1. Counts(m) /\ m \in {-1, 1}
      BY <1>2, <1>3, <1>6, <2>3
    <3>2. events < MaxEvents /\ moved \in -events..events /\ events \in Nat
      BY <1>1, <1>5, <2>3, InputAssumption DEF TypeOK, MovesAreBounded
    <3>3. Int8(moved + m) = moved + m
      BY <3>1, <3>2, Int8Step, InputAssumption DEF CountFits, Int8Values
    <3>4. QED BY <1>1, <1>4, <2>1, <3>1, <3>3
  <2>4. QED BY <2>2, <2>3
<1>7. Taking' <=> Taking
  BY <1>1 DEF Taking
<1>8. QED BY <1>1, <1>3, <1>4, <1>6, <1>7 DEF CountIsMovement

\* No step loses or doubles a counted movement.
LEMMA NextCount ==
    ASSUME CountFits
    PROVE  BInv /\ CountIsMovement /\ [Next]_vars => CountIsMovement'
<1> SUFFICES ASSUME BInv, CountIsMovement, [Next]_vars PROVE CountIsMovement'
  OBVIOUS
<1> USE DEF BInv, CountIsMovement, ReadIsAlone, Taking, Goto, pins, counted, history
<1>1. CASE \E m \in {-1, 0, 1, 2} : encoder_scan(m)
  BY <1>1, ScanKeepsCount
<1>2. CASE BeginRead
  BY <1>2 DEF BeginRead
<1>3. CASE ReadValue
  BY <1>3 DEF ReadValue, TypeOK
<1>4. CASE ClearValue
  BY <1>4 DEF ClearValue, TypeOK
<1>5. CASE ReadCycles
  BY <1>5 DEF ReadCycles
<1>6. CASE ClearCycles
  BY <1>6 DEF ClearCycles
<1>7. CASE Use
  BY <1>7 DEF Use
<1>8. CASE UNCHANGED vars
  BY <1>8 DEF vars, loop
<1>9. QED
  BY <1>1, <1>2, <1>3, <1>4, <1>5, <1>6, <1>7, <1>8 DEF Next

\* One more movement leaves room for the time of one more step.
LEMMA TimeBound ==
    ASSUME NEW c \in Nat, NEW e \in Nat, NEW d \in 1..StepTime,
           c <= e * StepTime, e < MaxEvents, TimeFits
    PROVE  c + d <= (e + 1) * StepTime /\ c + d \in 0..(CycleRange - 1)
<1>1. StepTime \in Nat /\ MaxEvents \in Nat /\ CycleRange \in Nat
  BY InputAssumption DEF StepTime
<1>2. (e + 1) * StepTime = e * StepTime + StepTime
  BY <1>1
<1>3. (e + 1) * StepTime <= MaxEvents * StepTime
  BY <1>1
<1>4. e * StepTime \in Nat /\ MaxEvents * StepTime \in Nat
  BY <1>1
<1>5. QED BY <1>1, <1>2, <1>3, <1>4 DEF TimeFits

\* While the time fits its counter, a scan adds it with the step.
LEMMA ScanKeepsTime ==
    ASSUME BInv, TimeCoversSteps, TimeFits,
           NEW m \in {-1, 0, 1, 2}, encoder_scan(m)
    PROVE  TimeCoversSteps'
<1>1. /\ irq_enabled /\ (m # 0 => events < MaxEvents)
      /\ encoder_state' = IF Counts(m) THEN Int8(encoder_state + m) ELSE encoder_state
      /\ event_cycle_counts' =
           IF Counts(m) THEN UInt16(event_cycle_counts + inactive_counter + 1)
           ELSE event_cycle_counts
      /\ Record(m, IF Counts(m) THEN m ELSE 0)
      /\ UNCHANGED <<irq_enabled, pc, new_value, cycle_count, phase>>
  BY ScanFacts DEF loop
<1>2. TypeOK /\ IrqGuard
  BY DEF BInv
<1>3. events' = (IF m = 0 THEN events ELSE events + 1)
  BY <1>1 DEF Record
<1>4. phase # "boot" => pc \in {"idle", "use"} /\ ~Taking
  BY <1>1, <1>2 DEF IrqGuard, Taking
<1>5. ASSUME phase = "running" \/ (phase = "first" /\ pc = "use")
      PROVE  /\ Covers(event_cycle_counts', encoder_state')
             /\ event_cycle_counts' <= events' * StepTime
  <2>1. /\ Covers(event_cycle_counts, encoder_state)
        /\ event_cycle_counts <= events * StepTime
    BY <1>4, <1>5 DEF TimeCoversSteps
  <2>2. StepTime \in Nat /\ events \in Nat /\ event_cycle_counts \in Nat
        /\ inactive_counter + 1 \in 1..StepTime /\ encoder_state \in Int8Values
        /\ StateHalf \in Nat
    BY <1>2, InputAssumption DEF TypeOK, StepTime
  <2>3. CASE ~Counts(m)
    <3>1. event_cycle_counts <= events' * StepTime
      <4>1. CASE m = 0
        BY <1>3, <2>1, <4>1
      <4>2. CASE m # 0
        <5>1. events' = events + 1
          BY <1>3, <4>2
        <5>2. (events + 1) * StepTime = events * StepTime + StepTime
          BY <2>2
        <5>3. events * StepTime \in Nat
          BY <2>2
        <5>4. QED BY <2>1, <2>2, <5>1, <5>2, <5>3
      <4>3. QED BY <4>1, <4>2
    <3>2. QED BY <1>1, <2>1, <2>3, <3>1
  <2>4. CASE Counts(m)
    <3>1. m \in {-1, 1} /\ events < MaxEvents /\ events' = events + 1
      BY <1>1, <1>3, <2>4 DEF Counts, Moving
    <3>2. /\ event_cycle_counts + (inactive_counter + 1) <= (events + 1) * StepTime
          /\ event_cycle_counts + (inactive_counter + 1) \in 0..(CycleRange - 1)
      BY <2>1, <2>2, <3>1, TimeBound
    <3>3. event_cycle_counts' = event_cycle_counts + (inactive_counter + 1)
      BY <1>1, <1>2, <2>2, <2>4, <3>2, UInt16Small DEF TypeOK
    <3>4. encoder_state' = IF encoder_state + m = StateHalf THEN -StateHalf
                           ELSE IF encoder_state + m < -StateHalf THEN StateHalf - 1
                           ELSE encoder_state + m
      BY <1>1, <2>2, <2>4, <3>1, Int8Step
    <3>5. Covers(event_cycle_counts', encoder_state')
      BY <2>1, <2>2, <3>1, <3>3, <3>4 DEF Covers, Int8Values
    <3>6. QED BY <3>1, <3>2, <3>3, <3>5
  <2>5. QED BY <2>3, <2>4
<1>6. StepTime' = StepTime
  BY DEF StepTime
<1>7. QED BY <1>1, <1>4, <1>5, <1>6 DEF TimeCoversSteps, Taking, Covers

\* No step parts the steps from their time.
LEMMA NextTime ==
    ASSUME TimeFits
    PROVE  BInv /\ TimeCoversSteps /\ [Next]_vars => TimeCoversSteps'
<1> SUFFICES ASSUME BInv, TimeCoversSteps, [Next]_vars PROVE TimeCoversSteps'
  OBVIOUS
<1>0. StepTime \in Nat /\ StepTime' = StepTime /\ 0 * StepTime = 0
  BY InputAssumption DEF StepTime
<1> USE InputAssumption, <1>0 DEF BInv, TypeOK, TimeCoversSteps, Covers, ReadIsAlone, Taking,
        Goto, pins, counted, history
<1>1. CASE \E m \in {-1, 0, 1, 2} : encoder_scan(m)
  BY <1>1, ScanKeepsTime
<1>2. CASE BeginRead
  BY <1>2 DEF BeginRead
<1>3. CASE ReadValue
  BY <1>3 DEF ReadValue
<1>4. CASE ClearValue
  BY <1>4 DEF ClearValue
<1>5. CASE ReadCycles
  BY <1>5 DEF ReadCycles
<1>6. CASE ClearCycles
  BY <1>6 DEF ClearCycles
<1>7. CASE Use
  BY <1>7 DEF Use
<1>8. CASE UNCHANGED vars
  BY <1>8 DEF vars, loop
<1>9. QED
  BY <1>1, <1>2, <1>3, <1>4, <1>5, <1>6, <1>7, <1>8 DEF Next

-----------------------------------------------------------------------------
\* Every step of the encoder is one of the tally, or none.
LEMMA StepIsTallyStep == BInv /\ [Next]_vars => [Tally!Next]_(Tally!vars)
<1> SUFFICES ASSUME BInv, [Next]_vars PROVE [Tally!Next]_(Tally!vars)
  OBVIOUS
<1>0. TypeOK /\ IrqGuard /\ ReadIsAlone
  BY DEF BInv
<1>1. ASSUME NEW m \in {-1, 0, 1, 2}, encoder_scan(m)
      PROVE  [Tally!Next]_(Tally!vars)
  <2>1. /\ irq_enabled
        /\ encoder_state' = IF Counts(m) THEN Int8(encoder_state + m) ELSE encoder_state
        /\ event_cycle_counts' =
             IF Counts(m) THEN UInt16(event_cycle_counts + inactive_counter + 1)
             ELSE event_cycle_counts
        /\ UNCHANGED <<irq_enabled, pc, new_value, cycle_count, phase>>
    BY <1>1, ScanFacts DEF loop
  <2>2. CASE ~Started
    BY <2>1, <2>2 DEF Tally!vars, Started
  <2>3. CASE Started /\ ~Counts(m)
    BY <2>1, <2>3 DEF Tally!vars, Started, Taking
  <2>4. CASE Started /\ Counts(m)
    <3> DEFINE d == inactive_counter + 1
    <3>1. pc \in {"idle", "use"} /\ ~Taking /\ m \in {-1, 1}
      BY <1>0, <2>1, <2>4 DEF IrqGuard, Started, Taking, Counts, Moving
    <3>2. d \in Tally!Cycles \ {0}
      BY <1>0, InputAssumption DEF TypeOK, Tally!Cycles
    <3>3. /\ encoder_state' = ((encoder_state + m + StateHalf) % (2 * StateHalf)) - StateHalf
          /\ event_cycle_counts' = (event_cycle_counts + d) % CycleRange
      <4>1. event_cycle_counts + inactive_counter + 1 = event_cycle_counts + d
        BY <1>0, InputAssumption DEF TypeOK
      <4>2. QED BY <2>1, <2>4, <4>1 DEF Int8, UInt16
    <3>4. Tally!Add(m, d)
      BY <2>1, <2>4, <3>1, <3>3 DEF Tally!Add, Started, Taking
    <3>5. QED BY <3>1, <3>2, <3>4 DEF Tally!Next
  <2>5. QED BY <2>2, <2>3, <2>4
<1>2. CASE BeginRead
  BY <1>2 DEF BeginRead, Goto, Started, Taking, counted, Tally!vars
<1>3. CASE ReadValue
  <2>1. CASE Started
    <3>1. Tally!Take
      BY <1>0, <1>3, <2>1 DEF ReadValue, Goto, ReadIsAlone, Started, Taking, counted,
                              Tally!Take
    <3>2. QED BY <3>1 DEF Tally!Next
  <2>2. CASE ~Started
    BY <1>3, <2>2 DEF ReadValue, Started, Tally!vars
  <2>3. QED BY <2>1, <2>2
<1>4. CASE ClearValue
  BY <1>4 DEF ClearValue, Goto, Started, Taking, Tally!vars
<1>5. CASE ReadCycles
  BY <1>5 DEF ReadCycles, Goto, Started, Taking, counted, Tally!vars
<1>6. CASE ClearCycles
  BY <1>6 DEF ClearCycles, Goto, Started, Taking, Tally!vars
<1>7. CASE Use
  <2>1. CASE Started
    <3>1. Tally!Release
      BY <1>7, <2>1 DEF Use, Goto, Started, Taking, counted, Tally!Release
    <3>2. QED BY <3>1 DEF Tally!Next
  <2>2. CASE ~Started
    <3>1. encoder_state \in Tally!Steps /\ event_cycle_counts \in Tally!Cycles
      BY <1>0 DEF TypeOK, Int8Values, Tally!Steps, Tally!Cycles
    <3>2. Tally!Start
      BY <1>7, <2>2, <3>1 DEF Use, Goto, Started, Taking, counted, Tally!Start
    <3>3. QED BY <3>2 DEF Tally!Next
  <2>3. QED BY <2>1, <2>2
<1>8. CASE UNCHANGED vars
  BY <1>8 DEF vars, loop, counted, Started, Taking, Tally!vars
<1>9. QED
  BY <1>1, <1>2, <1>3, <1>4, <1>5, <1>6, <1>7, <1>8 DEF Next

-----------------------------------------------------------------------------
\* The invariant every other result rests on holds in every reachable state.
THEOREM Invariance == Spec => []BInv
<1>1. Init => BInv
  BY InitBInv
<1>2. BInv /\ [Next]_vars => BInv'
  BY NextBInv
<1>3. QED BY <1>1, <1>2, PTL DEF Spec

\* The counters stay in their widths, the pins in their cycle and the loop in its
\* places (input.c:289-424).
THEOREM TypeCorrect == Spec => []TypeOK
<1>1. BInv => TypeOK
  BY DEF BInv
<1>2. QED BY <1>1, Invariance, PTL

\* A bouncing contact is counted at most once, for any debounce time and any
\* number of bounces (input.c:355-368, 379-392).
THEOREM BouncesCountOnce == Spec => []BounceCountsOnce
<1>1. BInv => BounceCountsOnce
  BY DEF BInv
<1>2. QED BY <1>1, Invariance, PTL

\* As long as the steps between two reads fit the counter, an orderly movement is
\* read whole: no step is lost to the interrupt or counted twice (encoders.c:599).
THEOREM MovementIsRead ==
    ASSUME CountFits
    PROVE  Spec => []ReadsWholeMovement
<1>1. Init => CountIsMovement
  BY DEF Init, CountIsMovement
<1>2. BInv /\ CountIsMovement /\ [Next]_vars => CountIsMovement'
  BY NextCount
<1>3. CountIsMovement => ReadsWholeMovement
  BY DEF CountIsMovement, ReadsWholeMovement
<1>4. QED BY <1>1, <1>2, <1>3, Invariance, PTL DEF Spec

\* As long as their time fits its counter too, steps never come without the cycles
\* they took, by which the velocity is divided (encoders.c:550).
THEOREM TimeComesWithSteps ==
    ASSUME TimeFits
    PROVE  Spec => []StepsTakeTime
<1>1. Init => TimeCoversSteps
  BY DEF Init, TimeCoversSteps
<1>2. BInv /\ TimeCoversSteps /\ [Next]_vars => TimeCoversSteps'
  BY NextTime
<1>3. TimeCoversSteps => StepsTakeTime
  BY DEF TimeCoversSteps, StepsTakeTime, Covers
<1>4. QED BY <1>1, <1>2, <1>3, Invariance, PTL DEF Spec

\* Reading an encoder in four accesses implements the tally that is taken in one
\* step (input.c:410-424).
THEOREM Implementation == Spec => TakenWhole
<1>1. Init => Tally!Init
  BY DEF Init, Tally!Init, Started, Taking
<1>2. BInv /\ [Next]_vars => [Tally!Next]_(Tally!vars)
  BY StepIsTallyStep
<1>3. QED
  BY <1>1, <1>2, Invariance, PTL DEF Spec, TakenWhole, Tally!Spec
=============================================================================
