------------------------- MODULE SwitchInputProofs --------------------------
(***************************************************************************)
(* The debounced switch, for a buffer of any size: its state is one the    *)
(* switch had although the interrupt writes the buffer while it is read,   *)
(* no press is lost, and the edges tell the state.                         *)
(***************************************************************************)
EXTENDS SwitchInput, TLAPS

N == SWITCH_DEBOUNCE_BUFFER_SIZE

\* How many samples are younger than the one in slot s.
Age(s) == IF s < enc_switch_buffer_pos
          THEN enc_switch_buffer_pos - 1 - s
          ELSE enc_switch_buffer_pos - 1 - s + N

\* The slot written last.
Last == IF enc_switch_buffer_pos = 0 THEN N - 1 ELSE enc_switch_buffer_pos - 1

\* The ring and the count of open samples tell the same.
RingCounts ==
    /\ \A s \in Slots : Age(s) < quiet => ~enc_switch_debounce_buffer[s]
    /\ \A s \in Slots : Age(s) = quiet => enc_switch_debounce_buffer[s]

\* Some sample of the buffer b before slot k is closed.
ClosedBefore(b, k) == \E s \in Slots : s < k /\ b[s]

\* The buffer before slot Last was written.
Before(old) == [enc_switch_debounce_buffer EXCEPT ![Last] = old]

\* What the loop has read so far is part of the buffer as it is now.
SeesNow == g_enc_switch_state <=> ClosedBefore(enc_switch_debounce_buffer, i)

\* The scan came behind the loop: what it has read is part of the buffer as it
\* was before the scan, when the update began.
SeesBefore ==
    /\ Last < i
    /\ \E old \in BOOLEAN :
          /\ g_enc_switch_state <=> ClosedBefore(Before(old), i)
          /\ started < N <=> ClosedBefore(Before(old), N)

\* One of the two, as long as no second scan falls into the update.
SeesOneBuffer ==
    Updating /\ ScansPerUpdate <= 1 =>
        \/ SeesNow
        \/ within = 1 /\ SeesBefore

\* While the loop reads, quiet grows by at most one a scan.
StartedIsRecent ==
    Updating => /\ within = 0 => started = quiet
                /\ quiet <= started + within

\* What the loop has not looked at, in terms of quiet.
UnseenIsRecent ==
    /\ unseen.closed /\ unseen.scans < N => quiet < unseen.scans
    /\ Updating /\ unseen.due => started < N - 1

\* The follower of the edges knows the state before this update.
FollowerKnows ==
    /\ held = g_enc_prev_switch_state
    /\ i = Idle => g_enc_prev_switch_state = g_enc_switch_state

IInv ==
    /\ TypeOK
    /\ RingCounts
    /\ SeesOneBuffer
    /\ StartedIsRecent
    /\ UnseenIsRecent
    /\ FollowerKnows

-----------------------------------------------------------------------------
\* The position moves to the next slot and from the last one to the first.
LEMMA NextSlotFacts ==
    ASSUME TypeOK
    PROVE  NextSlot = IF enc_switch_buffer_pos = N - 1 THEN 0
                      ELSE enc_switch_buffer_pos + 1
<1> USE SwitchAssumption DEF N, Slots
<1>1. N \in Nat /\ N >= 2 /\ enc_switch_buffer_pos \in 0..(N - 1)
  BY DEF TypeOK
<1>2. CASE enc_switch_buffer_pos = N - 1
  <2>1. NextSlot = N % N
    BY <1>1, <1>2 DEF NextSlot
  <2>2. QED BY <1>1, <1>2, <2>1
<1>3. CASE enc_switch_buffer_pos # N - 1
  <2>1. enc_switch_buffer_pos + 1 \in 0..(N - 1)
    BY <1>1, <1>3
  <2>2. QED BY <1>1, <1>3, <2>1 DEF NextSlot
<1>4. QED BY <1>2, <1>3

\* Every slot has an age below N, and every such age belongs to a slot.
LEMMA AgeFacts ==
    ASSUME TypeOK
    PROVE  /\ \A s \in Slots : Age(s) \in 0..(N - 1)
           /\ \A a \in 0..(N - 1) : \E s \in Slots : Age(s) = a
           /\ N \in Nat /\ N >= 2 /\ Slots = 0..(N - 1)
           /\ enc_switch_buffer_pos \in Slots /\ Last \in Slots
<1> USE SwitchAssumption DEF N, Slots
<1>1. N \in Nat /\ N >= 2 /\ enc_switch_buffer_pos \in 0..(N - 1)
  BY DEF TypeOK
<1>2. \A s \in Slots : Age(s) \in 0..(N - 1)
  BY <1>1 DEF Age
<1>3. ASSUME NEW a \in 0..(N - 1) PROVE \E s \in Slots : Age(s) = a
  <2> DEFINE s == IF a < enc_switch_buffer_pos THEN enc_switch_buffer_pos - 1 - a
                  ELSE enc_switch_buffer_pos - 1 - a + N
  <2>1. s \in Slots /\ Age(s) = a
    BY <1>1 DEF Age
  <2>2. QED BY <2>1
<1>4. Last \in Slots
  BY <1>1 DEF Last
<1>5. QED BY <1>1, <1>2, <1>3, <1>4

\* A scan makes the slot it writes the youngest and the others older by one.
LEMMA ScanAges ==
    ASSUME TypeOK, NEW closed \in BOOLEAN, encoder_scan(closed)
    PROVE  /\ \A s \in Slots : Age(s)' = IF s = enc_switch_buffer_pos THEN 0
                                         ELSE Age(s) + 1
           /\ Last' = enc_switch_buffer_pos
           /\ Age(enc_switch_buffer_pos) = N - 1
           /\ enc_switch_buffer_pos' \in Slots
<1>1. N \in Nat /\ N >= 2 /\ Slots = 0..(N - 1) /\ enc_switch_buffer_pos \in Slots
  BY AgeFacts
<1>2. enc_switch_buffer_pos' = IF enc_switch_buffer_pos = N - 1 THEN 0
                               ELSE enc_switch_buffer_pos + 1
  BY NextSlotFacts DEF encoder_scan
<1>3. N' = N
  BY DEF N
<1>4. \A s \in Slots : Age(s)' = IF s = enc_switch_buffer_pos THEN 0 ELSE Age(s) + 1
  BY <1>1, <1>2, <1>3 DEF Age
<1>5. Last' = enc_switch_buffer_pos
  BY <1>1, <1>2, <1>3 DEF Last
<1>6. Age(enc_switch_buffer_pos) = N - 1
  BY <1>1 DEF Age
<1>7. QED BY <1>1, <1>2, <1>4, <1>5, <1>6

\* Some sample in the ring is closed exactly if quiet says so.
LEMMA RingTells ==
    ASSUME TypeOK, RingCounts
    PROVE  quiet < N <=> ClosedBefore(enc_switch_debounce_buffer, N)
<1>1. quiet \in 0..N /\ N \in Nat /\ Slots = 0..(N - 1)
  BY AgeFacts DEF TypeOK, Scans, N
<1>2. ASSUME quiet < N PROVE ClosedBefore(enc_switch_debounce_buffer, N)
  <2>1. PICK s \in Slots : Age(s) = quiet
    BY <1>1, <1>2, AgeFacts
  <2>2. s < N /\ enc_switch_debounce_buffer[s]
    BY <1>1, <2>1 DEF RingCounts
  <2>3. QED BY <2>2 DEF ClosedBefore
<1>3. ASSUME ~(quiet < N), NEW s \in Slots PROVE ~enc_switch_debounce_buffer[s]
  BY <1>1, <1>3, AgeFacts DEF RingCounts
<1>4. QED BY <1>2, <1>3 DEF ClosedBefore

-----------------------------------------------------------------------------
\* A ring of open samples satisfies the invariant.
LEMMA InitIInv == Init => IInv
<1> SUFFICES ASSUME Init PROVE IInv
  OBVIOUS
<1>1. N \in Nat /\ N >= 2 /\ Slots = 0..(N - 1) /\ ScansPerUpdate \in Nat
  BY SwitchAssumption DEF N, Slots
<1>2. TypeOK
  <2>1. unseen \in [closed : BOOLEAN, scans : Scans, due : BOOLEAN]
    BY <1>1 DEF Init, Scans, N
  <2>2. enc_switch_debounce_buffer \in [Slots -> BOOLEAN]
    BY DEF Init
  <2>3. /\ quiet \in Scans /\ started \in Scans /\ within \in 0..ScansPerUpdate
        /\ enc_switch_buffer_pos \in Slots
    BY <1>1 DEF Init, Scans, N
  <2>4. QED BY <2>1, <2>2, <2>3 DEF Init, TypeOK
<1>3. RingCounts
  BY <1>1, <1>2, AgeFacts DEF Init, RingCounts, N
<1>4. SeesOneBuffer /\ StartedIsRecent /\ UnseenIsRecent /\ FollowerKnows
  BY DEF Init, SeesOneBuffer, StartedIsRecent, UnseenIsRecent, FollowerKnows, Updating
<1>5. QED BY <1>2, <1>3, <1>4 DEF IInv

\* What a scan does to the sample counts, in one place.
LEMMA ScanCounts ==
    ASSUME TypeOK, NEW closed \in BOOLEAN, encoder_scan(closed)
    PROVE  /\ quiet' = IF closed THEN 0 ELSE IF quiet < N THEN quiet + 1 ELSE quiet
           /\ within' = IF Updating THEN within + 1 ELSE within
           /\ Updating => within < ScansPerUpdate
           /\ unseen'.closed = (unseen.closed \/ closed)
           /\ unseen'.scans = IF unseen.scans < N THEN unseen.scans + 1 ELSE unseen.scans
           /\ unseen'.due = unseen.due
           /\ unseen' \in [closed : BOOLEAN, scans : Scans, due : BOOLEAN]
           /\ started' = started /\ i' = i /\ Updating' = Updating
           /\ quiet \in 0..N /\ started \in 0..N /\ within \in 0..ScansPerUpdate
           /\ unseen.scans \in 0..N /\ N \in Nat /\ N' = N
<1>1. N \in Nat /\ N >= 2
  BY SwitchAssumption DEF N
<1>2. /\ quiet \in 0..N /\ started \in 0..N /\ within \in 0..ScansPerUpdate
      /\ unseen.scans \in 0..N /\ unseen.closed \in BOOLEAN /\ unseen.due \in BOOLEAN
      /\ unseen \in [closed : BOOLEAN, scans : 0..N, due : BOOLEAN]
  BY DEF TypeOK, Scans, N
<1>3. unseen' = [closed |-> unseen.closed \/ closed,
                 scans |-> IF unseen.scans < N THEN unseen.scans + 1 ELSE unseen.scans,
                 due |-> unseen.due]
  BY <1>2, Zenon DEF encoder_scan, N
<1>4. /\ unseen'.closed = (unseen.closed \/ closed)
      /\ unseen'.scans = IF unseen.scans < N THEN unseen.scans + 1 ELSE unseen.scans
      /\ unseen'.due = unseen.due
  BY <1>3
<1>5. unseen' \in [closed : BOOLEAN, scans : Scans, due : BOOLEAN]
  BY <1>1, <1>2, <1>3 DEF Scans, N
<1>6. QED BY <1>1, <1>2, <1>4, <1>5, Zenon DEF encoder_scan, Updating, N

\* The ring keeps telling what quiet tells.
LEMMA ScanRing ==
    ASSUME TypeOK, RingCounts, NEW closed \in BOOLEAN, encoder_scan(closed)
    PROVE  RingCounts'
<1>1. /\ quiet' = IF closed THEN 0 ELSE IF quiet < N THEN quiet + 1 ELSE quiet
      /\ quiet \in 0..N /\ N \in Nat /\ N >= 2
  BY ScanCounts, AgeFacts
<1>2. SUFFICES ASSUME NEW s \in Slots
               PROVE  /\ Age(s)' < quiet' => ~enc_switch_debounce_buffer'[s]
                      /\ Age(s)' = quiet' => enc_switch_debounce_buffer'[s]
  BY DEF RingCounts, Slots
<1>3. enc_switch_debounce_buffer'[s] =
        IF s = enc_switch_buffer_pos THEN closed ELSE enc_switch_debounce_buffer[s]
  BY DEF encoder_scan, TypeOK
<1>4. /\ Age(s)' = IF s = enc_switch_buffer_pos THEN 0 ELSE Age(s) + 1
      /\ Age(s) \in 0..(N - 1) /\ Age(enc_switch_buffer_pos) = N - 1
  BY ScanAges, AgeFacts
<1>5. CASE s = enc_switch_buffer_pos
  BY <1>1, <1>3, <1>4, <1>5
<1>6. CASE s # enc_switch_buffer_pos
  <2>1. Age(s) < N - 1
    BY <1>4, <1>6, AgeFacts DEF Age, TypeOK
  <2>2. /\ Age(s) < quiet => ~enc_switch_debounce_buffer[s]
        /\ Age(s) = quiet => enc_switch_debounce_buffer[s]
    BY DEF RingCounts
  <2>3. QED BY <1>1, <1>3, <1>4, <1>6, <2>1, <2>2
<1>7. QED BY <1>5, <1>6

\* A scan during the update lands behind the loop or before it.
LEMMA ScanSees ==
    ASSUME IInv, NEW closed \in BOOLEAN, encoder_scan(closed)
    PROVE  SeesOneBuffer'
<1>1. TypeOK /\ RingCounts /\ SeesOneBuffer /\ StartedIsRecent
  BY DEF IInv
<1>2. /\ i' = i /\ started' = started /\ Updating' = Updating /\ N' = N
      /\ within \in 0..ScansPerUpdate
      /\ within' = IF Updating THEN within + 1 ELSE within
      /\ Updating => within < ScansPerUpdate
      /\ g_enc_switch_state' = g_enc_switch_state
  BY <1>1, ScanCounts DEF encoder_scan
<1>3. SUFFICES ASSUME Updating, ScansPerUpdate <= 1
               PROVE  SeesNow' \/ (within' = 1 /\ SeesBefore')
  BY <1>2 DEF SeesOneBuffer
<1>4. within = 0 /\ within' = 1 /\ started = quiet /\ SeesNow
  BY <1>1, <1>2, <1>3, SwitchAssumption DEF SeesOneBuffer, StartedIsRecent
<1> DEFINE p == enc_switch_buffer_pos
           b == enc_switch_debounce_buffer
<1>5. /\ p \in Slots /\ b \in [Slots -> BOOLEAN] /\ b' = [b EXCEPT ![p] = closed]
      /\ Last' = p /\ Slots = 0..(N - 1) /\ N \in Nat
      /\ i \in Slots \cup {N}
  BY <1>1, <1>3, AgeFacts, ScanAges DEF TypeOK, encoder_scan, Updating, N
<1>6. CASE p < i
  <2>1. PICK old \in BOOLEAN : old = b[p]
    BY <1>5
  <2>2. Before(old)' = b
    BY <1>5, <2>1 DEF Before
  <2>3. g_enc_switch_state' <=> ClosedBefore(Before(old), i)'
    BY <1>2, <1>4, <2>2 DEF SeesNow, ClosedBefore, Slots
  <2>4. (started < N <=> ClosedBefore(Before(old), N))'
    BY <1>1, <1>2, <1>4, <2>2, RingTells DEF ClosedBefore, Slots
  <2>5. (Last < i)'
    BY <1>2, <1>5, <1>6
  <2>6. SeesBefore'
    BY <2>3, <2>4, <2>5 DEF SeesBefore
  <2>7. QED BY <1>4, <2>6
<1>7. CASE ~(p < i)
  <2>1. \A s \in Slots : s < i => b'[s] = b[s]
    BY <1>5, <1>7
  <2>2. ClosedBefore(b', i') <=> ClosedBefore(b, i)
    BY <1>2, <2>1 DEF ClosedBefore
  <2>3. QED BY <1>2, <1>4, <2>2 DEF SeesNow, ClosedBefore
<1>8. QED BY <1>6, <1>7

\* A scan at any point of an update keeps the invariant.
LEMMA ScanIInv ==
    ASSUME IInv, NEW closed \in BOOLEAN, encoder_scan(closed)
    PROVE  IInv'
<1>1. TypeOK /\ RingCounts /\ StartedIsRecent /\ UnseenIsRecent /\ FollowerKnows
  BY DEF IInv
<1>2. TypeOK'
  <2>1. /\ unseen' \in [closed : BOOLEAN, scans : Scans, due : BOOLEAN]
        /\ quiet' \in Scans /\ within' \in 0..ScansPerUpdate
    BY <1>1, ScanCounts, SwitchAssumption DEF Scans, N
  <2>2. enc_switch_debounce_buffer' \in [Slots -> BOOLEAN]
    BY <1>1 DEF TypeOK, encoder_scan
  <2>3. enc_switch_buffer_pos' \in Slots
    BY <1>1, ScanAges
  <2>4. UNCHANGED <<i, g_enc_switch_state, g_enc_prev_switch_state, g_enc_switch_up,
                    g_enc_switch_down, started, held>>
    BY DEF encoder_scan, edges
  <2>5. QED BY <1>1, <2>1, <2>2, <2>3, <2>4 DEF TypeOK
<1>3. RingCounts'
  BY <1>1, ScanRing
<1>4. SeesOneBuffer'
  BY ScanSees
<1>5. StartedIsRecent'
  BY <1>1, ScanCounts DEF StartedIsRecent, Updating
<1>6. UnseenIsRecent'
  BY <1>1, ScanCounts DEF UnseenIsRecent, Updating
<1>7. FollowerKnows'
  BY <1>1 DEF FollowerKnows, encoder_scan, edges, Idle
<1>8. QED BY <1>2, <1>3, <1>4, <1>5, <1>6, <1>7 DEF IInv

\* The loop begins with the ring as it is.
LEMMA BeginIInv == IInv /\ BeginUpdate => IInv'
<1> SUFFICES ASSUME IInv, BeginUpdate PROVE IInv'
  OBVIOUS
<1>1. TypeOK /\ RingCounts /\ UnseenIsRecent /\ FollowerKnows
  BY DEF IInv
<1>2. /\ i = Idle /\ i' = 0 /\ g_enc_switch_state' = FALSE
      /\ started' = quiet /\ within' = 0 /\ quiet' = quiet
      /\ unseen' = [closed |-> FALSE, scans |-> 0,
                    due |-> unseen.closed /\ unseen.scans < N]
      /\ UNCHANGED <<enc_switch_debounce_buffer, enc_switch_buffer_pos,
                     g_enc_prev_switch_state, g_enc_switch_up, g_enc_switch_down, held>>
  BY DEF BeginUpdate, ring, edges, N
<1>3. N \in Nat /\ N >= 2 /\ Slots = 0..(N - 1) /\ N' = N
  BY <1>1, AgeFacts DEF N
<1>4. TypeOK'
  <2>1. unseen' \in [closed : BOOLEAN, scans : Scans, due : BOOLEAN]
    <3>1. (unseen.closed /\ unseen.scans < N) \in BOOLEAN
      OBVIOUS
    <3>2. QED BY <1>2, <1>3, <3>1 DEF Scans, N
  <2>2. i' \in Slots /\ started' \in Scans /\ within' \in 0..ScansPerUpdate
    BY <1>1, <1>2, <1>3, SwitchAssumption DEF TypeOK
  <2>3. QED BY <1>1, <1>2, <2>1, <2>2 DEF TypeOK
<1>5. RingCounts'
  BY <1>1, <1>2, <1>3 DEF RingCounts, Age, Slots
<1>6. SeesOneBuffer'
  BY <1>2, <1>3 DEF SeesOneBuffer, SeesNow, ClosedBefore, Slots
<1>7. StartedIsRecent'
  BY <1>1, <1>2, <1>3 DEF StartedIsRecent, TypeOK, Scans, N
<1>8. UnseenIsRecent'
  <2>1. unseen'.closed = FALSE /\ unseen'.due = (unseen.closed /\ unseen.scans < N)
    BY <1>2
  <2>2. unseen.scans \in 0..N /\ quiet \in 0..N
    BY <1>1 DEF TypeOK, Scans, N
  <2>3. ASSUME unseen'.due PROVE started' < N - 1
    <3>1. unseen.closed /\ unseen.scans < N
      BY <2>1, <2>3, Zenon
    <3>2. quiet < unseen.scans
      BY <1>1, <3>1 DEF UnseenIsRecent
    <3>3. QED BY <1>2, <1>3, <2>2, <3>1, <3>2
  <2>4. QED BY <1>3, <2>1, <2>3 DEF UnseenIsRecent
<1>9. FollowerKnows'
  BY <1>1, <1>2 DEF FollowerKnows, Idle
<1>10. QED BY <1>4, <1>5, <1>6, <1>7, <1>8, <1>9 DEF IInv

\* The loop goes on from slot i to the next.
LEMMA ClosedBeforeNext ==
    ASSUME TypeOK, i \in Slots, NEW b \in [Slots -> BOOLEAN]
    PROVE  ClosedBefore(b, i + 1) <=> ClosedBefore(b, i) \/ b[i]
<1>1. N \in Nat /\ Slots = 0..(N - 1)
  BY AgeFacts
<1>2. \A s \in Slots : s < i + 1 <=> s < i \/ s = i
  BY <1>1
<1>3. QED BY <1>2 DEF ClosedBefore

\* Reading one more slot keeps the invariant.
LEMMA OrSlotIInv == IInv /\ OrSlot => IInv'
<1> SUFFICES ASSUME IInv, OrSlot PROVE IInv'
  OBVIOUS
<1>1. /\ TypeOK /\ RingCounts /\ SeesOneBuffer /\ StartedIsRecent
      /\ UnseenIsRecent /\ FollowerKnows
  BY DEF IInv
<1>2. /\ i \in Slots /\ i' = i + 1
      /\ g_enc_switch_state' = (g_enc_switch_state \/ enc_switch_debounce_buffer[i])
      /\ UNCHANGED <<enc_switch_debounce_buffer, enc_switch_buffer_pos,
                     g_enc_prev_switch_state, g_enc_switch_up, g_enc_switch_down, held,
                     quiet, started, within, unseen>>
  BY DEF OrSlot, ring, edges, seen
<1>3. N \in Nat /\ Slots = 0..(N - 1) /\ N' = N /\ Last' = Last /\ Last \in Slots
  BY <1>1, <1>2, AgeFacts DEF N, Last
<1>4. Updating /\ Updating'
  BY <1>2, <1>3 DEF Updating, Idle
<1>5. enc_switch_debounce_buffer \in [Slots -> BOOLEAN]
  BY <1>1 DEF TypeOK
<1>6. TypeOK'
  <2>1. i' \in Slots \cup {Idle, SWITCH_DEBOUNCE_BUFFER_SIZE}
    BY <1>2, <1>3 DEF N
  <2>2. g_enc_switch_state' \in BOOLEAN
    BY <1>2
  <2>3. QED BY <1>1, <1>2, <2>1, <2>2 DEF TypeOK
<1>7. RingCounts'
  BY <1>1, <1>2, <1>3 DEF RingCounts, Age, Slots
<1>8. SeesOneBuffer'
  <2>1. CASE SeesNow
    <3>1. ClosedBefore(enc_switch_debounce_buffer, i + 1) <=>
            ClosedBefore(enc_switch_debounce_buffer, i) \/ enc_switch_debounce_buffer[i]
      BY <1>1, <1>2, <1>5, ClosedBeforeNext
    <3>2. g_enc_switch_state' <=> ClosedBefore(enc_switch_debounce_buffer, i + 1)
      BY <1>2, <2>1, <3>1 DEF SeesNow
    <3>3. SeesNow'
      BY <1>2, <3>2 DEF SeesNow, ClosedBefore, Slots
    <3>4. QED BY <3>3 DEF SeesOneBuffer
  <2>2. CASE within = 1 /\ SeesBefore
    <3>1. PICK old \in BOOLEAN :
            /\ g_enc_switch_state <=> ClosedBefore(Before(old), i)
            /\ started < N <=> ClosedBefore(Before(old), N)
      BY <2>2 DEF SeesBefore
    <3>2. /\ Before(old) \in [Slots -> BOOLEAN]
          /\ Before(old)[i] = enc_switch_debounce_buffer[i]
      BY <1>2, <1>3, <1>5, <2>2 DEF Before, SeesBefore
    <3>3. ClosedBefore(Before(old), i + 1) <=>
            ClosedBefore(Before(old), i) \/ enc_switch_debounce_buffer[i]
      BY <1>1, <1>2, <3>2, ClosedBeforeNext
    <3>4. g_enc_switch_state' <=> ClosedBefore(Before(old), i + 1)
      BY <1>2, <3>1, <3>3
    <3>5. Before(old)' = Before(old)
      BY <1>2, <1>3 DEF Before
    <3>6. (Last < i)'
      BY <1>2, <1>3, <2>2 DEF SeesBefore
    <3>7. SeesBefore'
      <4>1. (g_enc_switch_state <=> ClosedBefore(Before(old), i))'
        BY <1>2, <3>4, <3>5 DEF ClosedBefore, Slots
      <4>2. (started < N <=> ClosedBefore(Before(old), N))'
        BY <1>2, <1>3, <3>1, <3>5 DEF ClosedBefore, Slots
      <4>3. QED BY <3>6, <4>1, <4>2 DEF SeesBefore
    <3>8. QED BY <1>2, <2>2, <3>7 DEF SeesOneBuffer
  <2>3. QED BY <1>1, <1>4, <2>1, <2>2 DEF SeesOneBuffer
<1>9. StartedIsRecent' /\ UnseenIsRecent'
  BY <1>1, <1>2, <1>3, <1>4 DEF StartedIsRecent, UnseenIsRecent
<1>10. FollowerKnows'
  BY <1>1, <1>2, <1>3 DEF FollowerKnows, Idle
<1>11. QED BY <1>6, <1>7, <1>8, <1>9, <1>10 DEF IInv

\* Whoever applies the edges to the previous state gets the state.
LEMMA EdgesIInv == IInv /\ FindEdges => IInv'
<1> SUFFICES ASSUME IInv, FindEdges PROVE IInv'
  OBVIOUS
<1>1. TypeOK /\ RingCounts /\ UnseenIsRecent /\ FollowerKnows
  BY DEF IInv
<1>2. /\ i' = Idle
      /\ g_enc_switch_up' = (g_enc_prev_switch_state /\ ~g_enc_switch_state)
      /\ g_enc_switch_down' = (~g_enc_prev_switch_state /\ g_enc_switch_state)
      /\ held' = ((held \/ g_enc_switch_down') /\ ~g_enc_switch_up')
      /\ g_enc_prev_switch_state' = g_enc_switch_state
      /\ UNCHANGED <<enc_switch_debounce_buffer, enc_switch_buffer_pos,
                     g_enc_switch_state, quiet, started, within, unseen>>
  BY DEF FindEdges, ring, seen
<1>3. /\ held \in BOOLEAN /\ g_enc_prev_switch_state \in BOOLEAN
      /\ g_enc_switch_state \in BOOLEAN
  BY <1>1 DEF TypeOK
<1>4. TypeOK'
  BY <1>1, <1>2, <1>3 DEF TypeOK
<1>5. RingCounts'
  BY <1>1, <1>2 DEF RingCounts, Age, Slots, N
<1>6. SeesOneBuffer' /\ StartedIsRecent'
  BY <1>2 DEF SeesOneBuffer, StartedIsRecent, Updating, Idle
<1>7. UnseenIsRecent'
  BY <1>1, <1>2 DEF UnseenIsRecent, Updating, Idle, N
<1>8. FollowerKnows'
  <2>1. held = g_enc_prev_switch_state
    BY <1>1 DEF FollowerKnows
  <2>2. held' = g_enc_switch_state
    BY <1>2, <1>3, <2>1
  <2>3. QED BY <1>2, <2>2 DEF FollowerKnows
<1>9. QED BY <1>4, <1>5, <1>6, <1>7, <1>8 DEF IInv

\* Every step keeps the invariant.
LEMMA NextIInv == IInv /\ [Next]_vars => IInv'
<1> SUFFICES ASSUME IInv, [Next]_vars PROVE IInv'
  OBVIOUS
<1>1. ASSUME NEW closed \in BOOLEAN, encoder_scan(closed) PROVE IInv'
  BY <1>1, ScanIInv
<1>2. CASE BeginUpdate
  BY <1>2, BeginIInv
<1>3. CASE OrSlot
  BY <1>3, OrSlotIInv
<1>4. CASE FindEdges
  BY <1>4, EdgesIInv
<1>5. CASE UNCHANGED vars
  BY <1>5 DEF vars, ring, edges, seen, IInv, TypeOK, RingCounts, Age, SeesOneBuffer,
    SeesNow, SeesBefore, ClosedBefore, Before, Last, StartedIsRecent, UnseenIsRecent,
    FollowerKnows, Updating, N, Slots
<1>6. QED BY <1>1, <1>2, <1>3, <1>4, <1>5 DEF Next

-----------------------------------------------------------------------------
\* What the loop has read is the buffer of one moment, and the ring tells what
\* quiet told at that moment.
LEMMA MomentFacts == IInv /\ ScansPerUpdate <= 1 => ReportsAMoment
<1> SUFFICES ASSUME IInv, ScansPerUpdate <= 1, i = N
             PROVE  g_enc_switch_state \in {started < N, quiet < N}
  BY DEF ReportsAMoment, N
<1>1. TypeOK /\ RingCounts /\ SeesOneBuffer
  BY DEF IInv
<1>2. N \in Nat /\ Updating /\ g_enc_switch_state \in BOOLEAN
  BY <1>1, AgeFacts DEF Updating, Idle, TypeOK
<1>3. CASE SeesNow
  <2>1. g_enc_switch_state <=> quiet < N
    BY <1>1, <1>3, RingTells DEF SeesNow
  <2>2. QED BY <1>2, <2>1
<1>4. CASE SeesBefore
  <2>1. g_enc_switch_state <=> started < N
    BY <1>4 DEF SeesBefore
  <2>2. QED BY <1>2, <2>1
<1>5. QED BY <1>1, <1>2, <1>3, <1>4 DEF SeesOneBuffer

\* A closed sample that is due was young enough at the start of the update to
\* be still in the ring after the one scan that may follow.
LEMMA PressFacts == IInv /\ ScansPerUpdate <= 1 => NoPressLost
<1> SUFFICES ASSUME IInv, ScansPerUpdate <= 1, i = N, unseen.due
             PROVE  g_enc_switch_state
  BY DEF NoPressLost, N
<1>1. TypeOK /\ StartedIsRecent /\ UnseenIsRecent
  BY DEF IInv
<1>2. /\ N \in Nat /\ Updating /\ within \in 0..ScansPerUpdate
      /\ quiet \in Nat /\ started \in Nat
  BY <1>1, AgeFacts DEF Updating, Idle, TypeOK, Scans, N
<1>3. started < N - 1 /\ quiet <= started + within /\ within <= 1
  BY <1>1, <1>2, SwitchAssumption DEF StartedIsRecent, UnseenIsRecent
<1>4. started < N /\ quiet < N
  BY <1>2, <1>3
<1>5. g_enc_switch_state \in {started < N, quiet < N}
  BY MomentFacts DEF ReportsAMoment, N
<1>6. QED BY <1>4, <1>5

\* The inductive invariant holds in every reachable state.
THEOREM Invariance == Spec => []IInv
<1>1. Init => IInv
  BY InitIInv
<1>2. IInv /\ [Next]_vars => IInv'
  BY NextIInv
<1>3. QED BY <1>1, <1>2, PTL DEF Spec

\* Every variable of the debouncer holds a value of its type, the position and
\* the loop's place stay in the ring (input.c:430-449).
THEOREM TypeCorrect == Spec => []TypeOK
<1>1. IInv => TypeOK
  BY DEF IInv
<1>2. QED BY <1>1, Invariance, PTL

\* As long as at most one scan falls into an update, the state the loop arrives
\* at is the debounced state of one moment, for a ring of any size, although the
\* ring is read with interrupts enabled (input.c:437-439).
THEOREM OneMoment ==
    ASSUME ScansPerUpdate <= 1
    PROVE  Spec => []ReportsAMoment
<1>1. IInv => ReportsAMoment
  BY MomentFacts
<1>2. QED BY <1>1, Invariance, PTL

\* Under the same condition, a loop that comes round before the ring has gone
\* round once reports every closed sample (input.c:433).
THEOREM EveryPressReported ==
    ASSUME ScansPerUpdate <= 1
    PROVE  Spec => []NoPressLost
<1>1. IInv => NoPressLost
  BY PressFacts
<1>2. QED BY <1>1, Invariance, PTL

\* However many scans come, whoever follows the edges alone knows the debounced
\* state between updates (input.c:441-446).
THEOREM FollowersKnow == Spec => []EdgesTellState
<1>1. IInv => EdgesTellState
  BY DEF IInv, FollowerKnows, EdgesTellState
<1>2. QED BY <1>1, Invariance, PTL

=============================================================================
