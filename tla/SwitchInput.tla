---------------------------- MODULE SwitchInput -----------------------------
(***************************************************************************)
(* One encoder push switch (input.c).  The scan interrupt writes its       *)
(* sample into a circular buffer; the main loop ORs the slots one after    *)
(* the other, without disabling interrupts, and derives the press and      *)
(* release edges.  The switches are independent bits of one word.          *)
(***************************************************************************)
EXTENDS Integers

CONSTANTS
    SWITCH_DEBOUNCE_BUFFER_SIZE,    \* 10
    ScansPerUpdate  \* bound: scans while the slots are read.  A scan comes
                    \* every 1.28 ms and the loop takes microseconds: 1

ASSUME SwitchAssumption ==
    /\ SWITCH_DEBOUNCE_BUFFER_SIZE \in Nat \ {0, 1}
    /\ ScansPerUpdate \in Nat

Slots == 0..(SWITCH_DEBOUNCE_BUFFER_SIZE - 1)

VARIABLES
    enc_switch_debounce_buffer, enc_switch_buffer_pos,
    i,          \* the main loop's place in the buffer, or where it rests
    g_enc_switch_state, g_enc_prev_switch_state,
    g_enc_switch_up, g_enc_switch_down,
    quiet,      \* history: open samples since the last closed one
    started,    \* history: quiet when the update began
    within,     \* history: scans since the update began
    held,       \* history: the state a follower of the edges believes in
    unseen      \* history: closed samples the main loop has not looked at,
                \* the ones it must report now, and scans since it last looked

ring    == <<enc_switch_debounce_buffer, enc_switch_buffer_pos>>
edges   == <<g_enc_prev_switch_state, g_enc_switch_up, g_enc_switch_down>>
seen    == <<quiet, started, within, unseen>>
vars    == <<ring, i, g_enc_switch_state, edges, held, seen>>

Idle    == -1
Updating == i # Idle

\* Mutant: the position wraps one slot late.
NextSlotLate == (enc_switch_buffer_pos + 1) % (SWITCH_DEBOUNCE_BUFFER_SIZE + 1)

\* Mutant: the position wraps one slot early.
NextSlotShort == (enc_switch_buffer_pos + 1) % (SWITCH_DEBOUNCE_BUFFER_SIZE - 1)

NextSlot == (enc_switch_buffer_pos + 1) % SWITCH_DEBOUNCE_BUFFER_SIZE

\* The interrupt samples the switch.
encoder_scan(closed) ==
    /\ Updating => within < ScansPerUpdate
    /\ enc_switch_debounce_buffer' =
         [enc_switch_debounce_buffer EXCEPT ![enc_switch_buffer_pos] = closed]
    /\ enc_switch_buffer_pos' = NextSlot
    /\ quiet' = IF closed THEN 0
                ELSE IF quiet < SWITCH_DEBOUNCE_BUFFER_SIZE THEN quiet + 1 ELSE quiet
    /\ within' = IF Updating THEN within + 1 ELSE within
    /\ unseen' = [unseen EXCEPT !.closed = @ \/ closed,
                                !.scans = IF @ < SWITCH_DEBOUNCE_BUFFER_SIZE
                                          THEN @ + 1 ELSE @]
    /\ UNCHANGED <<i, g_enc_switch_state, edges, started, held>>

\* update_encoder_switch_state: g_enc_switch_state = 0 ...
BeginUpdate ==
    /\ i = Idle
    /\ i' = 0
    /\ g_enc_switch_state' = FALSE
    /\ started' = quiet
    /\ within' = 0
    /\ unseen' = [closed |-> FALSE, scans |-> 0,
                  due |-> unseen.closed /\ unseen.scans < SWITCH_DEBOUNCE_BUFFER_SIZE]
    /\ UNCHANGED <<ring, edges, quiet, held>>

\* Mutant: the last slot is left out.
OrSlotShort ==
    /\ i \in Slots
    /\ g_enc_switch_state' = (g_enc_switch_state \/
         (i < SWITCH_DEBOUNCE_BUFFER_SIZE - 1 /\ enc_switch_debounce_buffer[i]))
    /\ i' = i + 1
    /\ UNCHANGED <<ring, edges, held, seen>>

\* ... g_enc_switch_state |= enc_switch_debounce_buffer[i] ...
OrSlot ==
    /\ i \in Slots
    /\ g_enc_switch_state' = (g_enc_switch_state \/ enc_switch_debounce_buffer[i])
    /\ i' = i + 1
    /\ UNCHANGED <<ring, edges, held, seen>>

\* Mutant: the state is not demoted to history.
FindEdgesUndemoted ==
    /\ i = SWITCH_DEBOUNCE_BUFFER_SIZE
    /\ i' = Idle
    /\ g_enc_switch_up' = (g_enc_prev_switch_state /\ ~g_enc_switch_state)
    /\ g_enc_switch_down' = (~g_enc_prev_switch_state /\ g_enc_switch_state)
    /\ held' = ((held \/ g_enc_switch_down') /\ ~g_enc_switch_up')
    /\ UNCHANGED <<ring, g_enc_switch_state, g_enc_prev_switch_state, seen>>

\* ... and the edges against the previous state.
FindEdges ==
    /\ i = SWITCH_DEBOUNCE_BUFFER_SIZE
    /\ i' = Idle
    /\ g_enc_switch_up' = (g_enc_prev_switch_state /\ ~g_enc_switch_state)
    /\ g_enc_switch_down' = (~g_enc_prev_switch_state /\ g_enc_switch_state)
    /\ held' = ((held \/ g_enc_switch_down') /\ ~g_enc_switch_up')
    /\ g_enc_prev_switch_state' = g_enc_switch_state
    /\ UNCHANGED <<ring, g_enc_switch_state, seen>>

Init ==
    /\ enc_switch_debounce_buffer = [s \in Slots |-> FALSE]
    /\ enc_switch_buffer_pos = 0
    /\ i = Idle
    /\ g_enc_switch_state = FALSE /\ g_enc_prev_switch_state = FALSE
    /\ g_enc_switch_up = FALSE /\ g_enc_switch_down = FALSE /\ held = FALSE
    /\ quiet = SWITCH_DEBOUNCE_BUFFER_SIZE
    /\ started = SWITCH_DEBOUNCE_BUFFER_SIZE
    /\ within = 0
    /\ unseen = [closed |-> FALSE, scans |-> 0, due |-> FALSE]

Next ==
    \/ \E closed \in BOOLEAN : encoder_scan(closed)
    \/ BeginUpdate
    \/ OrSlot
    \/ FindEdges

Spec == Init /\ [][Next]_vars

-----------------------------------------------------------------------------
Scans == 0..SWITCH_DEBOUNCE_BUFFER_SIZE

TypeOK ==
    /\ enc_switch_debounce_buffer \in [Slots -> BOOLEAN]
    /\ enc_switch_buffer_pos \in Slots
    /\ i \in Slots \cup {Idle, SWITCH_DEBOUNCE_BUFFER_SIZE}
    /\ g_enc_switch_state \in BOOLEAN /\ g_enc_prev_switch_state \in BOOLEAN
    /\ g_enc_switch_up \in BOOLEAN /\ g_enc_switch_down \in BOOLEAN
    /\ held \in BOOLEAN
    /\ quiet \in Scans /\ started \in Scans /\ within \in 0..ScansPerUpdate
    /\ unseen \in [closed : BOOLEAN, scans : Scans, due : BOOLEAN]

\* The interrupt may overwrite slots the loop has read and slots it is yet to
\* read, but the state the loop arrives at is the debounced state at one moment
\* of the update: closed exactly if one of the last ten samples was.
ReportsAMoment ==
    i = SWITCH_DEBOUNCE_BUFFER_SIZE =>
        g_enc_switch_state \in {started < SWITCH_DEBOUNCE_BUFFER_SIZE,
                                quiet < SWITCH_DEBOUNCE_BUFFER_SIZE}

\* "Any switch down even is immediately recognized" (input.c:433): while the
\* main loop comes round every nine scans, no closed sample goes unreported,
\* however short the press.
NoPressLost == i = SWITCH_DEBOUNCE_BUFFER_SIZE /\ unseen.due => g_enc_switch_state

\* Whoever follows the edges alone knows the debounced state: no press or release
\* is passed over and none is reported twice.
EdgesTellState == i = Idle => held = g_enc_switch_state
=============================================================================
