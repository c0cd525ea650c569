----------------------------- MODULE MCEncoders -----------------------------
\* Instances of Encoders for TLC.
EXTENDS Encoders

Plain ==
    [detent |-> FALSE, relative |-> FALSE, move |-> "direct", action |-> "none",
     channel |-> 0, shift_channel |-> 5, number |-> 1]
Detent == [Plain EXCEPT !.detent = TRUE]
Elsewhere == [Plain EXCEPT !.number = 2]
Shifted == [Plain EXCEPT !.shift_channel = 4]

OneEncoder(first, second) ==
    [b \in Banks |-> [i \in Encoders |-> IF b = 0 THEN first ELSE second]]

\* One encoder in two banks; each configuration is about something else.
BankConfigs ==
    {\* the same mapping, with and without a detent
     OneEncoder(Detent, Plain),
     \* different mappings share only the counter
     OneEncoder(Detent, Elsewhere),
     \* shifted values, one toggled and one held
     OneEncoder([Shifted EXCEPT !.action = "shift_toggle"],
                [Shifted EXCEPT !.action = "shift_hold"]),
     \* the resets; fine adjustment of a relative encoder
     OneEncoder([Plain EXCEPT !.action = "reset_inv"], [Detent EXCEPT !.action = "reset"]),
     OneEncoder([Plain EXCEPT !.action = "fine"],
                [Elsewhere EXCEPT !.relative = TRUE, !.action = "fine"]),
     \* the fast movements
     OneEncoder([Detent EXCEPT !.move = "velocity"],
                [Elsewhere EXCEPT !.relative = TRUE, !.move = "responsive"]),
     OneEncoder([Plain EXCEPT !.move = "responsive"],
                [Elsewhere EXCEPT !.relative = TRUE])}

\* A detent in the first bank, another mapping without one in the second.
StaleConfigs == {OneEncoder(Detent, Elsewhere)}

SomeTicks == {-2, -1, 1, 2}

Feedback == {<<<<0, 1>>, 0>>, <<<<0, 1>>, 3>>, <<<<4, 1>>, 1>>}

\* What the theorems about these settings and ticks suppose of them.
ASSUME HypothesesHold == (\A c \in Configs : WellMapped(c)) /\ TicksFit

=============================================================================
