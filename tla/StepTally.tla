----------------------------- MODULE StepTally ------------------------------
(***************************************************************************)
(* What the reading of an encoder promises: a tally of steps and of the    *)
(* time they took, to which one party adds and which the other takes whole *)
(* and leaves empty, in one indivisible step.  Until the first reading,    *)
(* which is thrown away, nothing is promised.  EncoderInput is shown to    *)
(* implement this.                                                         *)
(***************************************************************************)
EXTENDS Integers

CONSTANTS StateHalf, CycleRange     \* the ranges of the two counters

VARIABLES
    ready,              \* the first reading has been thrown away
    steps, cycles,      \* the tally
    taken               \* what the last reading took, while it is used

vars == <<ready, steps, cycles, taken>>

Steps  == -StateHalf..(StateHalf - 1)
Cycles == 0..(CycleRange - 1)

Init == ready = FALSE /\ steps = 0 /\ cycles = 0 /\ taken = <<0, 0>>

Start ==
    /\ ~ready /\ ready' = TRUE
    /\ steps' \in Steps /\ cycles' \in Cycles
    /\ UNCHANGED taken

\* One step, which took d scans; both counters wrap.
Add(step, d) ==
    /\ ready
    /\ steps' = ((steps + step + StateHalf) % (2 * StateHalf)) - StateHalf
    /\ cycles' = (cycles + d) % CycleRange
    /\ UNCHANGED <<ready, taken>>

Take ==
    /\ ready /\ taken = <<0, 0>>
    /\ taken' = <<steps, cycles>>
    /\ steps' = 0 /\ cycles' = 0
    /\ UNCHANGED ready

Release ==
    /\ taken' = <<0, 0>>
    /\ UNCHANGED <<ready, steps, cycles>>

Next ==
    \/ Start
    \/ \E step \in {-1, 1}, d \in Cycles \ {0} : Add(step, d)
    \/ Take
    \/ Release

Spec == Init /\ [][Next]_vars
=============================================================================
