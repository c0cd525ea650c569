----------------------------- MODULE MCSequencer ----------------------------
\* Instance of Sequencer for TLC with four slots and sixteen steps, as in the code.
\* A scenario says which events may happen, which side buttons are used and which
\* encoders are turned and pressed.
EXTENDS Sequencer

May(events, sideButtons, turned, pressed) ==
    [events |-> events, buttons |-> sideButtons, turned |-> turned, pressed |-> pressed]

\* The encoders that choose the clip of the first slot, its pattern, and the pattern
\* of the last slot; the one that sets the last step; the first one as memory.
Clip        == 0
Pattern     == NumSlots
LastPattern == 2 * NumSlots - 1
LastStep    == 4 * NumSlots - 1
Memory1     == 0

Played == {"tick", "host play", "traktor"}

MCScenarios ==
    {\* the first slot changes its clip and pattern, and repeats beats
     May(Played, {}, {Clip, Pattern}, {Pattern}),
     \* the last slot plays its last step, which the first step releases, while the
     \* first slot may play the same steps or change its pattern
     May(Played, {}, {Pattern, LastStep}, {LastPattern}),
     \* the host's transport and the reset button move the place
     May(Played \cup {"transport"}, {0}, {Pattern}, {}),
     \* kits are saved, deleted and loaded while they play
     May(Played, {5}, {Pattern}, {Memory1}),
     \* shift, and the pattern memory with power failing
     May({"power loss"}, {1, 4, 5}, {Clip}, {Memory1}),
     May({"power loss", "tick", "traktor"}, {5}, {Pattern}, {Memory1}),
     May({}, {1, 4}, {Pattern}, {Pattern}),
     \* every side button
     May({}, 0..5, {}, {})}
=============================================================================
