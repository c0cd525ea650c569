----------------------------- MODULE SlotStore ------------------------------
(***************************************************************************)
(* What the pattern memory of the step sequencer promises: a slot is empty *)
(* or holds, whole, what was playing when it was saved; only deleting it   *)
(* changes it; recalling it gives that back.  Losing power changes what    *)
(* plays and nothing else.                                                 *)
(***************************************************************************)
CONSTANTS
    Memories, Empty,
    Kept(_)         \* what is left of a kit once stored

VARIABLES
    kit,            \* what is playing: the patterns and the clips
    store,          \* what each slot holds
    recalled        \* what was playing after the last recall

vars == <<kit, store, recalled>>

Init == store = [m \in Memories |-> Empty] /\ recalled = Empty

Change == UNCHANGED <<store, recalled>>

Save(m) ==
    /\ store[m] = Empty
    /\ store' = [store EXCEPT ![m] = Kept(kit)]
    /\ UNCHANGED <<kit, recalled>>

Delete(m) == store' = [store EXCEPT ![m] = Empty] /\ UNCHANGED <<kit, recalled>>

Recall(m) ==
    /\ store[m] # Empty
    /\ kit' = store[m] /\ recalled' = store[m]
    /\ UNCHANGED store

Next == \/ Change
        \/ \E m \in Memories : Save(m) \/ Delete(m) \/ Recall(m)

Spec == Init /\ [][Next]_vars
=============================================================================
