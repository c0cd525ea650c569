----------------------------- MODULE MCDisplay ------------------------------
(***************************************************************************)
(* Display with two encoders and two banks.  A scenario names what may     *)
(* happen in a behaviour, as often as it likes and in any order.           *)
(***************************************************************************)
EXTENDS Display

MCScenarios == {
    {"value", "animate", "bank", "flash"},
    {"color", "animate_rgb", "host_bank", "page"},
    {"value", "color", "select", "host_bank"},
    {"value", "select", "bank", "flash", "timeout"},
    {"native", "combo", "select"},
    {"native", "page", "timeout"},
    {"turn", "press", "push", "reconnect", "timeout", "page", "other"}}
=============================================================================
