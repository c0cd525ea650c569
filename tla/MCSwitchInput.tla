--------------------------- MODULE MCSwitchInput ----------------------------
(***************************************************************************)
(* SwitchInput with a debounce buffer of five samples.                     *)
(***************************************************************************)
EXTENDS SwitchInput
=============================================================================
