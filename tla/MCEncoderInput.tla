--------------------------- MODULE MCEncoderInput ---------------------------
(***************************************************************************)
(* EncoderInput with a debounce time of 3 scans, 3-bit step counts and     *)
(* 5-bit cycle counts.                                                     *)
(***************************************************************************)
EXTENDS EncoderInput
=============================================================================
