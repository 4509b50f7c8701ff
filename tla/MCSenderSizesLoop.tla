------------------------- MODULE MCSenderSizesLoop -------------------------
(***************************************************************************)
(* Words of six bits: every size a word can hold, and every minimum up to   *)
(* half a word.                                                             *)
(***************************************************************************)
EXTENDS SenderSizesLoop

MCToSend == 0..(WordSize - 1)
MCMinSendSizes == {1, 2, 3, 7, 8, 16, 31, 32}
=============================================================================
