--------------------------- MODULE MCSFTPPackets ---------------------------
(***************************************************************************)
(* Integers of two and three bytes, so that their order matters; strings of *)
(* no, one and two bytes; noise that makes other types, codes and lengths.  *)
(***************************************************************************)
EXTENDS SFTPPackets

MCStrings == {<<>>, <<7>>, <<0, 102>>}
=============================================================================
