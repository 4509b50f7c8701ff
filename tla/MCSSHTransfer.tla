--------------------------- MODULE MCSSHTransfer ---------------------------
(***************************************************************************)
(* Two clients, as in the code, with chunks and shares of two bytes: sizes  *)
(* that need one client and two, full chunks and partial ones, and one      *)
(* share that takes several chunks.                                         *)
(***************************************************************************)
EXTENDS SSHTransfer
=============================================================================
