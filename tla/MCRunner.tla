------------------------------ MODULE MCRunner ------------------------------
(***************************************************************************)
(* One module of each kind that the table allModules holds: an ordinary one *)
(* that asks the network for hosts (c2), one that holds a socket (icmp), a  *)
(* fast one (ssh), and one that ignores its context (telegram).             *)
(***************************************************************************)
EXTENDS Runner

MCNumOfHosts == [m \in Modules |-> CASE m = "c2" -> 2 [] m = "icmp" -> 1 [] OTHER -> 0]
=============================================================================
