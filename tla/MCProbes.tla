------------------------------ MODULE MCProbes ------------------------------
(***************************************************************************)
(* Deadlines that are and are not multiples of the lookup timeout and of    *)
(* the number of ports, one of them with less than a tick for each port.    *)
(***************************************************************************)
EXTENDS Probes
=============================================================================
