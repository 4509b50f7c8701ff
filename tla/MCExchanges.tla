---------------------------- MODULE MCExchanges ----------------------------
(***************************************************************************)
(* Deadlines of the modules in run.go: one second (most), five (irc) and    *)
(* twenty (tunnel-icmp), the last one longer than a lookup.                 *)
(***************************************************************************)
EXTENDS Exchanges
=============================================================================
