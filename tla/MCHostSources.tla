--------------------------- MODULE MCHostSources ---------------------------
(***************************************************************************)
(* Three networks of two addresses, so that seven hosts are more than there *)
(* are; four domains on two servers, four sites; and one item of each kind: *)
(* usable by both host types, by one of them, and by none.                  *)
(***************************************************************************)
EXTENDS HostSources

MCItems == {[domain |-> "a", port |-> 443, tcp |-> TRUE],
            [domain |-> "b", port |-> 0,   tcp |-> TRUE],
            [domain |-> "",  port |-> 53,  tcp |-> TRUE],
            [domain |-> "",  port |-> 53,  tcp |-> FALSE]}
=============================================================================
